---------------------- MODULE AttendanceReports_proofs ----------------------
(***************************************************************************)
(* Theorems about AttendanceReports, for any finite number of students and *)
(* classes, any number of subjects and any changes of the tables.          *)
(***************************************************************************)
EXTENDS AttendanceReports, FiniteSetTheorems, TLAPS

\* How far the rows of a report can be at each of its stages.
ShapeOK ==
    /\ pc = "idle" <=> report = NoReport
    /\ pc \in {"idle", "enrollments"} => DOMAIN rows = {}
    /\ pc = "idle" => always = {}
    /\ pc # "rows" => late = {}
    /\ pc = "classes" => /\ report.kind = "subject"
                         /\ \A p \in DOMAIN rows : rows[p].at = "attended"
    /\ \A p \in DOMAIN rows :
         /\ rows[p].at = "total" => report.kind = "student"
         /\ report.kind = "subject" => p[2] = report.of

\* Attendances are of classes that exist.
RecordsOK == \A m \in Mark : attendance[m] # "none" => m[2] \in sessions

TypeInv == TypeOK /\ ShapeOK /\ RecordsOK

LateOf(x) == {c \in late : SubjectOf[c] = x}

\* What has been counted, against what is there now.
StudentRowsOK ==
    pc = "rows" /\ report.kind = "student" =>
      \A p \in DOMAIN rows :
        /\ rows[p].at = "total" => rows[p].attended <= Cardinality(ClassesOf(p[2]))
        /\ rows[p].at = "done" => rows[p].attended <= rows[p].total

SubjectRowsOK ==
    pc = "rows" /\ report.kind = "subject" =>
      \A p \in DOMAIN rows :
        /\ Cardinality(ClassesOf(p[2])) = rows[p].total + Cardinality(LateOf(p[2]))
        /\ rows[p].at = "done" => rows[p].attended <= rows[p].total + Cardinality(LateOf(p[2]))

WatchOK == Building => always \subseteq PresentMarks /\ PresentMarks \subseteq ever

WarrantedRowsOK ==
    pc = "rows" => \A p \in DOMAIN rows : rows[p].at # "attended" =>
      /\ Cardinality(MarksOf(p) \cap always) <= rows[p].attended
      /\ rows[p].attended <= Cardinality(MarksOf(p) \cap ever)

CountInv == StudentRowsOK /\ SubjectRowsOK /\ WatchOK /\ WarrantedRowsOK

USE SubjectOfAssumption, FiniteAssumption, NoReportAssumption
-----------------------------------------------------------------------------
\* The sets that are counted are finite.
LEMMA MarksFinite ==
    ASSUME NEW p, NEW S
    PROVE  IsFiniteSet(MarksOf(p) \cap S) /\ Cardinality(MarksOf(p) \cap S) \in Nat
<1>1. IsFiniteSet(Mark)
  BY FS_Product DEF Mark
<1>2. MarksOf(p) \cap S \in SUBSET Mark
  BY DEF MarksOf
<1> QED
  BY <1>1, <1>2, FS_Subset, FS_CardinalityType

LEMMA ClassesFinite ==
    ASSUME NEW S \in SUBSET Classes
    PROVE  IsFiniteSet(S) /\ Cardinality(S) \in Nat
BY FS_Subset, FS_CardinalityType

\* Counting more marks gives no less.
LEMMA MarksMonotone ==
    ASSUME NEW p, NEW S, NEW T, S \subseteq T
    PROVE  Cardinality(MarksOf(p) \cap S) <= Cardinality(MarksOf(p) \cap T)
<1>1. MarksOf(p) \cap S \in SUBSET (MarksOf(p) \cap T)
  OBVIOUS
<1> QED
  BY <1>1, MarksFinite, FS_Subset

\* A student has at most one attendance in each class of a subject.
LEMMA AttendedBound ==
    ASSUME TypeInv, NEW p \in Pair
    PROVE  Attended(p) \in Nat /\ Attended(p) <= Cardinality(ClassesOf(p[2]))
<1> DEFINE S == MarksOf(p) \cap PresentMarks
           T == ClassesOf(p[2])
           f == [m \in S |-> m[2]]
<1>1. \A m \in S : m \in Mark /\ m = <<p[1], m[2]>> /\ m[2] \in T
  BY DEF MarksOf, PresentMarks, ClassesOf, TypeInv, RecordsOK, Mark
<1>2. f \in Injection(S, T)
  BY <1>1 DEF Injection, IsInjective
<1>3. IsFiniteSet(T)
  BY ClassesFinite DEF ClassesOf, TypeInv, TypeOK
<1> HIDE DEF S, T, f
<1>4. Cardinality(S) <= Cardinality(T)
  BY <1>2, <1>3, FS_Injection
<1> QED
  BY <1>4, MarksFinite DEF S, T, Attended

LEMMA QueriesOrder ==
    /\ report.kind = "student" => /\ Queries[1] = "attended"
                                  /\ After("attended") = "total"
                                  /\ After("total") = "done"
    /\ report.kind = "subject" => /\ Queries[1] = "attended"
                                  /\ After("attended") = "done"
<1>1. CASE report.kind = "student"
  <2>1. Queries = <<"attended", "total", "done">>
    BY <1>1 DEF Queries
  <2>2. (CHOOSE i \in DOMAIN Queries : Queries[i] = "attended") = 1
    BY <2>1
  <2>3. (CHOOSE i \in DOMAIN Queries : Queries[i] = "total") = 2
    BY <2>1
  <2> QED
    BY <1>1, <2>1, <2>2, <2>3 DEF After
<1>2. CASE report.kind = "subject"
  <2>1. Queries = <<"attended", "done">>
    BY <1>2 DEF Queries
  <2>2. (CHOOSE i \in DOMAIN Queries : Queries[i] = "attended") = 1
    BY <2>1
  <2> QED
    BY <1>2, <2>1, <2>2 DEF After
<1> QED
  BY <1>1, <1>2

LEMMA ReportKind ==
    ASSUME NEW r \in Report
    PROVE  r.kind \in {"student", "subject"} /\ r # NoReport
BY DEF Report
-----------------------------------------------------------------------------
LEMMA TypeInit == Init => TypeInv
<1> SUFFICES ASSUME Init PROVE TypeInv
  OBVIOUS
<1>1. DOMAIN rows = {}
  BY DEF Init
<1>2. TypeOK
  BY <1>1 DEF Init, TypeOK
<1>3. ShapeOK
  BY <1>1 DEF Init, ShapeOK
<1>4. RecordsOK
  BY DEF Init, RecordsOK
<1> QED
  BY <1>2, <1>3, <1>4 DEF TypeInv

\* What a change of the tables is, as far as the reports are concerned.
TablesChange ==
    /\ Observe
    /\ enrollments' \subseteq Pair
    /\ attendance' \in [Mark -> {"none", "present", "absent"}]
    /\ RecordsOK'
    /\ \/ sessions' = sessions
       \/ \E c \in Classes \ sessions : sessions' = sessions \cup {c}

LEMMA ChangeStep ==
    ASSUME TypeInv,
           \/ \E c \in Classes : CreateClass(c)
           \/ \E p \in Pair : Enroll(p)
           \/ \E m \in Mark : Insert(m) \/ Amend(m, "present") \/ Amend(m, "absent")
    PROVE  TablesChange
<1> USE DEF TypeInv, TypeOK, RecordsOK, TablesChange
<1>1. ASSUME NEW c \in Classes, CreateClass(c) PROVE TablesChange
  BY <1>1 DEF CreateClass
<1>2. ASSUME NEW p \in Pair, Enroll(p) PROVE TablesChange
  BY <1>2 DEF Enroll
<1>3. ASSUME NEW m \in Mark, Insert(m) PROVE TablesChange
  BY <1>3 DEF Insert
<1>4. ASSUME NEW m \in Mark, NEW mark \in {"present", "absent"}, Amend(m, mark)
      PROVE  TablesChange
  BY <1>4 DEF Amend
<1> QED
  BY <1>1, <1>2, <1>3, <1>4

LEMMA ChangeType == TypeInv /\ TablesChange => TypeInv'
<1> SUFFICES ASSUME TypeInv, TablesChange PROVE TypeInv'
  OBVIOUS
<1>1. PresentMarks' \subseteq Mark
  BY DEF PresentMarks
<1>2. always' \subseteq ever'
  <2>1. CASE Building
    BY <2>1 DEF TablesChange, Observe, TypeInv, TypeOK
  <2>2. CASE ~Building
    BY <2>2 DEF TablesChange, Observe, TypeInv, ShapeOK, Building
  <2> QED
    BY <2>1, <2>2
<1>3. sessions' \subseteq Classes /\ late' \subseteq sessions' /\ sessions \subseteq sessions'
  BY DEF TablesChange, Observe, TypeInv, TypeOK
<1>4. TypeOK'
  BY <1>1, <1>2, <1>3 DEF TablesChange, Observe, TypeInv, TypeOK
<1>5. ShapeOK'
  BY DEF TablesChange, Observe, TypeInv, ShapeOK
<1> QED
  BY <1>4, <1>5 DEF TypeInv, TablesChange

LEMMA DiscardType == TypeInv /\ Discard /\ UNCHANGED tables => TypeInv'
<1> SUFFICES ASSUME TypeInv, Discard, UNCHANGED tables PROVE TypeInv'
  OBVIOUS
<1>1. DOMAIN rows' = {}
  BY DEF Discard
<1>2. TypeOK'
  BY <1>1 DEF Discard, tables, TypeInv, TypeOK
<1>3. ShapeOK'
  BY <1>1 DEF Discard, ShapeOK
<1> QED
  BY <1>2, <1>3 DEF TypeInv, RecordsOK, tables

\* A row is counted: the other rows stay, and this one gets its number.
LEMMA CountAttendedEffect ==
    ASSUME TypeInv, NEW p \in DOMAIN rows, CountAttended(p)
    PROVE  /\ p \in Pair /\ report \in Report
           /\ DOMAIN rows' = DOMAIN rows
           /\ \A q \in DOMAIN rows \ {p} : rows'[q] = rows[q]
           /\ rows'[p].at = After("attended") /\ rows'[p].attended = Attended(p)
           /\ rows'[p].total = rows[p].total /\ rows'[p] \in Entry
<1>1. p \in Pair /\ rows[p] \in Entry /\ report \in Report
  BY DEF TypeInv, TypeOK, ShapeOK, CountAttended
<1>2. Attended(p) \in Nat /\ After("attended") \in {"attended", "total", "done"}
  BY <1>1, AttendedBound, QueriesOrder, ReportKind
<1>3. rows[p] = [at |-> rows[p].at, attended |-> rows[p].attended, total |-> rows[p].total]
  BY <1>1 DEF Entry
<1>4. rows'[p] = [at |-> After("attended"), attended |-> Attended(p),
                  total |-> rows[p].total]
  BY <1>1, <1>3 DEF CountAttended, Entry
<1> QED
  BY <1>1, <1>2, <1>4 DEF CountAttended, Entry

LEMMA CountTotalEffect ==
    ASSUME TypeInv, NEW p \in DOMAIN rows, CountTotal(p)
    PROVE  /\ p \in Pair /\ report \in Report /\ report.kind = "student"
           /\ DOMAIN rows' = DOMAIN rows
           /\ \A q \in DOMAIN rows \ {p} : rows'[q] = rows[q]
           /\ rows'[p].at = "done" /\ rows'[p].attended = rows[p].attended
           /\ rows'[p].total = Cardinality(ClassesOf(p[2])) /\ rows'[p] \in Entry
<1>1. /\ p \in Pair /\ rows[p] \in Entry /\ report \in Report
      /\ report.kind = "student"
  BY DEF TypeInv, TypeOK, ShapeOK, CountTotal
<1>2. Cardinality(ClassesOf(p[2])) \in Nat /\ After("total") = "done"
  BY <1>1, ClassesFinite, QueriesOrder DEF ClassesOf, TypeInv, TypeOK
<1>3. rows[p] = [at |-> rows[p].at, attended |-> rows[p].attended, total |-> rows[p].total]
  BY <1>1 DEF Entry
<1>4. rows'[p] = [at |-> "done", attended |-> rows[p].attended,
                  total |-> Cardinality(ClassesOf(p[2]))]
  BY <1>1, <1>2, <1>3 DEF CountTotal, Entry
<1> QED
  BY <1>1, <1>2, <1>4 DEF CountTotal, Entry

LEMMA CountClassesEffect ==
    ASSUME TypeInv, CountClasses
    PROVE  /\ report \in Report /\ report.kind = "subject"
           /\ DOMAIN rows' = DOMAIN rows
           /\ \A p \in DOMAIN rows :
                /\ p \in Pair /\ p[2] = report.of /\ rows'[p] \in Entry
                /\ rows'[p].at = "attended"
                /\ rows'[p].total = Cardinality(ClassesOf(p[2]))
<1>1. /\ report \in Report /\ report.kind = "subject"
      /\ \A p \in DOMAIN rows : /\ p \in Pair /\ rows[p] \in Entry
                                /\ p[2] = report.of /\ rows[p].at = "attended"
  BY DEF TypeInv, TypeOK, ShapeOK, CountClasses
<1>2. Cardinality(ClassesOf(report.of)) \in Nat
  BY ClassesFinite DEF ClassesOf, TypeInv, TypeOK
<1> QED
  BY <1>1, <1>2 DEF CountClasses, Entry

LEMMA TypeStep == TypeInv /\ [Next]_vars => TypeInv'
<1> SUFFICES ASSUME TypeInv, [Next]_vars PROVE TypeInv'
  OBVIOUS
<1>1. ASSUME NEW r \in Report, Ask(r) PROVE TypeInv'
  <2>1. DOMAIN rows' = {} /\ PresentMarks \subseteq Mark
    BY <1>1 DEF Ask, PresentMarks
  <2>2. TypeOK'
    BY <1>1, <2>1 DEF Ask, tables, TypeInv, TypeOK
  <2>3. ShapeOK'
    BY <1>1, <2>1 DEF Ask, ShapeOK
  <2> QED
    BY <1>1, <2>2, <2>3 DEF Ask, tables, TypeInv, RecordsOK
<1>2. CASE FindEnrollments
  <2>1. report \in Report /\ report.kind \in {"student", "subject"}
    BY <1>2, ReportKind DEF FindEnrollments, TypeInv, TypeOK, ShapeOK
  <2>2. Reported \subseteq Pair /\ (report.kind = "subject" => \A p \in Reported : p[2] = report.of)
    BY DEF Reported, TypeInv, TypeOK
  <2>3. /\ DOMAIN rows' = Reported
        /\ \A p \in Reported : rows'[p] = [at |-> "attended", attended |-> 0, total |-> 0]
    BY <1>2, <2>1, QueriesOrder DEF FindEnrollments
  <2>4. TypeOK'
    BY <1>2, <2>2, <2>3 DEF FindEnrollments, tables, watched, TypeInv, TypeOK, Entry
  <2>5. ShapeOK'
    BY <1>2, <2>1, <2>2, <2>3 DEF FindEnrollments, watched, TypeInv, ShapeOK
  <2> QED
    BY <1>2, <2>4, <2>5 DEF FindEnrollments, tables, TypeInv, RecordsOK
<1>3. CASE CountClasses
  <2>1. TypeOK'
    BY <1>3, CountClassesEffect DEF CountClasses, tables, watched, TypeInv, TypeOK
  <2>2. ShapeOK'
    BY <1>3, CountClassesEffect, ReportKind DEF CountClasses, ShapeOK
  <2> QED
    BY <1>3, <2>1, <2>2 DEF CountClasses, tables, TypeInv, RecordsOK
<1>4. ASSUME NEW p \in DOMAIN rows, CountAttended(p) PROVE TypeInv'
  <2>1. /\ \A q \in DOMAIN rows' : rows'[q] \in Entry /\ q \in Pair
        /\ UNCHANGED <<tables, report, pc, watched>> /\ pc = "rows"
    BY <1>4, CountAttendedEffect DEF CountAttended, TypeInv, TypeOK
  <2>2. TypeOK'
    BY <2>1 DEF tables, watched, TypeInv, TypeOK
  <2>3. rows'[p].at = "total" => report.kind = "student"
    <3>1. rows'[p].at = After("attended") /\ report.kind \in {"student", "subject"}
      BY <1>4, CountAttendedEffect, ReportKind
    <3> QED
      BY <3>1, QueriesOrder
  <2>4. ShapeOK'
    BY <1>4, <2>1, <2>3, CountAttendedEffect DEF TypeInv, ShapeOK
  <2> QED
    BY <2>1, <2>2, <2>4 DEF tables, TypeInv, RecordsOK
<1>5. ASSUME NEW p \in DOMAIN rows, CountTotal(p) PROVE TypeInv'
  <2>1. /\ \A q \in DOMAIN rows' : rows'[q] \in Entry /\ q \in Pair
        /\ UNCHANGED <<tables, report, pc, watched>> /\ pc = "rows"
    BY <1>5, CountTotalEffect DEF CountTotal, TypeInv, TypeOK
  <2>2. TypeOK'
    BY <2>1 DEF tables, watched, TypeInv, TypeOK
  <2>3. ShapeOK'
    BY <1>5, <2>1, CountTotalEffect DEF TypeInv, ShapeOK
  <2> QED
    BY <2>1, <2>2, <2>3 DEF tables, TypeInv, RecordsOK
<1>6. CASE Send \/ Fail
  BY <1>6, DiscardType DEF Send, Fail
<1>7. CASE TablesChange
  BY <1>7, ChangeType
<1>8. CASE UNCHANGED vars
  <2>1. TypeOK'
    BY <1>8 DEF vars, tables, watched, TypeInv, TypeOK
  <2>2. ShapeOK' /\ RecordsOK'
    BY <1>8 DEF vars, tables, watched, TypeInv, ShapeOK, RecordsOK
  <2> QED
    BY <2>1, <2>2 DEF TypeInv
<1> QED
  BY <1>1, <1>2, <1>3, <1>4, <1>5, <1>6, <1>7, <1>8, ChangeStep DEF Next, Build

-----------------------------------------------------------------------------
LEMMA CountInit == Init => CountInv
BY DEF Init, CountInv, StudentRowsOK, SubjectRowsOK, WatchOK, WarrantedRowsOK, Building

\* A class that is created while the rows are counted is late, and only that.
LEMMA LateGrows ==
    ASSUME TypeInv, TablesChange, pc = "rows", NEW x
    PROVE  /\ Cardinality(ClassesOf(x)) \in Nat /\ Cardinality(LateOf(x)) \in Nat
           /\ \E k \in Nat : /\ Cardinality(ClassesOf(x)') = Cardinality(ClassesOf(x)) + k
                             /\ Cardinality(LateOf(x)') = Cardinality(LateOf(x)) + k
<1>1. ClassesOf(x) \in SUBSET Classes /\ LateOf(x) \in SUBSET Classes
  BY DEF ClassesOf, LateOf, TypeInv, TypeOK
<1>2. /\ IsFiniteSet(ClassesOf(x)) /\ IsFiniteSet(LateOf(x))
      /\ Cardinality(ClassesOf(x)) \in Nat /\ Cardinality(LateOf(x)) \in Nat
  BY <1>1, ClassesFinite
<1>3. late' = late \cup (sessions' \ sessions)
  BY DEF TablesChange, Observe
<1>4. CASE \/ sessions' = sessions
           \/ \E c \in Classes \ sessions : /\ sessions' = sessions \cup {c}
                                            /\ SubjectOf[c] # x
  <2>1. ClassesOf(x)' = ClassesOf(x) /\ LateOf(x)' = LateOf(x)
    BY <1>3, <1>4 DEF ClassesOf, LateOf
  <2> QED
    BY <1>2, <2>1
<1>5. ASSUME NEW c \in Classes \ sessions,
             sessions' = sessions \cup {c}, SubjectOf[c] = x
      PROVE  /\ Cardinality(ClassesOf(x)') = Cardinality(ClassesOf(x)) + 1
             /\ Cardinality(LateOf(x)') = Cardinality(LateOf(x)) + 1
  <2>1. /\ ClassesOf(x)' = ClassesOf(x) \cup {c} /\ c \notin ClassesOf(x)
        /\ LateOf(x)' = LateOf(x) \cup {c} /\ c \notin LateOf(x)
    BY <1>3, <1>5 DEF ClassesOf, LateOf, TypeInv, TypeOK
  <2> QED
    BY <1>2, <2>1, FS_AddElement
<1> QED
  BY <1>2, <1>4, <1>5 DEF TablesChange

LEMMA ChangeCount == TypeInv /\ CountInv /\ TablesChange => CountInv'
<1> SUFFICES ASSUME TypeInv, CountInv, TablesChange PROVE CountInv'
  OBVIOUS
<1>1. /\ UNCHANGED <<report, pc, rows>>
      /\ \A p \in DOMAIN rows : rows[p].attended \in Nat /\ rows[p].total \in Nat
  BY DEF TablesChange, Observe, TypeInv, TypeOK, Entry
<1>2. StudentRowsOK'
  BY <1>1, LateGrows DEF CountInv, StudentRowsOK
<1>3. SubjectRowsOK'
  BY <1>1, LateGrows DEF CountInv, SubjectRowsOK
<1>4. WatchOK'
  BY DEF TablesChange, Observe, WatchOK, Building
<1>5. WarrantedRowsOK'
  <2> SUFFICES ASSUME pc = "rows", NEW p \in DOMAIN rows, rows[p].at # "attended"
               PROVE  /\ Cardinality(MarksOf(p) \cap always') <= rows[p].attended
                      /\ rows[p].attended <= Cardinality(MarksOf(p) \cap ever')
    BY <1>1 DEF WarrantedRowsOK, MarksOf
  <2>1. always' \subseteq always /\ ever \subseteq ever'
    BY DEF TablesChange, Observe, TypeInv, ShapeOK, Building
  <2>2. /\ Cardinality(MarksOf(p) \cap always) <= rows[p].attended
        /\ rows[p].attended <= Cardinality(MarksOf(p) \cap ever)
    BY DEF CountInv, WarrantedRowsOK
  <2>3. Cardinality(MarksOf(p) \cap always') <= Cardinality(MarksOf(p) \cap always)
    BY <2>1, MarksMonotone
  <2>4. Cardinality(MarksOf(p) \cap ever) <= Cardinality(MarksOf(p) \cap ever')
    BY <2>1, MarksMonotone
  <2>5. /\ Cardinality(MarksOf(p) \cap always) \in Nat
        /\ Cardinality(MarksOf(p) \cap always') \in Nat
        /\ Cardinality(MarksOf(p) \cap ever) \in Nat
        /\ Cardinality(MarksOf(p) \cap ever') \in Nat
        /\ rows[p].attended \in Nat
    BY <1>1, MarksFinite
  <2> QED
    BY <2>2, <2>3, <2>4, <2>5
<1> QED
  BY <1>2, <1>3, <1>4, <1>5 DEF CountInv

\* A step of the report itself leaves the watched sets as they are.
LEMMA QuietWatch ==
    ASSUME CountInv, UNCHANGED <<tables, report, watched>>
    PROVE  WatchOK'
BY DEF CountInv, WatchOK, Building, PresentMarks, tables, watched

LEMMA CountStep == TypeInv /\ CountInv /\ [Next]_vars => CountInv'
<1> SUFFICES ASSUME TypeInv, CountInv, [Next]_vars PROVE CountInv'
  OBVIOUS
<1>1. ASSUME NEW r \in Report, Ask(r) PROVE CountInv'
  BY <1>1 DEF Ask, tables, CountInv, StudentRowsOK, SubjectRowsOK, WatchOK,
              WarrantedRowsOK, PresentMarks
<1>2. CASE FindEnrollments
  <2>1. report \in Report /\ report.kind \in {"student", "subject"}
    BY <1>2, ReportKind DEF FindEnrollments, TypeInv, TypeOK, ShapeOK
  <2>2. /\ \A p \in DOMAIN rows' : rows'[p].at = "attended"
        /\ report' = report /\ (report.kind = "subject" => pc' = "classes")
    BY <1>2, <2>1, QueriesOrder DEF FindEnrollments
  <2>3. WatchOK'
    BY <1>2, QuietWatch DEF FindEnrollments
  <2> QED
    BY <2>2, <2>3 DEF CountInv, StudentRowsOK, SubjectRowsOK, WarrantedRowsOK
<1>3. CASE CountClasses
  <2>1. /\ report.kind = "subject" /\ report' = report
        /\ \A p \in DOMAIN rows' :
             /\ rows'[p].at = "attended"
             /\ rows'[p].total = Cardinality(ClassesOf(p[2]))
    BY <1>3, CountClassesEffect DEF CountClasses
  <2>2. SubjectRowsOK'
    <3> SUFFICES ASSUME NEW p \in DOMAIN rows'
                 PROVE  Cardinality(ClassesOf(p[2])') = rows'[p].total + Cardinality(LateOf(p[2])')
      BY <2>1 DEF SubjectRowsOK
    <3>1. ClassesOf(p[2])' = ClassesOf(p[2]) /\ LateOf(p[2])' = {}
      BY <1>3 DEF CountClasses, tables, watched, ClassesOf, LateOf, TypeInv, ShapeOK
    <3>2. Cardinality(ClassesOf(p[2])) \in Nat
      BY ClassesFinite DEF ClassesOf, TypeInv, TypeOK
    <3> QED
      BY <2>1, <3>1, <3>2, FS_EmptySet
  <2>3. WatchOK'
    BY <1>3, QuietWatch DEF CountClasses
  <2> QED
    BY <2>1, <2>2, <2>3 DEF CountInv, StudentRowsOK, WarrantedRowsOK
<1>4. ASSUME NEW p \in DOMAIN rows, CountAttended(p) PROVE CountInv'
  <2>1. /\ UNCHANGED <<tables, report, pc, watched>> /\ pc = "rows"
        /\ UNCHANGED <<sessions, always, ever, late>>
        /\ report.kind \in {"student", "subject"} /\ Building
    BY <1>4, CountAttendedEffect, ReportKind
       DEF CountAttended, tables, watched, Building
  <2>2. /\ DOMAIN rows' = DOMAIN rows
        /\ \A q \in DOMAIN rows \ {p} : rows'[q] = rows[q]
        /\ rows'[p].at = After("attended") /\ rows'[p].attended = Attended(p)
        /\ rows'[p].total = rows[p].total /\ p \in Pair
    BY <1>4, CountAttendedEffect
  <2>3. Attended(p) \in Nat /\ Attended(p) <= Cardinality(ClassesOf(p[2]))
    BY <2>2, AttendedBound
  <2>4. StudentRowsOK'
    BY <2>1, <2>2, <2>3, QueriesOrder DEF CountInv, StudentRowsOK, ClassesOf
  <2>5. SubjectRowsOK'
    <3>1. \A q : ClassesOf(q[2])' = ClassesOf(q[2]) /\ LateOf(q[2])' = LateOf(q[2])
      BY <2>1 DEF ClassesOf, LateOf
    <3>2. SubjectRowsOK
      BY DEF CountInv
    <3> QED
      BY <2>1, <2>2, <2>3, <3>1, <3>2 DEF SubjectRowsOK
  <2>6. WarrantedRowsOK'
    <3>1. /\ Cardinality(MarksOf(p) \cap always) <= Attended(p)
          /\ Attended(p) <= Cardinality(MarksOf(p) \cap ever)
      BY <2>1, MarksMonotone DEF CountInv, WatchOK, Attended
    <3> QED
      BY <2>1, <2>2, <3>1 DEF CountInv, WarrantedRowsOK, MarksOf
  <2> QED
    BY <2>1, <2>4, <2>5, <2>6, QuietWatch DEF CountInv
<1>5. ASSUME NEW p \in DOMAIN rows, CountTotal(p) PROVE CountInv'
  <2>1. /\ UNCHANGED <<tables, report, pc, watched>> /\ pc = "rows"
        /\ UNCHANGED <<sessions, always, ever, late>> /\ rows[p].at = "total"
    BY <1>5 DEF CountTotal, tables, watched
  <2>2. /\ DOMAIN rows' = DOMAIN rows /\ report.kind = "student"
        /\ \A q \in DOMAIN rows \ {p} : rows'[q] = rows[q]
        /\ rows'[p].at = "done" /\ rows'[p].attended = rows[p].attended
        /\ rows'[p].total = Cardinality(ClassesOf(p[2]))
    BY <1>5, CountTotalEffect
  <2>3. StudentRowsOK'
    BY <2>1, <2>2 DEF CountInv, StudentRowsOK, ClassesOf
  <2>4. SubjectRowsOK'
    BY <2>1, <2>2 DEF SubjectRowsOK
  <2>5. WarrantedRowsOK'
    <3>1. \A q \in DOMAIN rows : /\ rows'[q].attended = rows[q].attended
                                 /\ rows'[q].at # "attended" => rows[q].at # "attended"
      BY <2>1, <2>2
    <3>2. SUFFICES ASSUME NEW q \in DOMAIN rows, rows'[q].at # "attended"
                   PROVE  /\ Cardinality(MarksOf(q) \cap always) <= rows'[q].attended
                          /\ rows'[q].attended <= Cardinality(MarksOf(q) \cap ever)
      BY <2>1, <2>2 DEF WarrantedRowsOK, MarksOf
    <3> QED
      BY <2>1, <3>1, <3>2 DEF CountInv, WarrantedRowsOK
  <2> QED
    BY <2>1, <2>3, <2>4, <2>5, QuietWatch DEF CountInv
<1>6. CASE Send \/ Fail
  BY <1>6 DEF Send, Fail, Discard, CountInv, StudentRowsOK, SubjectRowsOK, WatchOK,
              WarrantedRowsOK, Building
<1>7. CASE TablesChange
  BY <1>7, ChangeCount
<1>8. CASE UNCHANGED vars
  BY <1>8 DEF vars, tables, watched, CountInv, StudentRowsOK, SubjectRowsOK, WatchOK,
              WarrantedRowsOK, Building, PresentMarks, ClassesOf, LateOf, MarksOf
<1> QED
  BY <1>1, <1>2, <1>3, <1>4, <1>5, <1>6, <1>7, <1>8, ChangeStep DEF Next, Build
-----------------------------------------------------------------------------
\* For any number of students and classes, tables, report and rows keep their types.
THEOREM TypeCorrect == Spec => []TypeOK
<1>1. TypeInv => TypeOK
  BY DEF TypeInv
<1> QED
  BY <1>1, TypeInit, TypeStep, PTL DEF Spec

\* For any number of students and classes and any changes of the tables, the
\* report of a student shows no more attendances than classes.
THEOREM StudentPercentageBounded == Spec => []AttendedWithinTotal
<1>1. CountInv => AttendedWithinTotal
  BY DEF CountInv, StudentRowsOK, AttendedWithinTotal, Answered
<1> QED
  BY <1>1, TypeInit, TypeStep, CountInit, CountStep, PTL DEF Spec

\* For any number of students and classes, the attendances the report of a subject
\* shows beyond its classes are of classes created after it counted them.
THEOREM SubjectExcessExplained == Spec => []ExcessIsNewClasses
<1>1. CountInv => ExcessIsNewClasses
  BY DEF CountInv, SubjectRowsOK, ExcessIsNewClasses, Answered, LateOf
<1> QED
  BY <1>1, TypeInit, TypeStep, CountInit, CountStep, PTL DEF Spec

\* For any number of students and classes, a row counts each class the student was
\* present at all along, and none the student was never present at.
THEOREM RowsAreWarranted == Spec => []CountsWarranted
<1>1. CountInv => CountsWarranted
  BY DEF CountInv, WarrantedRowsOK, CountsWarranted, Answered
<1> QED
  BY <1>1, TypeInit, TypeStep, CountInit, CountStep, PTL DEF Spec
=============================================================================
