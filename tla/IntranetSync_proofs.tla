------------------------ MODULE IntranetSync_proofs ------------------------
(***************************************************************************)
(* Theorems about IntranetSync, for any snapshot that is closed, any seed  *)
(* in order and any number of synchronisations, failures and restarts.     *)
(*                                                                         *)
(* The first part is about the order of the snapshot, which FlattenSeq and *)
(* concatenations make: FlattenSeq is a recursive function, and what it    *)
(* returns is shown by induction over the number of its sequences.         *)
(***************************************************************************)
EXTENDS IntranetSync, WellFoundedInduction, TLAPS

\* Every set of natural numbers has a least one, which makes induction over the
\* natural numbers available.
LEMMA LeastNatural ==
    ASSUME NEW T, T \subseteq Nat, T # {}
    PROVE  \E m \in T : \A n \in T : m <= n
<1> DEFINE R == OpToRel(<, Nat)
<1>1. IsWellFoundedOn(R, Nat)
  BY NatLessThanWellFounded
<1>2. \A x, y \in Nat : x < y => <<x, y>> \in R
  BY DEF OpToRel
<1> HIDE DEF R
<1>3. PICK m \in T : \A n \in T : ~(<<n, m>> \in R)
  BY <1>1, WFMin
<1>4. ASSUME NEW n \in T PROVE m <= n
  <2>1. m \in Nat /\ n \in Nat
    OBVIOUS
  <2>2. n < m => <<n, m>> \in R
    BY <1>2, <2>1
  <2>3. ~(<<n, m>> \in R)
    BY <1>3
  <2>4. ~(n < m)
    BY <2>2, <2>3
  <2> QED
    BY <2>1, <2>4
<1> QED
  BY <1>4

LEMMA Induction ==
    ASSUME NEW S, 0 \in S, \A n \in Nat : n \in S => n + 1 \in S
    PROVE  Nat \subseteq S
<1> SUFFICES ASSUME Nat \ S # {} PROVE FALSE
  OBVIOUS
<1>1. PICK m \in Nat \ S : \A n \in Nat \ S : m <= n
  BY LeastNatural
<1>2. m # 0
  BY <1>1
<1>3. m - 1 \in Nat /\ m - 1 \in S
  BY <1>1, <1>2
<1>4. (m - 1) + 1 \in S
  BY <1>3
<1> QED
  BY <1>1, <1>4

\* The elements of a concatenation.
LEMMA ConcatRange ==
    ASSUME NEW S, NEW s \in Seq(S), NEW t \in Seq(S)
    PROVE  /\ s \o t \in Seq(S)
           /\ Range(s \o t) = Range(s) \cup Range(t)
<1>1. /\ s \o t \in Seq(S) /\ Len(s \o t) = Len(s) + Len(t)
      /\ \A i \in 1..Len(s) : (s \o t)[i] = s[i]
      /\ \A i \in 1..Len(t) : (s \o t)[Len(s) + i] = t[i]
      /\ Len(s) \in Nat /\ Len(t) \in Nat
  OBVIOUS
<1>2. /\ DOMAIN s = 1..Len(s) /\ DOMAIN t = 1..Len(t)
      /\ DOMAIN (s \o t) = 1..Len(s) + Len(t)
  BY <1>1
<1> DEFINE st == s \o t
<1> HIDE DEF st
<1>3. Range(st) \subseteq Range(s) \cup Range(t)
  <2> SUFFICES ASSUME NEW i \in 1..Len(s) + Len(t)
               PROVE  st[i] \in Range(s) \cup Range(t)
    BY <1>2 DEF Range, st
  <2>1. CASE i <= Len(s)
    <3>1. i \in 1..Len(s)
      BY <1>1, <2>1
    <3> QED
      BY <1>1, <1>2, <3>1 DEF Range, st
  <2>2. CASE i > Len(s)
    <3>1. i - Len(s) \in 1..Len(t) /\ Len(s) + (i - Len(s)) = i
      BY <1>1, <2>2
    <3>2. st[i] = t[i - Len(s)]
      BY <1>1, <3>1 DEF st
    <3> QED
      BY <1>2, <3>1, <3>2 DEF Range
  <2> QED
    BY <1>1, <2>1, <2>2
<1>4. Range(s) \subseteq Range(st)
  <2> SUFFICES ASSUME NEW i \in 1..Len(s) PROVE s[i] \in Range(st)
    BY <1>2 DEF Range
  <2>1. i \in 1..Len(s) + Len(t) /\ st[i] = s[i]
    BY <1>1 DEF st
  <2> QED
    BY <1>2, <2>1 DEF Range, st
<1>5. Range(t) \subseteq Range(st)
  <2> SUFFICES ASSUME NEW i \in 1..Len(t) PROVE t[i] \in Range(st)
    BY <1>2 DEF Range
  <2>1. Len(s) + i \in 1..Len(s) + Len(t) /\ st[Len(s) + i] = t[i]
    BY <1>1 DEF st
  <2> QED
    BY <1>2, <2>1 DEF Range, st
<1> QED
  BY <1>1, <1>3, <1>4, <1>5 DEF st

\* FlattenSeq meets its recursive equation: there is a function that does, by
\* induction over its domain.
LEMMA FlattenUnfolds ==
    ASSUME NEW seqs, Len(seqs) \in Nat \ {0}
    PROVE  \E f : /\ FlattenSeq(seqs) = f[Len(seqs)]
                  /\ f[1] = seqs[1]
                  /\ \A i \in 2..Len(seqs) : f[i] = f[i - 1] \o seqs[i]
<1> DEFINE n == Len(seqs)
           Step(f, i) == IF i = 1 THEN seqs[i] ELSE f[i - 1] \o seqs[i]
           F(f, k) == [i \in 1..k |-> Step(f, i)]
           Ks == {k \in Nat : \E f : f = F(f, k)}
           flatten == CHOOSE f : f = F(f, n)
<1>1. 0 \in Ks
  <2>1. F(<<>>, 0) = <<>>
    OBVIOUS
  <2> QED
    BY <2>1
<1>2. ASSUME NEW k \in Nat, k \in Ks PROVE k + 1 \in Ks
  <2>1. PICK f : f = F(f, k)
    BY <1>2
  <2> DEFINE g == [i \in 1..k + 1 |-> IF i <= k THEN f[i] ELSE Step(f, i)]
  <2>2. ASSUME NEW i \in 1..k + 1 PROVE g[i] = Step(g, i)
    <3>1. g[i] = Step(f, i)
      <4>1. CASE i <= k
        <5>1. i \in 1..k
          BY <4>1
        <5> QED
          BY <2>1, <4>1, <5>1
      <4>2. CASE ~(i <= k)
        BY <4>2
      <4> QED
        BY <4>1, <4>2
    <3>2. i # 1 => g[i - 1] = f[i - 1]
      OBVIOUS
    <3> QED
      BY <3>1, <3>2
  <2>3. g = F(g, k + 1)
    BY <2>2
  <2> HIDE DEF F, g
  <2> QED
    BY <2>3
<1>3. n \in Ks
  BY <1>1, <1>2, Induction
<1>4. flatten = F(flatten, n)
  BY <1>3
<1>5. FlattenSeq(seqs) = flatten[n]
  BY DEF FlattenSeq
<1> HIDE DEF flatten
<1>6. \A i \in 1..n : flatten[i] = Step(flatten, i)
  BY <1>4
<1>7. flatten[1] = seqs[1]
  BY <1>6
<1>8. ASSUME NEW i \in 2..n PROVE flatten[i] = flatten[i - 1] \o seqs[i]
  <2>1. i \in 1..n /\ i # 1
    OBVIOUS
  <2> QED
    BY <1>6, <2>1
<1> QED
  BY <1>5, <1>7, <1>8

\* What FlattenSeq returns: a sequence of the elements of its sequences.
LEMMA FlattenRange ==
    ASSUME NEW S, NEW seqs \in Seq(Seq(S))
    PROVE  /\ FlattenSeq(seqs) \in Seq(S)
           /\ Range(FlattenSeq(seqs)) = UNION {Range(seqs[k]) : k \in DOMAIN seqs}
<1> DEFINE n == Len(seqs)
<1>1. /\ n \in Nat /\ DOMAIN seqs = 1..n
      /\ \A i \in 1..n : seqs[i] \in Seq(S)
  OBVIOUS
<1>2. CASE n = 0
  <2>1. FlattenSeq(seqs) = seqs /\ seqs = <<>>
    BY <1>2 DEF FlattenSeq
  <2> QED
    BY <2>1 DEF Range
<1>3. CASE n # 0
  <2> HIDE DEF n
  <2>1. PICK f : /\ FlattenSeq(seqs) = f[n]
                 /\ f[1] = seqs[1]
                 /\ \A i \in 2..n : f[i] = f[i - 1] \o seqs[i]
    BY <1>1, <1>3, FlattenUnfolds DEF n
  <2> DEFINE Good(k) == /\ f[k] \in Seq(S)
                        /\ Range(f[k]) = UNION {Range(seqs[i]) : i \in 1..k}
             Ks == {k \in Nat : k + 1 <= n => Good(k + 1)}
  <2>2. 0 \in Ks
    <3>1. 1 \in 1..n
      BY <1>1, <1>3
    <3>2. f[1] \in Seq(S)
      BY <1>1, <2>1, <3>1
    <3>3. {Range(seqs[i]) : i \in 1..1} = {Range(seqs[1])}
      OBVIOUS
    <3>4. Range(f[1]) = UNION {Range(seqs[i]) : i \in 1..1}
      BY <2>1, <3>3
    <3> QED
      BY <3>2, <3>4
  <2>3. ASSUME NEW k \in Nat, k \in Ks PROVE k + 1 \in Ks
    <3>0. (k + 1) + 1 = k + 2
      OBVIOUS
    <3> SUFFICES ASSUME k + 2 <= n PROVE Good(k + 2)
      BY <3>0
    <3>1. Good(k + 1)
      BY <1>1, <2>3
    <3>2. k + 2 \in 2..n /\ k + 2 \in 1..n /\ (k + 2) - 1 = k + 1
      BY <1>1
    <3>3. f[k + 2] = f[k + 1] \o seqs[k + 2] /\ seqs[k + 2] \in Seq(S)
      BY <1>1, <2>1, <3>2
    <3>4. f[k + 2] \in Seq(S) /\ Range(f[k + 2]) = Range(f[k + 1]) \cup Range(seqs[k + 2])
      BY <3>1, <3>3, ConcatRange
    <3>5. 1..k + 2 = (1..k + 1) \cup {k + 2}
      OBVIOUS
    <3>6. UNION {Range(seqs[i]) : i \in 1..k + 2}
            = (UNION {Range(seqs[i]) : i \in 1..k + 1}) \cup Range(seqs[k + 2])
      BY <3>5
    <3> QED
      BY <3>1, <3>4, <3>6
  <2> HIDE DEF Ks
  <2>4. Nat \subseteq Ks
    BY <2>2, <2>3, Induction
  <2>5. n - 1 \in Nat /\ (n - 1) + 1 = n
    BY <1>1, <1>3
  <2>6. Good(n)
    <3>1. n - 1 \in Ks
      BY <2>4, <2>5
    <3> QED
      BY <1>1, <2>5, <3>1 DEF Ks
  <2> QED
    BY <1>1, <2>1, <2>6
<1> QED
  BY <1>2, <1>3
-----------------------------------------------------------------------------
\* The rows of the snapshot, table by table.
UserRows == UNION {IF u \in Persons THEN {User(u), Person(u)} ELSE {User(u)} :
                     u \in Range(SnapshotUsers)}
SubjectRows == {Subject(k) : k \in Range(SnapshotSubjects)}
EnrollmentRows == {Enrollment(e) : e \in Range(SnapshotEnrollments)}
TeachingRows == {Teaching(t) : t \in Range(SnapshotTeachings)}
ClassRows == {Class(c) : c \in Range(SnapshotClasses)}

SnapshotRows == UserRows \cup SubjectRows \cup EnrollmentRows \cup TeachingRows \cup ClassRows

\* The parts that Plan puts one after the other.
UserPart == FlattenSeq(MapTo(RowsOfUser, SnapshotUsers))
SubjectPart == MapTo(Subject, SnapshotSubjects)
EnrollmentPart == MapTo(Enrollment, SnapshotEnrollments)
TeachingPart == MapTo(Teaching, SnapshotTeachings)
ClassPart == MapTo(Class, SnapshotClasses)

LEMMA SequenceFacts ==
    ASSUME NEW s, IsSequence(s)
    PROVE  /\ s \in Seq(Range(s)) /\ Len(s) \in Nat /\ DOMAIN s = 1..Len(s)
           /\ \A j \in 1..Len(s) : s[j] \in Range(s)
BY DEF IsSequence, Range

LEMMA SequenceOf ==
    ASSUME NEW S, NEW n \in Nat, NEW f \in [1..n -> S]
    PROVE  f \in Seq(S)
OBVIOUS

LEMMA PartsType ==
    /\ SubjectPart \in Seq(SnapshotRows) /\ Range(SubjectPart) = SubjectRows
    /\ EnrollmentPart \in Seq(SnapshotRows) /\ Range(EnrollmentPart) = EnrollmentRows
    /\ TeachingPart \in Seq(SnapshotRows) /\ Range(TeachingPart) = TeachingRows
    /\ ClassPart \in Seq(SnapshotRows) /\ Range(ClassPart) = ClassRows
<1>1. SubjectPart \in Seq(SnapshotRows) /\ Range(SubjectPart) = SubjectRows
  <2>1. Range(SubjectPart) = SubjectRows
    BY DEF SubjectPart, SubjectRows, MapTo, Range
  <2>2. SubjectPart \in [1..Len(SnapshotSubjects) -> SubjectRows]
    BY SnapshotAssumption, SequenceFacts DEF SubjectPart, SubjectRows, MapTo
  <2>3. Len(SnapshotSubjects) \in Nat
    BY SnapshotAssumption, SequenceFacts
  <2>4. SubjectPart \in Seq(SubjectRows)
    BY <2>2, <2>3, SequenceOf
  <2>5. Seq(SubjectRows) \subseteq Seq(SnapshotRows)
    BY DEF SnapshotRows
  <2> QED
    BY <2>1, <2>4, <2>5
<1>2. EnrollmentPart \in Seq(SnapshotRows) /\ Range(EnrollmentPart) = EnrollmentRows
  <2>1. Range(EnrollmentPart) = EnrollmentRows
    BY DEF EnrollmentPart, EnrollmentRows, MapTo, Range
  <2>2. EnrollmentPart \in [1..Len(SnapshotEnrollments) -> EnrollmentRows]
    BY SnapshotAssumption, SequenceFacts DEF EnrollmentPart, EnrollmentRows, MapTo
  <2>3. Len(SnapshotEnrollments) \in Nat
    BY SnapshotAssumption, SequenceFacts
  <2>4. EnrollmentPart \in Seq(EnrollmentRows)
    BY <2>2, <2>3, SequenceOf
  <2>5. Seq(EnrollmentRows) \subseteq Seq(SnapshotRows)
    BY DEF SnapshotRows
  <2> QED
    BY <2>1, <2>4, <2>5
<1>3. TeachingPart \in Seq(SnapshotRows) /\ Range(TeachingPart) = TeachingRows
  <2>1. Range(TeachingPart) = TeachingRows
    BY DEF TeachingPart, TeachingRows, MapTo, Range
  <2>2. TeachingPart \in [1..Len(SnapshotTeachings) -> TeachingRows]
    BY SnapshotAssumption, SequenceFacts DEF TeachingPart, TeachingRows, MapTo
  <2>3. Len(SnapshotTeachings) \in Nat
    BY SnapshotAssumption, SequenceFacts
  <2>4. TeachingPart \in Seq(TeachingRows)
    BY <2>2, <2>3, SequenceOf
  <2>5. Seq(TeachingRows) \subseteq Seq(SnapshotRows)
    BY DEF SnapshotRows
  <2> QED
    BY <2>1, <2>4, <2>5
<1>4. ClassPart \in Seq(SnapshotRows) /\ Range(ClassPart) = ClassRows
  <2>1. Range(ClassPart) = ClassRows
    BY DEF ClassPart, ClassRows, MapTo, Range
  <2>2. ClassPart \in [1..Len(SnapshotClasses) -> ClassRows]
    BY SnapshotAssumption, SequenceFacts DEF ClassPart, ClassRows, MapTo
  <2>3. Len(SnapshotClasses) \in Nat
    BY SnapshotAssumption, SequenceFacts
  <2>4. ClassPart \in Seq(ClassRows)
    BY <2>2, <2>3, SequenceOf
  <2>5. Seq(ClassRows) \subseteq Seq(SnapshotRows)
    BY DEF SnapshotRows
  <2> QED
    BY <2>1, <2>4, <2>5
<1> QED
  BY <1>1, <1>2, <1>3, <1>4

LEMMA UserPartType ==
    UserPart \in Seq(SnapshotRows) /\ Range(UserPart) = UserRows
<1> DEFINE seqs == MapTo(RowsOfUser, SnapshotUsers)
<1>1. /\ Len(SnapshotUsers) \in Nat /\ DOMAIN SnapshotUsers = 1..Len(SnapshotUsers)
      /\ \A j \in 1..Len(SnapshotUsers) : SnapshotUsers[j] \in Range(SnapshotUsers)
  BY SnapshotAssumption, SequenceFacts
<1>2. ASSUME NEW u \in Range(SnapshotUsers)
      PROVE  /\ RowsOfUser(u) \in Seq(UserRows)
             /\ Range(RowsOfUser(u)) = IF u \in Persons THEN {User(u), Person(u)} ELSE {User(u)}
  <2>1. CASE u \in Persons
    <3>1. RowsOfUser(u) = <<User(u), Person(u)>>
      BY <2>1 DEF RowsOfUser
    <3>2. User(u) \in UserRows /\ Person(u) \in UserRows
      BY <2>1 DEF UserRows
    <3>3. Range(<<User(u), Person(u)>>) = {User(u), Person(u)}
      BY DEF Range
    <3> QED
      BY <2>1, <3>1, <3>2, <3>3
  <2>2. CASE u \notin Persons
    <3>1. RowsOfUser(u) = <<User(u)>>
      BY <2>2 DEF RowsOfUser
    <3>2. User(u) \in UserRows
      BY <2>2 DEF UserRows
    <3>3. Range(<<User(u)>>) = {User(u)}
      BY DEF Range
    <3> QED
      BY <2>2, <3>1, <3>2, <3>3
  <2> QED
    BY <2>1, <2>2
<1>3. /\ seqs = [j \in 1..Len(SnapshotUsers) |-> RowsOfUser(SnapshotUsers[j])]
      /\ DOMAIN seqs = 1..Len(SnapshotUsers)
  BY <1>1 DEF MapTo
<1>4. seqs \in Seq(Seq(UserRows))
  <2>1. seqs \in [1..Len(SnapshotUsers) -> Seq(UserRows)]
    BY <1>1, <1>2, <1>3
  <2> QED
    BY <1>1, <2>1
<1> HIDE DEF seqs
<1>5. UserPart \in Seq(UserRows)
  BY <1>4, FlattenRange DEF UserPart, seqs
<1>6. Range(UserPart) = UNION {Range(seqs[j]) : j \in DOMAIN seqs}
  BY <1>4, FlattenRange DEF UserPart, seqs
<1>7. {Range(seqs[j]) : j \in DOMAIN seqs}
        = {IF u \in Persons THEN {User(u), Person(u)} ELSE {User(u)} : u \in Range(SnapshotUsers)}
  <2>1. \A j \in 1..Len(SnapshotUsers) :
          Range(seqs[j]) = IF SnapshotUsers[j] \in Persons
                           THEN {User(SnapshotUsers[j]), Person(SnapshotUsers[j])}
                           ELSE {User(SnapshotUsers[j])}
    BY <1>1, <1>2, <1>3
  <2>2. Range(SnapshotUsers) = {SnapshotUsers[j] : j \in 1..Len(SnapshotUsers)}
    BY <1>1 DEF Range
  <2> DEFINE RowsOf(u) == IF u \in Persons THEN {User(u), Person(u)} ELSE {User(u)}
  <2>3. \A j \in 1..Len(SnapshotUsers) : Range(seqs[j]) = RowsOf(SnapshotUsers[j])
    BY <2>1
  <2> HIDE DEF RowsOf
  <2>4. {Range(seqs[j]) : j \in 1..Len(SnapshotUsers)}
          = {RowsOf(SnapshotUsers[j]) : j \in 1..Len(SnapshotUsers)}
    BY <2>3
  <2>5. {RowsOf(SnapshotUsers[j]) : j \in 1..Len(SnapshotUsers)}
          = {RowsOf(u) : u \in Range(SnapshotUsers)}
    BY <2>2
  <2>6. {Range(seqs[j]) : j \in DOMAIN seqs} = {RowsOf(u) : u \in Range(SnapshotUsers)}
    BY <1>3, <2>4, <2>5
  <2> QED
    BY <2>6 DEF RowsOf
<1>8. Seq(UserRows) \subseteq Seq(SnapshotRows)
  BY DEF SnapshotRows
<1>9. Range(UserPart) = UserRows
  BY <1>6, <1>7 DEF UserRows
<1> QED
  BY <1>5, <1>8, <1>9

\* The rows that come before position j, and that all of X comes before any of Y.
Before(p, j) == {p[k] : k \in 1..j - 1}
Precedes(X, Y, p) == \A j \in 1..Len(p) : p[j] \in Y => X \subseteq Before(p, j)

LEMMA PrecedesConcat ==
    ASSUME NEW S, NEW s \in Seq(S), NEW t \in Seq(S), NEW Y, Y \cap Range(s) = {}
    PROVE  Precedes(Range(s), Y, s \o t)
<1> DEFINE st == s \o t
<1>1. /\ Len(st) = Len(s) + Len(t) /\ Len(s) \in Nat /\ Len(t) \in Nat
      /\ \A i \in 1..Len(s) : st[i] = s[i]
      /\ DOMAIN s = 1..Len(s)
  OBVIOUS
<1> HIDE DEF st
<1> SUFFICES ASSUME NEW j \in 1..Len(st), st[j] \in Y, NEW i \in 1..Len(s)
             PROVE  \E k \in 1..j - 1 : st[k] = s[i]
  BY <1>1 DEF Precedes, Before, Range, st
<1>2. ~(j \in 1..Len(s))
  BY <1>1 DEF Range
<1>3. i \in 1..j - 1
  BY <1>1, <1>2
<1> QED
  BY <1>1, <1>3

LEMMA PrecedesExtends ==
    ASSUME NEW S, NEW s \in Seq(S), NEW t \in Seq(S), NEW X, NEW Y,
           X \subseteq Range(s), Precedes(X, Y, s)
    PROVE  Precedes(X, Y, s \o t)
<1> DEFINE st == s \o t
<1>1. /\ Len(st) = Len(s) + Len(t) /\ Len(s) \in Nat /\ Len(t) \in Nat
      /\ \A i \in 1..Len(s) : st[i] = s[i]
      /\ DOMAIN s = 1..Len(s)
  OBVIOUS
<1> HIDE DEF st
<1> SUFFICES ASSUME NEW j \in 1..Len(st), st[j] \in Y, NEW x \in X
             PROVE  x \in Before(st, j)
  BY DEF Precedes, st
<1>2. CASE j \in 1..Len(s)
  <2>1. x \in Before(s, j)
    BY <1>1, <1>2 DEF Precedes
  <2>2. PICK k \in 1..j - 1 : x = s[k]
    BY <2>1 DEF Before
  <2>3. k \in 1..Len(s)
    BY <1>1, <1>2
  <2> QED
    BY <1>1, <2>2, <2>3 DEF Before
<1>3. CASE ~(j \in 1..Len(s))
  <2>1. PICK k \in 1..Len(s) : x = s[k]
    BY <1>1 DEF Range
  <2>2. k \in 1..j - 1
    BY <1>1, <1>3
  <2> QED
    BY <1>1, <2>1, <2>2 DEF Before
<1> QED
  BY <1>2, <1>3

LEMMA TablesDiffer ==
    /\ \A i \in UserRows : Table(i) \in {"users", "students", "professors"}
    /\ \A i \in SubjectRows : Table(i) = "subjects"
    /\ \A i \in EnrollmentRows : Table(i) = "enrollments"
    /\ \A i \in TeachingRows : Table(i) = "teachings"
    /\ \A i \in ClassRows : Table(i) = "class_sessions"
BY DEF UserRows, SubjectRows, EnrollmentRows, TeachingRows, ClassRows, Table,
       User, Person, Subject, Enrollment, Teaching, Class

\* The order of the snapshot: users and subjects, then who is enrolled and who
\* teaches, then classes.
THEOREM PlanOrder ==
    /\ Plan \in Seq(SnapshotRows) /\ Range(Plan) = SnapshotRows
    /\ Precedes(UserRows \cup SubjectRows, EnrollmentRows, Plan)
    /\ Precedes(UserRows \cup SubjectRows \cup EnrollmentRows, TeachingRows, Plan)
    /\ Precedes(UserRows \cup SubjectRows \cup EnrollmentRows \cup TeachingRows,
                ClassRows, Plan)
<1> DEFINE A == UserPart
           B == A \o SubjectPart
           C == B \o EnrollmentPart
           D == C \o TeachingPart
<1>0. Plan = D \o ClassPart
  BY DEF Plan, UserPart, SubjectPart, EnrollmentPart, TeachingPart, ClassPart
<1>1. A \in Seq(SnapshotRows) /\ Range(A) = UserRows
  BY UserPartType
<1>2. B \in Seq(SnapshotRows) /\ Range(B) = UserRows \cup SubjectRows
  BY <1>1, PartsType, ConcatRange
<1> HIDE DEF B
<1>3. C \in Seq(SnapshotRows) /\ Range(C) = UserRows \cup SubjectRows \cup EnrollmentRows
  BY <1>2, PartsType, ConcatRange
<1>4. Precedes(UserRows \cup SubjectRows, EnrollmentRows, C)
  <2>1. EnrollmentRows \cap Range(B) = {}
    BY <1>2, TablesDiffer
  <2>2. Precedes(Range(B), EnrollmentRows, B \o EnrollmentPart)
    BY <1>2, <2>1, PartsType, PrecedesConcat
  <2> QED
    BY <1>2, <2>2
<1> HIDE DEF C
<1>5. /\ D \in Seq(SnapshotRows)
      /\ Range(D) = UserRows \cup SubjectRows \cup EnrollmentRows \cup TeachingRows
  BY <1>3, PartsType, ConcatRange
<1>6. Precedes(UserRows \cup SubjectRows, EnrollmentRows, D)
  <2>1. UserRows \cup SubjectRows \subseteq Range(C)
    BY <1>3
  <2> QED
    BY <1>3, <1>4, <2>1, PartsType, PrecedesExtends
<1>7. Precedes(UserRows \cup SubjectRows \cup EnrollmentRows, TeachingRows, D)
  <2>1. TeachingRows \cap Range(C) = {}
    BY <1>3, TablesDiffer
  <2>2. Precedes(Range(C), TeachingRows, C \o TeachingPart)
    BY <1>3, <2>1, PartsType, PrecedesConcat
  <2> QED
    BY <1>3, <2>2
<1> HIDE DEF D
<1>8. Plan \in Seq(SnapshotRows) /\ Range(Plan) = SnapshotRows
  <2>1. /\ D \o ClassPart \in Seq(SnapshotRows)
        /\ Range(D \o ClassPart) = Range(D) \cup Range(ClassPart)
    BY <1>5, PartsType, ConcatRange
  <2> QED
    BY <1>0, <1>5, <2>1, PartsType DEF SnapshotRows
<1>9. /\ Precedes(UserRows \cup SubjectRows, EnrollmentRows, Plan)
      /\ Precedes(UserRows \cup SubjectRows \cup EnrollmentRows, TeachingRows, Plan)
  <2>1. /\ UserRows \cup SubjectRows \subseteq Range(D)
        /\ UserRows \cup SubjectRows \cup EnrollmentRows \subseteq Range(D)
    BY <1>5
  <2> QED
    BY <1>0, <1>5, <1>6, <1>7, <2>1, PartsType, PrecedesExtends
<1>10. Precedes(UserRows \cup SubjectRows \cup EnrollmentRows \cup TeachingRows,
                ClassRows, Plan)
  <2>1. ClassRows \cap Range(D) = {}
    BY <1>5, TablesDiffer
  <2>2. Precedes(Range(D), ClassRows, D \o ClassPart)
    BY <1>5, <2>1, PartsType, PrecedesConcat
  <2> QED
    BY <1>0, <1>5, <2>2
<1> QED
  BY <1>8, <1>9, <1>10

\* The loop of synchronize goes through a sequence of rows.
LEMMA PlanIsSequence == Plan \in Seq(Rows)
<1>1. SnapshotRows \subseteq Rows
  BY PlanOrder DEF Rows
<1> QED
  BY <1>1, PlanOrder
-----------------------------------------------------------------------------
\* Where a synchronisation in flight is: at a row of the snapshot, or at the end;
\* and save reads nothing but subjects back.
PlaceOK ==
    \A r \in Requests :
        /\ await[r] \in {"lookup", "selectRow", "write"} => at[r] \in 1..Len(Plan)
        /\ await[r] = "count" => at[r] = Len(Plan) + 1
        /\ image[r] => await[r] = "write" /\ Table(Plan[at[r]]) = "subjects"
        /\ await[r] = "selectRow" => Table(Plan[at[r]]) = "subjects"
        /\ await[r] = "lookup" => Table(Plan[at[r]]) \in {"users", "subjects"}

TypeInv == TypeOK /\ PlaceOK

\* What a synchronisation in flight has passed is stored.
PassedOK ==
    \A r \in Requests : InFlight(r) =>
        \A j \in 1..Len(Plan) : j < at[r] => Stored(Plan[j])

PassedInv == PassedOK /\ AckedSyncStored

USE FailuresAssumption, PlanIsSequence, NoRowAssumption, SeedAssumption
-----------------------------------------------------------------------------
LEMMA PlanType ==
    /\ Len(Plan) \in Nat /\ DOMAIN Plan = 1..Len(Plan)
    /\ \A j \in 1..Len(Plan) : Plan[j] \in Rows
OBVIOUS

LEMMA ValueType == \A i : Value(i) \in Values(i)
BY DEF Value, Values

LEMMA FirstAwaitType ==
    ASSUME NEW j \in 1..Len(Plan) + 1
    PROVE  /\ FirstAwait(j) \in {"lookup", "write", "count"}
           /\ FirstAwait(j) = "count" => j = Len(Plan) + 1
           /\ FirstAwait(j) = "lookup" => Table(Plan[j]) \in {"users", "subjects"}
           /\ FirstAwait(j) \in {"lookup", "write"} => j \in 1..Len(Plan)
BY PlanType DEF FirstAwait

RowType == /\ row \in [Rows -> (UNION {Values(i) : i \in Rows}) \cup {NoRow}]
           /\ \A i \in Rows : Stored(i) => row[i] \in Values(i)

\* A row that is written has a value of its table, and is stored.
LEMMA PutEffect ==
    ASSUME RowType, NEW i \in Rows, NEW value \in Values(i), Put(i, value)
    PROVE  /\ RowType'
           /\ row'[i] = value /\ value # NoRow
           /\ \A j \in Rows \ {i} : row'[j] = row[j]
           /\ \A j \in Rows : Stored(j) => Stored(j)'
BY DEF RowType, Put, Stored

LEMMA CommitEffect ==
    ASSUME TypeInv, NEW r \in Requests, Commit(r)
    PROVE  LET i == Plan[at[r]] IN
           /\ at[r] \in 1..Len(Plan) /\ i \in Rows
           /\ RowType' /\ row'[i] # NoRow
           /\ \A j \in Rows \ {i} : row'[j] = row[j]
           /\ \A j \in Rows : Stored(j) => Stored(j)'
<1> DEFINE i == Plan[at[r]]
<1>1. at[r] \in 1..Len(Plan) /\ i \in Rows
  BY PlanType DEF TypeInv, PlaceOK, Commit
<1>2. RowType
  BY DEF TypeInv, TypeOK, RowType
<1>3. Put(i, Value(i)) /\ Value(i) \in Values(i)
  BY ValueType DEF Commit
<1> HIDE DEF i
<1>4. /\ RowType' /\ row'[i] = Value(i) /\ Value(i) # NoRow
      /\ \A j \in Rows \ {i} : row'[j] = row[j]
      /\ \A j \in Rows : Stored(j) => Stored(j)'
  BY <1>1, <1>2, <1>3, PutEffect
<1>5. row'[i] # NoRow
  BY <1>4
<1> QED
  BY <1>1, <1>4, <1>5 DEF i

LEMMA SeedEffect ==
    ASSUME TypeInv, Seed
    PROVE  /\ RowType' /\ started' \in 1..Len(SeedBatches) + 1
           /\ \A i \in Rows : Stored(i) => row'[i] = row[i]
<1>1. /\ Len(SeedBatches) \in Nat /\ DOMAIN SeedBatches = 1..Len(SeedBatches)
      /\ started \in 1..Len(SeedBatches)
  BY DEF Seed, Serving, TypeInv, TypeOK
<1>2. \A i \in SeedBatches[started] : i \in Rows /\ SeedValue(i) \in Values(i)
  BY <1>1 DEF Range
<1>3. RowType
  BY DEF TypeInv, TypeOK, RowType
<1>4. \A i \in Rows : Stored(i) => row'[i] = row[i]
  BY DEF Seed
<1>5. \A i \in Rows : ~Stored(i) => row'[i] \in Values(i) \cup {NoRow}
  BY <1>2 DEF Seed, Stored
<1>6. \A i \in Rows : row'[i] \in Values(i) \cup {NoRow}
  BY <1>3, <1>4, <1>5 DEF RowType, Stored
<1>7. row' = [i \in Rows |-> row'[i]]
  BY DEF Seed
<1>8. RowType'
  BY <1>6, <1>7 DEF RowType, Stored
<1> QED
  BY <1>1, <1>4, <1>8 DEF Seed

LEMMA OtherEffect ==
    ASSUME TypeInv, NEW i \in Rows, NEW value \in Values(i), Other(i, value)
    PROVE  RowType' /\ \A j \in Rows : Stored(j) => Stored(j)'
<1>1. RowType
  BY DEF TypeInv, TypeOK, RowType
<1> QED
  BY <1>1, PutEffect DEF Other

\* Nothing that is stored disappears.
LEMMA RowsStay ==
    ASSUME TypeInv, [Next]_vars
    PROVE  \A i \in Rows : Stored(i) => Stored(i)'
<1>1. ASSUME NEW r \in Requests, Commit(r) PROVE \A i \in Rows : Stored(i) => Stored(i)'
  BY <1>1, CommitEffect
<1>2. CASE Seed
  BY <1>2, SeedEffect DEF Stored
<1>3. ASSUME NEW i \in Rows, NEW value \in Values(i), Other(i, value)
      PROVE  \A j \in Rows : Stored(j) => Stored(j)'
  BY <1>3, OtherEffect
<1>4. CASE UNCHANGED row
  BY <1>4 DEF Stored
<1>5. \/ Seed \/ UNCHANGED row
      \/ \E r \in Requests : Commit(r)
      \/ \E i \in Rows : \E value \in Values(i) : Other(i, value)
  BY DEF Next, Progress, Begin, Lookup, SelectRow, Write, Count, Fail, Crash, vars
<1> QED
  BY <1>1, <1>2, <1>3, <1>4, <1>5
-----------------------------------------------------------------------------
LEMMA TypeInit == Init => TypeInv
<1> SUFFICES ASSUME Init PROVE TypeInv
  OBVIOUS
<1>1. RowType
  BY DEF Init, RowType, Stored
<1>2. Len(Plan) \in Nat /\ Len(SeedBatches) \in Nat
  OBVIOUS
<1>3. TypeOK
  BY <1>1, <1>2 DEF Init, TypeOK, RowType
<1>4. PlaceOK
  BY DEF Init, PlaceOK
<1> QED
  BY <1>3, <1>4 DEF TypeInv

\* The types of everything but the rows, and the places.
SlotsInv == /\ started \in 1..Len(SeedBatches) + 1
            /\ at \in [Requests -> 1..Len(Plan) + 1]
            /\ await \in [Requests -> Awaits \cup {"idle", "created", "failed"}]
            /\ image \in [Requests -> BOOLEAN]
            /\ failures \in 0..MaxFailures
            /\ PlaceOK

LEMMA InvParts == TypeInv <=> RowType /\ SlotsInv
BY DEF TypeInv, TypeOK, RowType, SlotsInv

\* A synchronisation goes to a row, or to its end.
LEMMA GoToSlots ==
    ASSUME SlotsInv, NEW r \in Requests, NEW j \in 1..Len(Plan) + 1,
           GoTo(r, j, FirstAwait(j)), UNCHANGED <<started, failures>>
    PROVE  /\ SlotsInv'
           /\ at'[r] = j /\ await'[r] = FirstAwait(j)
           /\ \A q \in Requests \ {r} : at'[q] = at[q] /\ await'[q] = await[q]
<1>1. /\ at' = [at EXCEPT ![r] = j] /\ image' = [image EXCEPT ![r] = FALSE]
      /\ await' = [await EXCEPT ![r] = FirstAwait(j)]
      /\ FirstAwait(j) \in Awaits
  BY FirstAwaitType DEF GoTo, Awaits
<1>2. PlaceOK'
  BY <1>1, FirstAwaitType DEF SlotsInv, PlaceOK
<1> QED
  BY <1>1, <1>2 DEF SlotsInv

LEMMA AdvanceSlots ==
    ASSUME SlotsInv, NEW r \in Requests, await[r] \in {"lookup", "write"},
           Advance(r), UNCHANGED <<started, failures>>
    PROVE  /\ SlotsInv'
           /\ at'[r] = at[r] + 1
           /\ \A q \in Requests \ {r} : at'[q] = at[q] /\ await'[q] = await[q]
<1>1. at[r] + 1 \in 1..Len(Plan) + 1
  BY PlanType DEF SlotsInv, PlaceOK
<1> QED
  BY <1>1, GoToSlots DEF Advance

LEMMA AnswerSlots ==
    ASSUME SlotsInv, NEW r \in Requests, NEW answer \in {"created", "failed"},
           Answer(r, answer), started' = started, failures' \in 0..MaxFailures
    PROVE  /\ SlotsInv'
           /\ await'[r] = answer
           /\ \A q \in Requests \ {r} : at'[q] = at[q] /\ await'[q] = await[q]
BY DEF Answer, SlotsInv, PlaceOK

LEMMA TypeStep == TypeInv /\ [Next]_vars => TypeInv'
<1> SUFFICES ASSUME TypeInv, [Next]_vars PROVE TypeInv'
  OBVIOUS
<1>1. RowType /\ SlotsInv
  BY InvParts
<1>2. (RowType' /\ SlotsInv') => TypeInv'
  BY InvParts, PTL
<1>3. UNCHANGED row => RowType'
  BY <1>1 DEF RowType, Stored
<1>4. CASE Seed
  BY <1>1, <1>2, <1>4, SeedEffect DEF Seed, SlotsInv, PlaceOK
<1>5. CASE Crash
  <2>1. Len(SeedBatches) \in Nat /\ failures' \in 0..MaxFailures
    BY <1>1, <1>5 DEF Crash, SlotsInv
  <2>2. SlotsInv'
    BY <1>1, <1>5, <2>1 DEF Crash, SlotsInv, PlaceOK, InFlight
  <2> QED
    BY <1>2, <1>3, <1>5, <2>2 DEF Crash
<1>6. ASSUME NEW r \in Requests, Begin(r) PROVE TypeInv'
  <2>1. 1 \in 1..Len(Plan) + 1
    BY PlanType
  <2> QED
    BY <1>1, <1>2, <1>3, <1>6, <2>1, GoToSlots DEF Begin
<1>7. ASSUME NEW r \in Requests, Lookup(r) PROVE TypeInv'
  <2>1. CASE Advance(r)
    BY <1>1, <1>2, <1>3, <1>7, <2>1, AdvanceSlots DEF Lookup
  <2>2. CASE GoTo(r, at[r], IF Table(Plan[at[r]]) = "users" THEN "write" ELSE "selectRow")
    <3> DEFINE next == IF Table(Plan[at[r]]) = "users" THEN "write" ELSE "selectRow"
    <3>1. /\ at[r] \in 1..Len(Plan)
          /\ Table(Plan[at[r]]) \in {"users", "subjects"}
      BY <1>1, <1>7 DEF Lookup, SlotsInv, PlaceOK
    <3>2. /\ at' = [at EXCEPT ![r] = at[r]] /\ image' = [image EXCEPT ![r] = FALSE]
          /\ await' = [await EXCEPT ![r] = next]
          /\ next \in {"write", "selectRow"}
          /\ next = "selectRow" => Table(Plan[at[r]]) = "subjects"
      BY <2>2, <3>1 DEF GoTo
    <3> HIDE DEF next
    <3>3. at' = at
      BY <1>1, <3>2 DEF SlotsInv
    <3>4. PlaceOK'
      BY <1>1, <3>1, <3>2, <3>3 DEF SlotsInv, PlaceOK
    <3>5. SlotsInv'
      BY <1>1, <1>7, <3>2, <3>3, <3>4 DEF Lookup, SlotsInv, Awaits
    <3> QED
      BY <1>2, <1>3, <1>7, <3>5 DEF Lookup
  <2> QED
    BY <1>7, <2>1, <2>2 DEF Lookup
<1>8. ASSUME NEW r \in Requests, SelectRow(r) PROVE TypeInv'
  <2>1. Table(Plan[at[r]]) = "subjects" /\ at[r] \in 1..Len(Plan)
    BY <1>1, <1>8 DEF SelectRow, SlotsInv, PlaceOK
  <2>2. /\ image' = [image EXCEPT ![r] = Stored(Plan[at[r]])]
        /\ Stored(Plan[at[r]]) \in BOOLEAN
        /\ await' = [await EXCEPT ![r] = "write"]
    BY <1>8 DEF SelectRow, Stored
  <2>3. PlaceOK'
    BY <1>1, <1>8, <2>1, <2>2 DEF SelectRow, SlotsInv, PlaceOK
  <2>4. SlotsInv'
    BY <1>1, <1>8, <2>2, <2>3 DEF SelectRow, SlotsInv, Awaits
  <2> QED
    BY <1>2, <1>3, <1>8, <2>4 DEF SelectRow
<1>9. ASSUME NEW r \in Requests, Write(r) PROVE TypeInv'
  <2>1. CASE Commit(r) /\ Advance(r)
    BY <1>1, <1>2, <1>9, <2>1, AdvanceSlots, CommitEffect DEF Write, Commit
  <2>2. CASE Answer(r, "failed") /\ UNCHANGED row
    BY <1>1, <1>2, <1>3, <1>9, <2>2, AnswerSlots DEF Write, SlotsInv
  <2> QED
    BY <1>9, <2>1, <2>2 DEF Write
<1>10. ASSUME NEW r \in Requests, Count(r) PROVE TypeInv'
  BY <1>1, <1>2, <1>3, <1>10, AnswerSlots DEF Count, SlotsInv
<1>11. ASSUME NEW r \in Requests, Fail(r) PROVE TypeInv'
  <2>1. failures' \in 0..MaxFailures /\ started' = started /\ Answer(r, "failed")
    BY <1>1, <1>11 DEF Fail, SlotsInv
  <2>2. RowType'
    BY <1>3, <1>11, CommitEffect DEF Fail
  <2> QED
    BY <1>1, <1>2, <2>1, <2>2, AnswerSlots
<1>12. ASSUME NEW i \in Rows, NEW value \in Values(i), Other(i, value) PROVE TypeInv'
  BY <1>1, <1>2, <1>12, OtherEffect DEF Other, SlotsInv, PlaceOK
<1>13. CASE UNCHANGED vars
  BY <1>1, <1>2, <1>3, <1>13 DEF vars, SlotsInv, PlaceOK
<1> QED
  BY <1>4, <1>5, <1>6, <1>7, <1>8, <1>9, <1>10, <1>11, <1>12, <1>13
  DEF Next, Progress

\* For any snapshot and any seed, rows keep the types of their tables and
\* synchronisations their places in the snapshot.
THEOREM TypeCorrect == Spec => []TypeOK
<1>1. TypeInv => TypeOK
  BY DEF TypeInv
<1> QED
  BY <1>1, TypeInit, TypeStep, PTL DEF Spec
-----------------------------------------------------------------------------
LEMMA PassedInit == Init => PassedInv
BY DEF Init, PassedInv, PassedOK, AckedSyncStored, InFlight, Awaits

LEMMA PassedStep == TypeInv /\ PassedInv /\ [Next]_vars => PassedInv'
<1> SUFFICES ASSUME TypeInv, PassedInv, [Next]_vars PROVE PassedInv'
  OBVIOUS
<1>1. PassedOK /\ AckedSyncStored /\ SlotsInv
  BY InvParts DEF PassedInv
<1>2. \A j \in 1..Len(Plan) : Stored(Plan[j]) => Stored(Plan[j])'
  BY RowsStay, PlanType DEF Stored
<1>3. Complete => Complete'
  BY <1>2, PlanType DEF Complete
\* What is shown for a slot that takes a step.
<1> DEFINE SlotOK(r) ==
      /\ InFlight(r)' => \A j \in 1..Len(Plan) : j < at'[r] => Stored(Plan[j])'
      /\ await'[r] = "created" => Complete'
<1>4. ASSUME \A r \in Requests : SlotOK(r) PROVE PassedInv'
  BY <1>4 DEF PassedInv, PassedOK, AckedSyncStored
<1>5. ASSUME NEW r \in Requests, at'[r] = at[r],
             await'[r] = await[r] \/ (InFlight(r) /\ await'[r] \in Awaits \cup {"failed"})
      PROVE  SlotOK(r)
  BY <1>1, <1>2, <1>3, <1>5 DEF PassedOK, AckedSyncStored, InFlight, Awaits
<1>6. ASSUME NEW r \in Requests, InFlight(r), at[r] \in 1..Len(Plan),
             Advance(r), row'[Plan[at[r]]] # NoRow, UNCHANGED <<started, failures>>,
             await[r] \in {"lookup", "write"}
      PROVE  \A q \in Requests : SlotOK(q)
  <2>1. /\ at'[r] = at[r] + 1 /\ await'[r] # "created"
        /\ \A q \in Requests \ {r} : at'[q] = at[q] /\ await'[q] = await[q]
    <3>1. at[r] + 1 \in 1..Len(Plan) + 1
      BY <1>6, PlanType
    <3> QED
      BY <1>1, <1>6, <3>1, GoToSlots, FirstAwaitType DEF Advance
  <2>2. SlotOK(r)
    <3>1. \A j \in 1..Len(Plan) : j < at[r] => Stored(Plan[j])'
      BY <1>1, <1>2, <1>6 DEF PassedOK
    <3>2. ASSUME NEW j \in 1..Len(Plan), j < at'[r] PROVE Stored(Plan[j])'
      <4>1. j < at[r] \/ j = at[r]
        BY <1>6, <2>1, <3>2, PlanType
      <4> QED
        BY <1>6, <3>1, <4>1 DEF Stored
    <3> QED
      BY <2>1, <3>2
  <2> QED
    BY <1>5, <2>1, <2>2
<1>7. ASSUME NEW r \in Requests, InFlight(r), Answer(r, "failed") PROVE PassedInv'
  <2>1. \A q \in Requests : SlotOK(q)
    <3>1. /\ at' = at /\ await'[r] = "failed"
          /\ \A q \in Requests \ {r} : await'[q] = await[q]
      BY <1>1, <1>7 DEF Answer, SlotsInv
    <3> QED
      BY <1>5, <1>7, <3>1
  <2> QED
    BY <1>4, <2>1
<1>8. CASE UNCHANGED <<at, await>>
  BY <1>4, <1>5, <1>8
<1>9. CASE Crash
  <2>1. \A r \in Requests : at'[r] = at[r] /\ await'[r] = IF InFlight(r) THEN "failed" ELSE await[r]
    BY <1>9 DEF Crash
  <2> QED
    BY <1>4, <1>5, <2>1
<1>10. ASSUME NEW r \in Requests, Begin(r) PROVE PassedInv'
  <2>1. 1 \in 1..Len(Plan) + 1
    BY PlanType
  <2>2. /\ at'[r] = 1 /\ await'[r] # "created"
        /\ \A q \in Requests \ {r} : at'[q] = at[q] /\ await'[q] = await[q]
    BY <1>1, <1>10, <2>1, GoToSlots, FirstAwaitType DEF Begin
  <2> QED
    BY <1>4, <1>5, <2>2
<1>11. ASSUME NEW r \in Requests, Lookup(r) PROVE PassedInv'
  <2>1. /\ at[r] \in 1..Len(Plan) /\ Plan[at[r]] \in Rows /\ await[r] = "lookup"
        /\ InFlight(r) /\ Table(Plan[at[r]]) \in {"users", "subjects"}
    BY <1>1, <1>11, PlanType DEF Lookup, SlotsInv, PlaceOK, InFlight, Awaits
  <2>2. ASSUME Advance(r),
               IF Table(Plan[at[r]]) = "users" THEN Stored(Plan[at[r]])
                                               ELSE row[Plan[at[r]]] = "LOCAL"
        PROVE  PassedInv'
    <3>1. row[Plan[at[r]]] # NoRow
      BY <2>1, <2>2 DEF Stored, Values
    <3> QED
      BY <1>4, <1>6, <1>11, <2>1, <2>2, <3>1 DEF Lookup
  <2>3. ASSUME GoTo(r, at[r], IF Table(Plan[at[r]]) = "users" THEN "write" ELSE "selectRow")
        PROVE  PassedInv'
    <3>1. /\ at'[r] = at[r] /\ await'[r] \in {"write", "selectRow"}
          /\ \A q \in Requests \ {r} : at'[q] = at[q] /\ await'[q] = await[q]
      BY <1>1, <2>3 DEF GoTo, SlotsInv
    <3> QED
      BY <1>4, <1>5, <2>1, <3>1 DEF Awaits
  <2> QED
    BY <1>11, <2>2, <2>3 DEF Lookup
<1>12. ASSUME NEW r \in Requests, SelectRow(r) PROVE PassedInv'
  <2>1. /\ at' = at /\ await'[r] = "write" /\ InFlight(r)
        /\ \A q \in Requests \ {r} : await'[q] = await[q]
    BY <1>1, <1>12 DEF SelectRow, SlotsInv, InFlight, Awaits
  <2> QED
    BY <1>4, <1>5, <2>1 DEF Awaits
<1>13. ASSUME NEW r \in Requests, Write(r) PROVE PassedInv'
  <2>1. InFlight(r)
    BY <1>13 DEF Write, Commit, InFlight, Awaits
  <2>2. CASE Commit(r) /\ Advance(r)
    BY <1>4, <1>6, <1>13, <2>1, <2>2, CommitEffect DEF Write, Commit
  <2>3. CASE Answer(r, "failed")
    BY <1>7, <2>1, <2>3
  <2> QED
    BY <1>13, <2>2, <2>3 DEF Write
<1>14. ASSUME NEW r \in Requests, Count(r) PROVE PassedInv'
  <2>1. /\ at'[r] = at[r] /\ await'[r] = "created" /\ row' = row /\ InFlight(r)
        /\ \A q \in Requests \ {r} : at'[q] = at[q] /\ await'[q] = await[q]
    BY <1>1, <1>14 DEF Count, Answer, SlotsInv, InFlight, Awaits
  <2>2. Complete
    <3>1. at[r] = Len(Plan) + 1
      BY <1>1, <1>14 DEF Count, SlotsInv, PlaceOK
    <3> QED
      BY <1>1, <2>1, <3>1, PlanType DEF PassedOK, Complete
  <2>3. SlotOK(r)
    BY <1>3, <2>1, <2>2 DEF InFlight, Awaits
  <2> QED
    BY <1>4, <1>5, <2>1, <2>3
<1>15. ASSUME NEW r \in Requests, Fail(r) PROVE PassedInv'
  BY <1>7, <1>15 DEF Fail
<1> QED
  BY <1>8, <1>9, <1>10, <1>11, <1>12, <1>13, <1>14, <1>15
  DEF Next, Progress, Seed, Other, vars

\* A synchronisation that was answered 201 has stored the whole snapshot, and it
\* stays stored, whatever snapshot it was and whoever else writes the rows.
THEOREM AckedSyncsAreComplete == Spec => []AckedSyncStored
<1>1. PassedInv => AckedSyncStored
  BY DEF PassedInv
<1> QED
  BY <1>1, TypeInit, TypeStep, PassedInit, PassedStep, PTL DEF Spec
-----------------------------------------------------------------------------
\* The rows that must be there when a row is: those it names and, for a class of
\* the snapshot, everyone of its subject.
Attendants(k) ==
    LET enrolled == {e \in Range(SnapshotEnrollments) : e[2] = k}
        taught == {t \in Range(SnapshotTeachings) : t[2] = k}
    IN  {Enrollment(e) : e \in enrolled} \cup {Teaching(t) : t \in taught}
        \cup {User(e[1]) : e \in enrolled \cup taught}

Needs(i) == References(i) \cup (IF i \in ClassRows THEN Attendants(SubjectOf[Key(i)]) ELSE {})

Whole == \A i \in Rows : Stored(i) => \A j \in Needs(i) : Stored(j)

\* The statements of the seed that this start of the container has passed have
\* stored their rows; since a crash begins again, nothing is known of the others.
SeedPassed == \A b \in 1..Len(SeedBatches) :
                 b < started => \A i \in SeedBatches[b] : Stored(i)

WholeInv == Whole /\ SeedPassed

\* A row of the snapshot needs rows of the tables that are written before its own.
LEMMA SnapshotNeeds ==
    /\ \A i \in UserRows \cup SubjectRows : Needs(i) = {}
    /\ \A i \in EnrollmentRows \cup TeachingRows : Needs(i) \subseteq UserRows \cup SubjectRows
    /\ \A i \in ClassRows :
         Needs(i) \subseteq UserRows \cup SubjectRows \cup EnrollmentRows \cup TeachingRows
<1>1. ASSUME NEW u \in Range(SnapshotUsers)
      PROVE  User(u) \in UserRows /\ (u \in Persons => Person(u) \in UserRows)
  BY DEF UserRows
<1>2. /\ \A e \in Range(SnapshotEnrollments) \cup Range(SnapshotTeachings) :
           /\ e[1] \in Range(SnapshotUsers) /\ e[1] \in Persons
           /\ Subject(e[2]) \in SubjectRows
      /\ \A c \in Range(SnapshotClasses) : Subject(SubjectOf[c]) \in SubjectRows
  BY SnapshotAssumption DEF Persons, SubjectRows
<1>3. ASSUME NEW i \in UserRows \cup SubjectRows PROVE Needs(i) = {}
  <2>1. Table(i) \in {"users", "students", "professors", "subjects"}
    BY TablesDiffer
  <2>2. i \notin ClassRows
    BY <2>1, TablesDiffer
  <2> QED
    BY <2>1, <2>2 DEF Needs, References
<1>4. ASSUME NEW i \in EnrollmentRows \cup TeachingRows
      PROVE  Needs(i) \subseteq UserRows \cup SubjectRows
  <2>1. PICK e \in Range(SnapshotEnrollments) \cup Range(SnapshotTeachings) :
          i = Enrollment(e) \/ i = Teaching(e)
    BY DEF EnrollmentRows, TeachingRows
  <2>2. Key(i) = e /\ Table(i) \in {"enrollments", "teachings"}
    BY <2>1 DEF Enrollment, Teaching, Key, Table
  <2>3. i \notin ClassRows
    BY <2>2, TablesDiffer
  <2>4. Needs(i) = {Person(e[1]), Subject(e[2])}
    BY <2>2, <2>3 DEF Needs, References
  <2> QED
    BY <1>1, <1>2, <2>4
<1>5. ASSUME NEW i \in ClassRows
      PROVE  Needs(i) \subseteq UserRows \cup SubjectRows \cup EnrollmentRows \cup TeachingRows
  <2>1. PICK c \in Range(SnapshotClasses) : i = Class(c)
    BY DEF ClassRows
  <2>2. Key(i) = c /\ Table(i) = "class_sessions"
    BY <2>1 DEF Class, Key, Table
  <2>3. References(i) = {Subject(SubjectOf[c])}
    BY <2>2 DEF References
  <2>4. Attendants(SubjectOf[c]) \subseteq UserRows \cup EnrollmentRows \cup TeachingRows
    BY <1>1, <1>2 DEF Attendants, EnrollmentRows, TeachingRows
  <2> QED
    BY <1>2, <2>2, <2>3, <2>4 DEF Needs
<1> QED
  BY <1>3, <1>4, <1>5

\* The loop reaches a row when it has passed all that the row needs.
LEMMA NeedsBefore ==
    ASSUME NEW j \in 1..Len(Plan)
    PROVE  Needs(Plan[j]) \subseteq Before(Plan, j)
<1>1. Plan[j] \in SnapshotRows
  BY PlanOrder
<1>2. /\ Plan[j] \in EnrollmentRows => UserRows \cup SubjectRows \subseteq Before(Plan, j)
      /\ Plan[j] \in TeachingRows => UserRows \cup SubjectRows \subseteq Before(Plan, j)
      /\ Plan[j] \in ClassRows => UserRows \cup SubjectRows \cup EnrollmentRows \cup TeachingRows
                                    \subseteq Before(Plan, j)
  BY PlanOrder DEF Precedes
<1> QED
  BY <1>1, <1>2, SnapshotNeeds DEF SnapshotRows

\* A row of the seed needs rows of its statement and of earlier ones.
LEMMA SeedNeeds ==
    ASSUME NEW b \in 1..Len(SeedBatches), NEW i \in SeedBatches[b]
    PROVE  /\ i \in Rows
           /\ Needs(i) \subseteq UNION {SeedBatches[a] : a \in 1..b}
<1>1. DOMAIN SeedBatches = 1..Len(SeedBatches) /\ SeedBatches[b] \in SUBSET Rows
  OBVIOUS
<1>2. i \notin ClassRows /\ References(i) \subseteq UNION {SeedBatches[a] : a \in 1..b}
  BY <1>1, SeedOrderAssumption DEF ClassRows
<1> QED
  BY <1>1, <1>2 DEF Needs

LEMMA NeedsInRows == \A i \in Rows : Needs(i) \subseteq Rows
<1>1. ASSUME NEW j \in 1..Len(Plan) PROVE Needs(Plan[j]) \subseteq Rows
  <2>1. Before(Plan, j) \subseteq Rows
    BY PlanType DEF Before
  <2> QED
    BY <2>1, NeedsBefore
<1>2. ASSUME NEW b \in 1..Len(SeedBatches), NEW i \in SeedBatches[b] PROVE Needs(i) \subseteq Rows
  <2>1. \A a \in 1..b : SeedBatches[a] \subseteq Rows
    OBVIOUS
  <2> QED
    BY <2>1, SeedNeeds
<1>3. DOMAIN SeedBatches = 1..Len(SeedBatches)
  OBVIOUS
<1> QED
  BY <1>1, <1>2, <1>3, PlanType DEF Rows, Range

LEMMA WholeInit == Init => WholeInv
<1>1. Init => \A i \in Rows : ~Stored(i)
  BY DEF Init, Stored
<1>2. Len(SeedBatches) \in Nat
  OBVIOUS
<1>3. Init => SeedPassed
  BY <1>2 DEF Init, SeedPassed
<1> QED
  BY <1>1, <1>3 DEF WholeInv, Whole

LEMMA WholeStep == TypeInv /\ PassedInv /\ WholeInv /\ [Next]_vars => WholeInv'
<1> SUFFICES ASSUME TypeInv, PassedInv, WholeInv, [Next]_vars PROVE WholeInv'
  OBVIOUS
<1>1. \A i \in Rows : Stored(i) => Stored(i)'
  BY RowsStay
<1>2. Whole /\ SeedPassed /\ PassedOK /\ RowType /\ SlotsInv
  BY InvParts DEF WholeInv, PassedInv
\* A row that was there has what it needs: only the new ones are to be shown.
<1>3. ASSUME \A i \in Rows : Stored(i)' /\ ~Stored(i) => \A j \in Needs(i) : Stored(j)'
      PROVE  Whole'
  <2>1. \A i \in Rows : Stored(i) => \A j \in Needs(i) : Stored(j)'
    BY <1>1, <1>2, NeedsInRows DEF Whole
  <2> QED
    BY <1>3, <2>1 DEF Whole
<1>4. \A b \in 1..Len(SeedBatches) : SeedBatches[b] \subseteq Rows
  BY SeedNeeds
<1>5. started' = started => SeedPassed'
  BY <1>1, <1>2, <1>4 DEF SeedPassed
<1>6. CASE UNCHANGED <<row, started>>
  BY <1>3, <1>5, <1>6 DEF WholeInv, Stored
<1>7. ASSUME NEW r \in Requests, Commit(r), started' = started PROVE WholeInv'
  <2>1. /\ at[r] \in 1..Len(Plan) /\ Plan[at[r]] \in Rows
        /\ \A j \in Rows \ {Plan[at[r]]} : row'[j] = row[j]
    BY <1>7, CommitEffect
  <2>2. \A j \in 1..Len(Plan) : j < at[r] => Stored(Plan[j])
    BY <1>2, <1>7 DEF Commit, PassedOK, InFlight, Awaits
  <2>3. \A i \in Before(Plan, at[r]) : i \in Rows /\ Stored(i)
    BY <2>1, <2>2, PlanType DEF Before
  <2>4. \A j \in Needs(Plan[at[r]]) : Stored(j)'
    BY <1>1, <2>1, <2>3, NeedsBefore
  <2> QED
    BY <1>3, <1>5, <1>7, <2>1, <2>4 DEF WholeInv, Stored
<1>8. CASE Seed
  <2>1. /\ started \in 1..Len(SeedBatches) /\ Len(SeedBatches) \in Nat
        /\ started' = started + 1
    BY <1>2, <1>8 DEF Seed, Serving, SlotsInv
  <2>2. \A i \in SeedBatches[started] : Stored(i)'
    <3>1. ASSUME NEW i \in SeedBatches[started], ~Stored(i) PROVE Stored(i)'
      <4>1. i \in Rows /\ SeedValue(i) # NoRow
        BY <1>4, <2>1 DEF Range
      <4> QED
        BY <1>8, <3>1, <4>1 DEF Seed, Stored
    <3> QED
      BY <1>1, <1>4, <2>1, <3>1
  <2>3. \A a \in 1..started : \A i \in SeedBatches[a] : Stored(i)'
    BY <1>1, <1>2, <1>4, <2>1, <2>2 DEF SeedPassed
  <2>4. SeedPassed'
    BY <2>1, <2>3 DEF SeedPassed
  <2>5. ASSUME NEW i \in Rows, Stored(i)', ~Stored(i) PROVE \A j \in Needs(i) : Stored(j)'
    <3>1. i \in SeedBatches[started]
      BY <1>8, <2>5 DEF Seed, Stored
    <3> QED
      BY <2>1, <2>3, <3>1, SeedNeeds
  <2> QED
    BY <1>3, <2>4, <2>5 DEF WholeInv
<1>9. CASE Crash
  <2>1. SeedPassed'
    BY <1>9 DEF Crash, SeedPassed
  <2> QED
    BY <1>3, <1>9, <2>1 DEF WholeInv, Crash, Stored
<1>10. ASSUME NEW i \in Rows, NEW value \in Values(i), Other(i, value) PROVE WholeInv'
  <2>1. /\ \A j \in Rows \ {i} : row'[j] = row[j]
        /\ started' = started
        /\ ~Stored(i) => Table(i) \in {"users", "subjects"}
    BY <1>2, <1>10 DEF Other, Put, RowType
  <2>2. Table(i) \in {"users", "subjects"} => Needs(i) = {}
    BY TablesDiffer DEF Needs, References
  <2> QED
    BY <1>3, <1>5, <2>1, <2>2 DEF WholeInv, Stored
<1>11. \/ UNCHANGED <<row, started>> \/ Seed \/ Crash
       \/ \E r \in Requests : Commit(r) /\ started' = started
       \/ \E i \in Rows : \E value \in Values(i) : Other(i, value)
  BY DEF Next, Progress, Begin, Lookup, SelectRow, Write, Count, Fail, vars
<1> QED
  BY <1>6, <1>7, <1>8, <1>9, <1>10, <1>11

\* At every moment, and wherever a synchronisation or a seed has broken off, no
\* stored row names one that is missing, and a class of the snapshot is there only
\* with everyone who attends and teaches it.
THEOREM ReferencesAreWhole == Spec => []NothingDangles
<1>1. Whole => NothingDangles
  <2> SUFFICES ASSUME Whole PROVE NothingDangles
    OBVIOUS
  <2>1. ReferencesStored
    BY DEF Whole, Needs, ReferencesStored
  <2>2. ASSUME NEW c \in Range(SnapshotClasses), Stored(Class(c))
        PROVE  \A j \in Attendants(SubjectOf[c]) : Stored(j)
    <3>1. Class(c) \in ClassRows /\ Key(Class(c)) = c
      BY DEF ClassRows, Class, Key
    <3>2. Class(c) \in Rows
      BY <3>1, PlanOrder DEF Rows, SnapshotRows
    <3> QED
      BY <2>2, <3>1, <3>2 DEF Whole, Needs
  <2>3. ASSUME NEW k, NEW e \in Range(SnapshotEnrollments), e[2] = k
        PROVE  Enrollment(e) \in Attendants(k) /\ User(e[1]) \in Attendants(k)
    BY <2>3 DEF Attendants
  <2>4. ASSUME NEW k, NEW t \in Range(SnapshotTeachings), t[2] = k
        PROVE  Teaching(t) \in Attendants(k) /\ User(t[1]) \in Attendants(k)
    BY <2>4 DEF Attendants
  <2>5. ClassesComplete
    BY <2>2, <2>3, <2>4 DEF ClassesComplete
  <2> QED
    BY <2>1, <2>5 DEF NothingDangles
<1> QED
  BY <1>1, TypeInit, TypeStep, PassedInit, PassedStep, WholeInit, WholeStep, PTL
  DEF Spec, WholeInv
-----------------------------------------------------------------------------
StoredRowsStayStep ==
    \A i \in Rows : Stored(i) /\ row'[i] # row[i] =>
        /\ Serving /\ row'[i] # NoRow
        /\ Table(i) = "class_sessions" =>
             \/ UNCHANGED <<at, await>>
             \/ /\ row'[i] = "ENABLED"
                /\ \E r \in Requests : await[r] = "write" /\ Plan[at[r]] = i

\* A synchronisation is only under way when the seed is over.
SyncsServing == \A r \in Requests : InFlight(r) => Serving

LEMMA SyncsServingInit == Init => SyncsServing
BY DEF Init, SyncsServing, InFlight, Awaits

LEMMA SyncsServingStep == TypeInv /\ SyncsServing /\ [Next]_vars => SyncsServing'
<1> SUFFICES ASSUME TypeInv, SyncsServing, [Next]_vars PROVE SyncsServing'
  OBVIOUS
<1>1. /\ await \in [Requests -> Awaits \cup {"idle", "created", "failed"}]
      /\ started \in 1..Len(SeedBatches) + 1 /\ Len(SeedBatches) \in Nat
  BY DEF TypeInv, TypeOK
<1>2. ASSUME NEW r \in Requests, \A q \in Requests \ {r} : await'[q] = await[q],
             started' = started, Serving
      PROVE  SyncsServing'
  BY <1>2 DEF SyncsServing, Serving
<1>3. CASE UNCHANGED <<await, started>>
  BY <1>3 DEF SyncsServing, InFlight, Serving
<1>4. ASSUME NEW r \in Requests, Begin(r) \/ Progress(r) \/ Fail(r) PROVE SyncsServing'
  <2>1. started' = started /\ \E answer : await' = [await EXCEPT ![r] = answer]
    BY <1>4 DEF Begin, Progress, Lookup, SelectRow, Write, Count, Fail, GoTo, Advance,
                Answer
  <2>2. Serving
    BY <1>4 DEF SyncsServing, InFlight, Awaits, Begin, Progress, Lookup, SelectRow,
                Write, Commit, Count, Fail
  <2> QED
    BY <1>1, <1>2, <2>1, <2>2
<1>5. CASE Seed
  BY <1>1, <1>5 DEF Seed, SyncsServing, InFlight, Serving
<1>6. CASE Crash
  BY <1>1, <1>6 DEF Crash, SyncsServing, InFlight, Awaits
<1> QED
  BY <1>3, <1>4, <1>5, <1>6 DEF Next, Other, vars

LEMMA StayStep == TypeInv /\ SyncsServing /\ [Next]_vars => StoredRowsStayStep
<1> SUFFICES ASSUME TypeInv, SyncsServing, [Next]_vars PROVE StoredRowsStayStep
  OBVIOUS
<1>1. RowType /\ SlotsInv
  BY InvParts
<1>2. \A i \in Rows : Stored(i) => row'[i] # NoRow
  BY RowsStay DEF Stored
<1>3. CASE UNCHANGED row
  BY <1>3 DEF StoredRowsStayStep
<1>4. CASE Seed
  BY <1>4, SeedEffect DEF StoredRowsStayStep
<1>5. ASSUME NEW i \in Rows, NEW value \in Values(i), Other(i, value)
      PROVE  StoredRowsStayStep
  BY <1>2, <1>5 DEF Other, StoredRowsStayStep
<1>6. ASSUME NEW r \in Requests, Commit(r) PROVE StoredRowsStayStep
  <2> DEFINE i == Plan[at[r]]
  <2>1. /\ i \in Rows /\ await[r] = "write"
        /\ \A j \in Rows \ {i} : row'[j] = row[j]
        /\ row'[i] = Value(i)
    BY <1>1, <1>6, CommitEffect DEF Commit, Put, RowType
  <2>2. Serving
    BY <2>1 DEF SyncsServing, InFlight, Awaits
  <2>3. Table(i) = "class_sessions" => row'[i] = "ENABLED"
    BY <2>1 DEF Value
  <2> QED
    BY <1>2, <2>1, <2>2, <2>3 DEF StoredRowsStayStep
<1>7. \/ UNCHANGED row \/ Seed
      \/ \E r \in Requests : Commit(r)
      \/ \E i \in Rows : \E value \in Values(i) : Other(i, value)
  BY DEF Next, Progress, Begin, Lookup, SelectRow, Write, Count, Fail, Crash, vars
<1> QED
  BY <1>3, <1>4, <1>5, <1>6, <1>7

\* No step removes a stored row, a start of the container changes none, and the
\* synchronisation changes a stored class only by opening it in its turn.
THEOREM StoredRowsAreKept == Spec => StoredRowsStay
<1> QED
  BY TypeInit, TypeStep, SyncsServingInit, SyncsServingStep, StayStep, PTL
  DEF Spec, StoredRowsStay, StoredRowsStayStep
=============================================================================
