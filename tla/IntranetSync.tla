---------------------------- MODULE IntranetSync ----------------------------
(***************************************************************************)
(* synchronize of SyncApiIntranetService over PostgreSQL: a loop that      *)
(* writes seven tables row by row, without a transaction, while another    *)
(* synchronisation runs, users and subjects are registered and professors  *)
(* close classes; and the demo seed, which runs before the service each    *)
(* time the container starts.                                              *)
(*                                                                         *)
(* A row is named by its table and its key, and the snapshot is the        *)
(* sequence of rows in the order in which the loop reaches them.  The      *)
(* schema has no foreign keys: nothing but this order keeps references     *)
(* whole.  One action is one round trip.                                   *)
(***************************************************************************)
EXTENDS Naturals, Sequences, SequencesExt

CONSTANTS
    \* getSnapshot: sequences of users, subjects, pairs and classes.
    SnapshotUsers, SnapshotSubjects, SnapshotEnrollments, SnapshotTeachings,
    SnapshotClasses,
    RoleOf,          \* RoleOf[u]: the role of user u in the snapshot
    Roles,           \* the roles a registration may ask for
    SubjectOf,       \* SubjectOf[c]: the subject of class c
    SeedBatches,     \* the statements of the demo seed: sets of rows
    SeedValue(_),    \* SeedValue(i): what the seed gives row i
    Requests,        \* slots for synchronisations that may be in flight together
    MaxFailures,     \* bound on failed round trips and crashes
    NoRow

VARIABLES
    row,        \* row[i]: the value of row i, or NoRow
    started,    \* the statement of the seed the container is at
    at,         \* at[r]: position of synchronisation r in the snapshot
    await,      \* await[r]: the await it is suspended at, or its answer
    image,      \* image[r]: whether save has read a row back
    failures    \* how many there have been

vars == <<row, started, at, await, image, failures>>

User(u) == <<"users", u>>
Person(u) == <<IF RoleOf[u] = "ESTUDIANTE" THEN "students" ELSE "professors", u>>
Subject(k) == <<"subjects", k>>
Enrollment(e) == <<"enrollments", e>>
Teaching(t) == <<"teachings", t>>
Class(c) == <<"class_sessions", c>>

Table(i) == i[1]
Key(i) == i[2]

Persons == {u \in Range(SnapshotUsers) : RoleOf[u] \in {"ESTUDIANTE", "PROFESOR"}}

\* An account and, for a student or a professor, the row of the person.
RowsOfUser(u) == IF u \in Persons THEN <<User(u), Person(u)>> ELSE <<User(u)>>

MapTo(Name(_), s) == [j \in DOMAIN s |-> Name(s[j])]

\* Mutant of Plan: classes come before the subjects they are of.
PlanClassesFirst ==
    FlattenSeq(MapTo(RowsOfUser, SnapshotUsers)) \o MapTo(Class, SnapshotClasses)
    \o MapTo(Subject, SnapshotSubjects) \o MapTo(Enrollment, SnapshotEnrollments)
    \o MapTo(Teaching, SnapshotTeachings)

\* Mutant of Plan: teachings come last.
PlanTeachingsLast ==
    FlattenSeq(MapTo(RowsOfUser, SnapshotUsers)) \o MapTo(Subject, SnapshotSubjects)
    \o MapTo(Enrollment, SnapshotEnrollments) \o MapTo(Class, SnapshotClasses)
    \o MapTo(Teaching, SnapshotTeachings)

Plan ==
    FlattenSeq(MapTo(RowsOfUser, SnapshotUsers)) \o MapTo(Subject, SnapshotSubjects)
    \o MapTo(Enrollment, SnapshotEnrollments) \o MapTo(Teaching, SnapshotTeachings)
    \o MapTo(Class, SnapshotClasses)

Rows == Range(Plan) \cup UNION Range(SeedBatches)

\* A subject is local or the Intranet's, a class open or closed, an account has
\* the role it was registered with; the other rows are there or not.
Values(i) == CASE Table(i) = "users" -> Roles \cup {RoleOf[Key(i)]}
               [] Table(i) = "subjects" -> {"LOCAL", "INTRANET"}
               [] Table(i) = "class_sessions" -> {"ENABLED", "DISABLED"}
               [] OTHER -> {"stored"}

\* Mutant of Value: accounts get the role as tokens spell it.
ValueAuthRole(i) == CASE Table(i) = "users" -> "estudiante"
                      [] Table(i) = "subjects" -> "INTRANET"
                      [] Table(i) = "class_sessions" -> "ENABLED"
                      [] OTHER -> "stored"

\* What the synchronisation writes.
Value(i) == CASE Table(i) = "users" -> RoleOf[Key(i)]
              [] Table(i) = "subjects" -> "INTRANET"
              [] Table(i) = "class_sessions" -> "ENABLED"
              [] OTHER -> "stored"

\* The rows a row names.
References(i) ==
    CASE Table(i) \in {"enrollments", "teachings"} -> {Person(Key(i)[1]), Subject(Key(i)[2])}
      [] Table(i) = "class_sessions" -> {Subject(SubjectOf[Key(i)])}
      [] OTHER -> {}

IsSequence(s) == s \in Seq(Range(s))

\* The snapshot is closed: who is enrolled or teaches is a student or a professor
\* of it, and every subject that is named is there.
ASSUME SnapshotAssumption ==
    /\ IsSequence(SnapshotUsers) /\ IsSequence(SnapshotSubjects)
    /\ IsSequence(SnapshotEnrollments) /\ IsSequence(SnapshotTeachings)
    /\ IsSequence(SnapshotClasses)
    /\ \A e \in Range(SnapshotEnrollments) \cup Range(SnapshotTeachings) :
         e[1] \in Persons /\ e[2] \in Range(SnapshotSubjects)
    /\ \A c \in Range(SnapshotClasses) : SubjectOf[c] \in Range(SnapshotSubjects)
ASSUME FailuresAssumption == MaxFailures \in Nat
ASSUME NoRowAssumption == \A i \in Rows : NoRow \notin Values(i)
ASSUME SeedAssumption == /\ SeedBatches \in Seq(SUBSET Rows)
                         /\ \A i \in UNION Range(SeedBatches) : SeedValue(i) \in Values(i)
\* A statement of the seed names what an earlier one has inserted; the classes of
\* the seed are not those of the snapshot.
ASSUME SeedOrderAssumption ==
    \A b \in DOMAIN SeedBatches : \A i \in SeedBatches[b] :
        /\ References(i) \subseteq UNION {SeedBatches[a] : a \in 1..b}
        /\ i \notin {Class(c) : c \in Range(SnapshotClasses)}

Awaits == {"lookup", "selectRow", "write", "count"}
InFlight(r) == await[r] \in Awaits
Serving == started > Len(SeedBatches)

Stored(i) == row[i] # NoRow
Complete == \A j \in DOMAIN Plan : Stored(Plan[j])

TypeOK == /\ row \in [Rows -> (UNION {Values(i) : i \in Rows}) \cup {NoRow}]
          /\ \A i \in Rows : Stored(i) => row[i] \in Values(i)
          /\ started \in 1..Len(SeedBatches) + 1
          /\ at \in [Requests -> 1..Len(Plan) + 1]
          /\ await \in [Requests -> Awaits \cup {"idle", "created", "failed"}]
          /\ image \in [Requests -> BOOLEAN]
          /\ failures \in 0..MaxFailures
-----------------------------------------------------------------------------
Put(i, value) == row' = [row EXCEPT ![i] = value]

\* The first round trip for position j: accounts and subjects are looked up.
FirstAwait(j) ==
    IF j > Len(Plan) THEN "count"
    ELSE IF Table(Plan[j]) \in {"users", "subjects"} THEN "lookup" ELSE "write"

GoTo(r, j, next) == /\ at' = [at EXCEPT ![r] = j]
                    /\ await' = [await EXCEPT ![r] = next]
                    /\ image' = [image EXCEPT ![r] = FALSE]

Advance(r) == GoTo(r, at[r] + 1, FirstAwait(at[r] + 1))

\* Mutant of Answer: an error ends the row, not the request.
AnswerAnyway(r, answer) ==
    /\ await' = [await EXCEPT ![r] = "created"]
    /\ image' = [image EXCEPT ![r] = FALSE]
    /\ UNCHANGED at

Answer(r, answer) == /\ await' = [await EXCEPT ![r] = answer]
                     /\ image' = [image EXCEPT ![r] = FALSE]
                     /\ UNCHANGED at

\* The database is empty and the seed starts.
Init == /\ row = [i \in Rows |-> NoRow]
        /\ started = 1
        /\ at = [r \in Requests |-> 1]
        /\ await = [r \in Requests |-> "idle"]
        /\ image = [r \in Requests |-> FALSE]
        /\ failures = 0

\* Mutant of Seed: it upserts its rows, as the synchronisation does.
SeedUpserts == /\ ~Serving
               /\ row' = [i \in Rows |-> IF i \in SeedBatches[started]
                                         THEN SeedValue(i) ELSE row[i]]
               /\ started' = started + 1
               /\ UNCHANGED <<at, await, image, failures>>

\* A statement of the seed; orIgnore leaves rows alone that are there.
Seed == /\ ~Serving
        /\ row' = [i \in Rows |-> IF i \in SeedBatches[started] /\ ~Stored(i)
                                  THEN SeedValue(i) ELSE row[i]]
        /\ started' = started + 1
        /\ UNCHANGED <<at, await, image, failures>>

\* POST api-intranet/sync by an administrator.
Begin(r) == /\ Serving /\ ~InFlight(r)
            /\ GoTo(r, 1, FirstAwait(1))
            /\ UNCHANGED <<row, started, failures>>

\* Mutant of Lookup: a row that is there already is refused, as registrations do.
LookupOrFail(r) ==
    /\ await[r] = "lookup"
    /\ \/ Stored(Plan[at[r]]) /\ Answer(r, "failed")
       \/ ~Stored(Plan[at[r]]) /\ GoTo(r, at[r], "write")
    /\ UNCHANGED <<row, started, failures>>

\* existsByRut: an account is kept as it is.  upsertFromIntranet: so is a local
\* subject.
Lookup(r) ==
    LET i == Plan[at[r]]
        kept == IF Table(i) = "users" THEN Stored(i) ELSE row[i] = "LOCAL"
    IN  /\ await[r] = "lookup"
        /\ \/ kept /\ Advance(r)
           \/ /\ ~kept
              /\ GoTo(r, at[r], IF Table(i) = "users" THEN "write" ELSE "selectRow")
        /\ UNCHANGED <<row, started, failures>>

\* save reads a subject by its primary key.
SelectRow(r) ==
    /\ await[r] = "selectRow"
    /\ image' = [image EXCEPT ![r] = Stored(Plan[at[r]])]
    /\ await' = [await EXCEPT ![r] = "write"]
    /\ UNCHANGED <<row, started, at, failures>>

\* An insert finds the key taken by now.  The other tables are upserted.
Clash(r) == LET i == Plan[at[r]] IN
    Table(i) \in {"users", "subjects"} /\ Stored(i) /\ ~image[r]

Commit(r) == /\ await[r] = "write"
             /\ ~Clash(r)
             /\ Put(Plan[at[r]], Value(Plan[at[r]]))

Write(r) ==
    /\ \/ Commit(r) /\ Advance(r)
       \/ await[r] = "write" /\ Clash(r) /\ Answer(r, "failed") /\ UNCHANGED row
    /\ UNCHANGED <<started, failures>>

\* The rows are counted and the synchronisation is answered 201.
Count(r) == /\ await[r] = "count"
            /\ Answer(r, "created")
            /\ UNCHANGED <<row, started, failures>>

\* A round trip fails: 500, whether or not its statement had been committed.
Fail(r) == /\ failures < MaxFailures
           /\ failures' = failures + 1
           /\ InFlight(r)
           /\ Answer(r, "failed")
           /\ UNCHANGED row \/ Commit(r)
           /\ UNCHANGED started

\* The service, or the seed, stops, and the container is started again.
Crash == /\ failures < MaxFailures
         /\ failures' = failures + 1
         /\ started' = 1
         /\ await' = [r \in Requests |-> IF InFlight(r) THEN "failed" ELSE await[r]]
         /\ image' = [r \in Requests |-> FALSE]
         /\ UNCHANGED <<row, at>>

\* What other requests do to the rows: an account is inserted, the registration of
\* a class is closed or reopened, a local subject is saved: inserted, or, when the
\* synchronisation has stored it since the registration found its code free, turned
\* into a local one.  That it may be turned at any time is more than the code does.
Other(i, value) ==
    /\ Serving
    /\ \/ Table(i) = "users" /\ ~Stored(i) /\ value \in Roles
       \/ Table(i) = "subjects" /\ value = "LOCAL"
       \/ Table(i) = "class_sessions" /\ Stored(i) /\ value \in Values(i) \ {row[i]}
    /\ Put(i, value)
    /\ UNCHANGED <<started, at, await, image, failures>>

Progress(r) == Lookup(r) \/ SelectRow(r) \/ Write(r) \/ Count(r)

Next == \/ Seed \/ Crash
        \/ \E r \in Requests : Begin(r) \/ Progress(r) \/ Fail(r)
        \/ \E i \in Rows : \E value \in Values(i) : Other(i, value)

Spec == Init /\ [][Next]_vars

\* Every await ends, with a result or with an error.
FairSpec == Spec /\ \A r \in Requests : WF_vars(Progress(r))
-----------------------------------------------------------------------------
ReferencesStored == \A i \in Rows : Stored(i) => \A j \in References(i) : Stored(j)

ClassesComplete ==
    \A c \in Range(SnapshotClasses) : Stored(Class(c)) =>
        /\ \A e \in Range(SnapshotEnrollments) :
             e[2] = SubjectOf[c] => Stored(Enrollment(e)) /\ Stored(User(e[1]))
        /\ \A t \in Range(SnapshotTeachings) :
             t[2] = SubjectOf[c] => Stored(Teaching(t)) /\ Stored(User(t[1]))

\* At every moment of a synchronisation or a seed, and wherever one has broken off:
\* a stored enrollment has its student and its subject, a teaching its professor and
\* its subject, a class its subject; and a class of the snapshot is there only when
\* everyone who may attend it can ask for a QR and its professor can close it.
NothingDangles == ReferencesStored /\ ClassesComplete

\* A synchronisation that was answered 201 has stored the whole snapshot, and what
\* happens later takes nothing of it away.
AckedSyncStored == \A r \in Requests : await[r] = "created" => Complete

\* What is stored is never removed.  A start of the container changes nothing of
\* it, wherever the last one broke off and whatever the service has made of the rows
\* of the seed.  All a synchronisation does to a stored class is to open it, at the
\* place of the class in the loop.  Whether a stored subject is written over is the
\* matter of Subjects.
StoredRowsStay ==
    [][\A i \in Rows : Stored(i) /\ row'[i] # row[i] =>
         /\ Serving /\ row'[i] # NoRow
         /\ Table(i) = "class_sessions" =>
              \/ UNCHANGED <<at, await>>
              \/ /\ row'[i] = "ENABLED"
                 /\ \E r \in Requests : await[r] = "write" /\ Plan[at[r]] = i]_vars

\* Half a synchronisation is repaired by repeating it: if administrators do not
\* give up, and failures are finitely many, the whole snapshot is stored at last.
RetriesComplete == ([]<>(\E r \in Requests : InFlight(r))) => <>Complete
=============================================================================
