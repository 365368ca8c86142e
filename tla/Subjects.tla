------------------------------ MODULE Subjects ------------------------------
(***************************************************************************)
(* The subjects table over the PostgreSQL adapter: createSubject (CU-09)   *)
(* of SubjectService and upsertFromIntranet, which the synchronisation     *)
(* calls for each subject of the snapshot.                                 *)
(*                                                                         *)
(* Both look the code up and then call TypeORM's save, which reads the row *)
(* by its primary key once more: without a row it inserts, with a row it   *)
(* updates the columns that differ.  One action is one round trip.         *)
(***************************************************************************)
CONSTANTS
    Codes,           \* subject codes
    IntranetCodes,   \* the codes of the Intranet snapshot
    Titles,          \* a title stands for the name and career of a subject
    IntranetTitle,   \* the title the snapshot gives
    Requests,        \* slots for requests that may be in flight together
    NoRow, NoJob

ASSUME IntranetAssumption == IntranetCodes \subseteq Codes /\ IntranetTitle \in Titles

VARIABLES
    subjects,    \* subjects[c]: the row with code c
    job,         \* job[r]: operation, code and title of the request in slot r
    pc,          \* pc[r]: the await the request is suspended at, or its answer
    image,       \* image[r]: the row as save read it back
    taken,       \* history: requests whose code was taken when they arrived
    held,        \* history: held[r]: what the columns of its row have held since
                 \* request r found the code free, or the Intranet's
    disturbed    \* history: codes on which requests have overlapped

vars == <<subjects, job, pc, image, taken, held, disturbed>>

Source == {"LOCAL", "INTRANET"}
Row == [title : Titles, source : Source, external : BOOLEAN]
Cell == ({"title"} \X Titles) \cup ({"source"} \X Source) \cup ({"external"} \X BOOLEAN)
Job == [op : {"createSubject"}, code : Codes, title : Titles]
       \cup [op : {"upsertFromIntranet"}, code : IntranetCodes,
             title : {IntranetTitle}]

ASSUME NoRowAssumption == NoRow \notin Row
ASSUME NoJobAssumption == NoJob \notin Job

Awaits == {"findByCode", "selectRow", "writeRow"}
Answers == {"free", "saved", "exists", "kept", "failed"}

InFlight(r) == pc[r] \in Awaits

TypeOK == /\ subjects \in [Codes -> Row \cup {NoRow}]
          /\ job \in [Requests -> Job \cup {NoJob}]
          /\ pc \in [Requests -> Awaits \cup Answers]
          /\ image \in [Requests -> Row \cup {NoRow}]
          /\ taken \subseteq Requests
          /\ held \in [Requests -> SUBSET Cell]
          /\ disturbed \subseteq Codes
-----------------------------------------------------------------------------
\* Mutant of LocalRow: the origin of the subject is not set.
LocalRowNoOrigin(t) == [title |-> t, external |-> FALSE]

LocalRow(t) == [title |-> t, source |-> "LOCAL", external |-> FALSE]
IntranetRow(t) == [title |-> t, source |-> "INTRANET", external |-> TRUE]

\* What is passed to save, and the columns it has a value for.
Entity(j) == IF j.op = "createSubject" THEN LocalRow(j.title)
                                       ELSE IntranetRow(j.title)
Given(op) == IF op = "createSubject" THEN {"title", "source"}
                                     ELSE {"title", "source", "external"}

\* Mutant of Proceeds: the synchronisation does not look at the source.
ProceedsAlways(j, row) == row # NoRow => j.op = "upsertFromIntranet"

\* Mutant of Proceeds: a code is not looked up before it is registered.
ProceedsUnseen(j, row) ==
    row # NoRow => j.op = "createSubject" \/ row.source = "INTRANET"

\* Whether the request goes on to save with the row it found.
Proceeds(j, row) ==
    row # NoRow => j.op = "upsertFromIntranet" /\ row.source = "INTRANET"

\* Mutant of Updated: the update is conditional on an unchanged row, and nobody
\* looks at the number of rows it affected.
UpdatedIfUnchanged(row, j, img) ==
    [x \in {"title", "source", "external"} |->
       IF x \in Given(j.op) /\ row = img THEN Entity(j)[x] ELSE row[x]]

\* The row after save has updated the columns that differ from its image.
Updated(row, j, img) ==
    [x \in {"title", "source", "external"} |->
       IF x \in Given(j.op) /\ Entity(j)[x] # img[x] THEN Entity(j)[x] ELSE row[x]]

Cells(row) == IF row = NoRow THEN {} ELSE {<<x, row[x]>> : x \in DOMAIN row}

\* Row c becomes row, under the eyes of every request that is to save it.
Store(c, row) ==
    /\ subjects' = [subjects EXCEPT ![c] = row]
    /\ held' = [r \in Requests |->
                  IF pc[r] \in {"selectRow", "writeRow"} /\ job[r].code = c
                  THEN held[r] \cup Cells(row) ELSE held[r]]

GoTo(r, next) == pc' = [pc EXCEPT ![r] = next]

Answer(r, answer) == /\ GoTo(r, answer)
                     /\ image' = [image EXCEPT ![r] = NoRow]
-----------------------------------------------------------------------------
\* The demo seed has registered some subjects, which are local by default.
Init ==
    /\ subjects \in [Codes -> {LocalRow(t) : t \in Titles} \cup {NoRow}]
    /\ job = [r \in Requests |-> NoJob]
    /\ pc = [r \in Requests |-> "free"]
    /\ image = [r \in Requests |-> NoRow]
    /\ taken = {}
    /\ held = [r \in Requests |-> {}]
    /\ disturbed = {}

\* A valid POST /subjects, or the synchronisation reaches this subject.
Begin(r, j) ==
    /\ ~InFlight(r)
    /\ job' = [job EXCEPT ![r] = j]
    /\ GoTo(r, "findByCode")
    /\ taken' = IF subjects[j.code] # NoRow THEN taken \cup {r} ELSE taken \ {r}
    /\ held' = [held EXCEPT ![r] = {}]
    /\ disturbed' = disturbed \cup
         {c \in {j.code} : \E q \in Requests : InFlight(q) /\ job[q].code = c}
    /\ UNCHANGED <<subjects, image>>

\* assertCodeIsUnique: 409; upsertFromIntranet: a local subject is kept.
FindByCode(r) ==
    /\ pc[r] = "findByCode"
    /\ LET row == subjects[job[r].code] IN
         \/ /\ Proceeds(job[r], row)
            /\ GoTo(r, "selectRow")
            /\ held' = [held EXCEPT ![r] = Cells(row)]
         \/ /\ ~Proceeds(job[r], row)
            /\ GoTo(r, IF job[r].op = "createSubject" THEN "exists" ELSE "kept")
            /\ UNCHANGED held
    /\ UNCHANGED <<subjects, job, image, taken, disturbed>>

\* save: is there a row with this primary key?
SelectRow(r) ==
    /\ pc[r] = "selectRow"
    /\ image' = [image EXCEPT ![r] = subjects[job[r].code]]
    /\ GoTo(r, "writeRow")
    /\ UNCHANGED <<subjects, job, taken, held, disturbed>>

\* save: the statement is committed.
Commit(r) ==
    LET c == job[r].code IN
    /\ pc[r] = "writeRow"
    /\ \/ /\ image[r] = NoRow /\ subjects[c] = NoRow
          /\ Store(c, Entity(job[r]))
       \/ /\ image[r] # NoRow
          /\ Store(c, Updated(subjects[c], job[r], image[r]))

WriteRow(r) ==
    /\ \/ Commit(r) /\ Answer(r, "saved")
       \* The primary key is there by now: 500.
       \/ /\ pc[r] = "writeRow"
          /\ image[r] = NoRow /\ subjects[job[r].code] # NoRow
          /\ Answer(r, "failed") /\ UNCHANGED <<subjects, held>>
    /\ UNCHANGED <<job, taken, disturbed>>

\* A round trip fails: 500, whether or not it had been committed.
Fail(r) ==
    /\ InFlight(r)
    /\ Answer(r, "failed")
    /\ UNCHANGED <<subjects, held>> \/ Commit(r)
    /\ UNCHANGED <<job, taken, disturbed>>

\* The process stops; the rows stay.
Crash ==
    /\ pc' = [r \in Requests |-> IF InFlight(r) THEN "failed" ELSE pc[r]]
    /\ image' = [r \in Requests |-> NoRow]
    /\ UNCHANGED <<subjects, job, taken, held, disturbed>>

Step(r) == FindByCode(r) \/ SelectRow(r) \/ WriteRow(r) \/ Fail(r)

Next == \/ \E r \in Requests : Step(r) \/ \E j \in Job : Begin(r, j)
        \/ Crash

Spec == Init /\ [][Next]_vars
-----------------------------------------------------------------------------
\* What save has answered is true, and no overlap, failure or crash is excepted.  A
\* subject is registered, 201, only by a request that arrived when its code was free,
\* so that two registrations of a code are both answered 201 only if they overlapped.
\* And whoever has saved a subject, the loser of such an overlap or a synchronisation
\* beside a registration included, has had it: since it looked, each column that it
\* gives has held what it gave.
SavedIsTrue ==
    \A r \in Requests : pc[r] = "saved" =>
        /\ job[r].op = "createSubject" => r \notin taken
        /\ \A x \in Given(job[r].op) : <<x, Entity(job[r])[x]>> \in held[r]

Catalogue == INSTANCE SubjectCatalogue WITH catalogue <- subjects

\* As long as requests for a code do not overlap, a code is registered once and
\* the synchronisation preserves local subjects, failures and crashes included.
CatalogueSpec == Catalogue!Spec
=============================================================================
