--------------------------- MODULE ClassSessions ---------------------------
(***************************************************************************)
(* The class_sessions rows and the four requests by which a professor      *)
(* changes their status, over the PostgreSQL adapter: disableRegistration  *)
(* (CU-07), enableRegistration, enableEditing and disableEditing (CU-08)   *)
(* of AssistanceService.                                                   *)
(*                                                                         *)
(* A handler gives up the event loop at every await, so one action here is *)
(* what happens between two awaits.  A status update is findOneBy followed *)
(* by TypeORM's save(entity), which reads the row once more and then       *)
(* updates the columns in which entity differs from what it has just read: *)
(* three round trips, no lock, no version column.                          *)
(*                                                                         *)
(* The Intranet synchronisation writes the same rows (SyncClass), a round  *)
(* trip may fail (Fail, FailAfterCommit) and the process may stop (Crash). *)
(***************************************************************************)
CONSTANTS
    Classes,          \* class ids
    IntranetClasses,  \* the classes of the Intranet snapshot
    Professors,
    Taught,           \* Taught[c]: professors with a teachings row for c's subject
    Requests,         \* slots for requests that may be in flight together
    NoRow,            \* no class_sessions row
    NoJob             \* a slot no request has used yet

ASSUME TaughtAssumption == Taught \in [Classes -> SUBSET Professors]
ASSUME IntranetAssumption == IntranetClasses \subseteq Classes

VARIABLES
    sessions,   \* sessions[c]: the class_sessions row of c
    job,        \* job[r]: operation, class and professor of the request in slot r
    pc,         \* pc[r]: the await the request is suspended at, or its answer
    column,     \* column[r]: the column the running update is about
    seen,       \* seen[r]: the row assertProfessorOwnsClass returned
    entity,     \* entity[r]: the row to be saved, as loaded and assigned
    image,      \* image[r]: the row as save read it back
    held,       \* history: cells the row has held since r read it
    disturbed   \* history: classes with overlapping or broken-off changes

vars == <<sessions, job, pc, column, seen, entity, image, held, disturbed>>

Status == {"ENABLED", "DISABLED"}
Column == {"registrationStatus", "editingStatus"}
Row == [Column -> Status]
Operation == {"disableRegistration", "enableRegistration",
              "enableEditing", "disableEditing"}
Job == [op : Operation, class : Classes, professor : Professors]

ASSUME NoRowAssumption == NoRow \notin Row
ASSUME NoJobAssumption == NoJob \notin Job

Reading == {"findClass", "findTeaching"}
Updating == {"findRow", "selectRow", "updateRow"}
Answered == {"free", "ok", "refused", "failed"}

InFlight(r) == pc[r] \in Reading \cup Updating

TypeOK ==
    /\ sessions \in [Classes -> Row \cup {NoRow}]
    /\ job \in [Requests -> Job \cup {NoJob}]
    /\ pc \in [Requests -> Reading \cup Updating \cup Answered]
    /\ column \in [Requests -> Column]
    /\ seen \in [Requests -> Row \cup {NoRow}]
    /\ entity \in [Requests -> Row \cup {NoRow}]
    /\ image \in [Requests -> Row \cup {NoRow}]
    /\ held \in [Requests -> SUBSET (Column \X Status)]
    /\ disturbed \subseteq Classes
-----------------------------------------------------------------------------
\* Mutant of NewRow: editing_status has no default, the insert leaves it null.
NewRowNoDefault(status) ==
    [x \in Column |-> IF x = "registrationStatus" THEN status ELSE "NULL"]

NewRow(status) == [x \in Column |-> IF x = "registrationStatus" THEN status
                                                                ELSE "DISABLED"]

\* Mutant of Allows: enableEditing does not look at the registration.
AllowsEditingAnytime(op, row) ==
    \/ op = "disableRegistration" /\ row["registrationStatus"] = "ENABLED"
    \/ op = "enableRegistration" /\ row["registrationStatus"] = "DISABLED"
    \/ op = "enableEditing" /\ row["editingStatus"] = "DISABLED"
    \/ op = "disableEditing" /\ row["editingStatus"] = "ENABLED"

\* What an operation requires of the row it read, and what it writes.
Allows(op, row) ==
    \/ /\ op = "disableRegistration"
       /\ row["registrationStatus"] = "ENABLED"
    \/ /\ op = "enableRegistration"
       /\ row["registrationStatus"] = "DISABLED"
    \/ /\ op = "enableEditing"
       /\ row["registrationStatus"] = "DISABLED"
       /\ row["editingStatus"] = "DISABLED"
    \/ /\ op = "disableEditing"
       /\ row["editingStatus"] = "ENABLED"

\* Mutant of Wanted: the status is taken from the verb of the operation alone.
WantedByVerb(op, x) ==
    IF op \in {"enableRegistration", "enableEditing"} THEN "ENABLED" ELSE "DISABLED"

Wanted(op, x) ==
    IF \/ op = "enableRegistration" /\ x = "registrationStatus"
       \/ op = "enableEditing"
    THEN "ENABLED" ELSE "DISABLED"

FirstColumn(op) ==
    IF op \in {"disableRegistration", "enableRegistration"}
    THEN "registrationStatus" ELSE "editingStatus"

\* Mutant of LastColumn: enableRegistration forgets to close the editing window.
LastColumnOne(op) ==
    IF op \in {"disableRegistration", "enableRegistration"}
    THEN "registrationStatus" ELSE "editingStatus"

LastColumn(op) ==
    IF op = "disableRegistration" THEN "registrationStatus" ELSE "editingStatus"

\* Mutant of Saved: the update is conditional on an unchanged row, and nobody
\* looks at the number of rows it affected.
SavedIfUnchanged(row, ent, img) == IF row = img THEN ent ELSE row

\* The row after save: only the columns that differ from its image are set.
Saved(row, ent, img) ==
    [x \in Column |-> IF ent[x] # img[x] THEN ent[x] ELSE row[x]]

\* Between the two updates of enableRegistration.
HalfDone(r) == /\ job[r] # NoJob
               /\ job[r].op = "enableRegistration"
               /\ pc[r] \in Updating
               /\ column[r] = "editingStatus"

Cells(row) == {<<x, row[x]>> : x \in Column}

\* Row c becomes row, under the eyes of every request that has read it.
Store(c, row) ==
    /\ sessions' = [sessions EXCEPT ![c] = row]
    /\ held' = [r \in Requests |->
                  IF /\ pc[r] \in Updating \cup {"findTeaching"}
                     /\ job[r].class = c
                  THEN held[r] \cup Cells(row) ELSE held[r]]

GoTo(r, next) == pc' = [pc EXCEPT ![r] = next]

\* The handler has ended; what it had loaded is garbage.
Answer(r, answer) ==
    /\ GoTo(r, answer)
    /\ seen' = [seen EXCEPT ![r] = NoRow]
    /\ entity' = [entity EXCEPT ![r] = NoRow]
    /\ image' = [image EXCEPT ![r] = NoRow]
-----------------------------------------------------------------------------
\* The demo seed has run; the Intranet has not been synchronised yet.
Init ==
    /\ sessions \in [Classes -> {NewRow(s) : s \in Status} \cup {NoRow}]
    /\ \A c \in Classes : sessions[c] = NoRow <=> c \in IntranetClasses
    /\ job = [r \in Requests |-> NoJob]
    /\ pc = [r \in Requests |-> "free"]
    /\ column = [r \in Requests |-> "registrationStatus"]
    /\ seen = [r \in Requests |-> NoRow]
    /\ entity = [r \in Requests |-> NoRow]
    /\ image = [r \in Requests |-> NoRow]
    /\ held = [r \in Requests |-> {}]
    /\ disturbed = {}

\* A professor's request reaches the controller, which calls the service.
Begin(r, j) ==
    /\ ~InFlight(r)
    /\ job' = [job EXCEPT ![r] = j]
    /\ GoTo(r, "findClass")
    /\ column' = [column EXCEPT ![r] = FirstColumn(j.op)]
    /\ held' = [held EXCEPT ![r] = {}]
    /\ disturbed' = disturbed \cup
         {c \in {j.class} : \E q \in Requests : InFlight(q) /\ job[q].class = c}
    /\ UNCHANGED <<sessions, seen, entity, image>>

\* assertProfessorOwnsClass: findClass resolves.
FindClass(r) ==
    /\ pc[r] = "findClass"
    /\ LET row == sessions[job[r].class] IN
         \/ /\ row = NoRow
            /\ Answer(r, "refused")
            /\ UNCHANGED held
         \/ /\ row # NoRow
            /\ seen' = [seen EXCEPT ![r] = row]
            /\ held' = [held EXCEPT ![r] = Cells(row)]
            /\ GoTo(r, "findTeaching")
            /\ UNCHANGED <<entity, image>>
    /\ UNCHANGED <<sessions, job, column, disturbed>>

\* findTeaching resolves; the operation's own checks look at the row of then.
FindTeaching(r) ==
    /\ pc[r] = "findTeaching"
    /\ \/ /\ job[r].professor \in Taught[job[r].class]
          /\ Allows(job[r].op, seen[r])
          /\ GoTo(r, "findRow")
          /\ UNCHANGED <<seen, entity, image>>
       \/ /\ \/ job[r].professor \notin Taught[job[r].class]
             \/ ~Allows(job[r].op, seen[r])
          /\ Answer(r, "refused")
    /\ UNCHANGED <<sessions, job, column, held, disturbed>>

\* updateClass...Status: findOneBy, then the assignment.
FindRow(r) ==
    /\ pc[r] = "findRow"
    /\ entity' = [entity EXCEPT ![r] =
                    [sessions[job[r].class] EXCEPT
                       ![column[r]] = Wanted(job[r].op, column[r])]]
    /\ GoTo(r, "selectRow")
    /\ UNCHANGED <<sessions, job, column, seen, image, held, disturbed>>

\* save: the row is read back to find the columns to update.
SelectRow(r) ==
    /\ pc[r] = "selectRow"
    /\ image' = [image EXCEPT ![r] = sessions[job[r].class]]
    /\ GoTo(r, "updateRow")
    /\ UNCHANGED <<sessions, job, column, seen, entity, held, disturbed>>

\* save: the update statement is committed (none is sent without a difference).
Commit(r) ==
    LET c == job[r].class IN
    /\ pc[r] = "updateRow"
    /\ Store(c, Saved(sessions[c], entity[r], image[r]))

\* The handler goes on to its next update, or answers 200.
UpdateRow(r) ==
    /\ Commit(r)
    /\ \/ /\ column[r] # LastColumn(job[r].op)
          /\ column' = [column EXCEPT ![r] = LastColumn(job[r].op)]
          /\ GoTo(r, "findRow")
          /\ UNCHANGED <<seen, entity, image>>
       \/ /\ column[r] = LastColumn(job[r].op)
          /\ Answer(r, "ok")
          /\ UNCHANGED column
    /\ UNCHANGED <<job, disturbed>>

\* A round trip fails: 500, and what was not written stays unwritten.
Fail(r) ==
    /\ InFlight(r)
    /\ Answer(r, "failed")
    /\ disturbed' = disturbed \cup {c \in {job[r].class} : HalfDone(r)}
    /\ UNCHANGED <<sessions, job, column, held>>

\* The update is committed but its answer is lost: 500 all the same.
FailAfterCommit(r) ==
    /\ Commit(r)
    /\ Answer(r, "failed")
    /\ disturbed' = disturbed \cup
         {c \in {job[r].class} : column[r] # LastColumn(job[r].op)}
    /\ UNCHANGED <<job, column>>

\* synchronize: upsertClass inserts the class or sets its registrationStatus
\* to the snapshot's, which is ENABLED; editingStatus is not in the statement.
SyncClass(c) ==
    /\ \/ /\ sessions[c] = NoRow
          /\ Store(c, NewRow("ENABLED"))
          /\ UNCHANGED disturbed
       \/ /\ sessions[c] # NoRow
          /\ Store(c, [sessions[c] EXCEPT !["registrationStatus"] = "ENABLED"])
          /\ disturbed' = disturbed \cup {c}
    /\ UNCHANGED <<job, pc, column, seen, entity, image>>

\* The process stops; the rows stay, the requests are gone.
Crash ==
    /\ pc' = [r \in Requests |-> IF InFlight(r) THEN "failed" ELSE pc[r]]
    /\ seen' = [r \in Requests |-> NoRow]
    /\ entity' = [r \in Requests |-> NoRow]
    /\ image' = [r \in Requests |-> NoRow]
    /\ disturbed' = disturbed \cup
         {c \in Classes : \E r \in Requests : HalfDone(r) /\ job[r].class = c}
    /\ UNCHANGED <<sessions, job, column, held>>

Step(r) == \/ FindClass(r) \/ FindTeaching(r)
           \/ FindRow(r) \/ SelectRow(r) \/ UpdateRow(r)
           \/ Fail(r) \/ FailAfterCommit(r)

Operations == \/ \E r \in Requests : Step(r) \/ \E j \in Job : Begin(r, j)
              \/ \E c \in IntranetClasses : SyncClass(c)

Next == Operations \/ Crash

Spec == Init /\ [][Next]_vars

\* Every await of a handler ends: the round trip is answered or it fails.
FairSpec == Spec /\ \A r \in Requests : WF_vars(Step(r))
-----------------------------------------------------------------------------
BothEnabled(c) == /\ sessions[c] # NoRow
                  /\ \A x \in Column : sessions[c][x] = "ENABLED"

\* A request that was answered 200 did what its answer says: at some moment
\* after it read the class, every column it is about held the status it asked
\* for, whatever other requests, stale saves or synchronisations did meanwhile.
AckTookEffect ==
    \A r \in Requests : pc[r] = "ok" =>
        \A x \in {FirstColumn(job[r].op), LastColumn(job[r].op)} :
            <<x, Wanted(job[r].op, x)>> \in held[r]

\* Registration and editing are enabled together only while a reopening is
\* between its two updates, unless status requests overlapped on the class, one
\* of them broke off between its updates, or the synchronisation wrote the row.
ExclusiveUnlessDisturbed ==
    \A c \in Classes \ disturbed :
        BothEnabled(c) => \E r \in Requests : HalfDone(r) /\ job[r].class = c

\* Why the two hold.  A slot's data belong together: what a request loaded is a
\* row its class has held, and what it is to write is in what it loaded.
SlotOK(r) ==
    LET op == job[r].op
        row == sessions[job[r].class] IN
    /\ pc[r] # "free" => job[r] \in Job
    /\ pc[r] \in Reading => column[r] = FirstColumn(op)
    /\ pc[r] \in Updating =>
         /\ column[r] \in {FirstColumn(op), LastColumn(op)}
         /\ column[r] # FirstColumn(op) =>
              <<FirstColumn(op), Wanted(op, FirstColumn(op))>> \in held[r]
    /\ pc[r] \in Updating \cup {"findTeaching"} =>
         row \in Row /\ Cells(row) \subseteq held[r]
    /\ pc[r] = "findTeaching" => seen[r] \in Row
    /\ pc[r] \in {"selectRow", "updateRow"} =>
         entity[r] \in Row /\ entity[r][column[r]] = Wanted(op, column[r])
    /\ pc[r] = "updateRow" =>
         image[r] \in Row /\ Cells(image[r]) \subseteq held[r]

\* A request on an undisturbed class is alone on it, so that what it has loaded
\* and checked is still what the row holds.
AloneOK(r) ==
    LET op == job[r].op
        row == sessions[job[r].class] IN
    InFlight(r) /\ job[r].class \notin disturbed =>
        /\ \A q \in Requests \ {r} : InFlight(q) => job[q].class # job[r].class
        /\ pc[r] = "findTeaching" => seen[r] = row
        /\ pc[r] \in Updating =>
             IF HalfDone(r) THEN row["registrationStatus"] = "ENABLED"
             ELSE Allows(op, row)
        /\ pc[r] \in {"selectRow", "updateRow"} =>
             entity[r] = [row EXCEPT ![column[r]] = Wanted(op, column[r])]
        /\ pc[r] = "updateRow" => image[r] = row

IInv == /\ TypeOK
        /\ \A r \in Requests : SlotOK(r)
        /\ AckTookEffect
        /\ \A r \in Requests : AloneOK(r)
        /\ ExclusiveUnlessDisturbed

\* A covered class a reopening is half-way through.
HalfOpen(c) == /\ c \notin disturbed
               /\ \E r \in Requests : HalfDone(r) /\ job[r].class = c

\* The row as the abstract gate shows it: a reopening happens at its first
\* update, the second one is already accounted for.
GateOf(c) == IF HalfOpen(c) THEN [sessions[c] EXCEPT !["editingStatus"] = "DISABLED"]
                            ELSE sessions[c]

Gate == INSTANCE ClassGate WITH gate <- [c \in Classes |-> GateOf(c)]

\* The PostgreSQL adapter does what the in-memory one does, one whole operation
\* at a time, for every class that has not been disturbed.
GateSpec == Gate!Spec

\* A class is not left with both enabled: the reopening that made it so ends
\* the editing window, unless it breaks off or something interferes.
WindowCloses ==
    \A c \in Classes : BothEnabled(c) ~> (~BothEnabled(c) \/ c \in disturbed)

\* Said of the program: enabling editing does not open the registration again
\* (avance3.md), so that the update of enableEditing leaves a closed one closed.
EditingDoesNotReopen ==
    [][\A r \in Requests :
         /\ UpdateRow(r) /\ job[r].op = "enableEditing"
         /\ sessions[job[r].class]["registrationStatus"] = "DISABLED"
         => sessions'[job[r].class]["registrationStatus"] = "DISABLED"]_vars

\* Said of the program: EasyCheck, not the Intranet, owns the local statuses
\* (integration-contracts.md), so only a professor's request reopens a class.
ReopenedByProfessorOnly ==
    [][\A c \in Classes :
         /\ sessions[c] # NoRow
         /\ sessions[c]["registrationStatus"] = "DISABLED"
         /\ sessions'[c]["registrationStatus"] = "ENABLED"
         => \E r \in Requests : Commit(r) /\ job[r].class = c]_vars
=============================================================================
