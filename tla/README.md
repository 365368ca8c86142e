# EasyCheck: a TLA+ model of the backend

EasyCheck registers the attendance of students with QR codes.  These modules
model `easycheck-backend` (NestJS, TypeORM, PostgreSQL): what its handlers do
between two awaits, what several of them do to one another, and what a failure
or a restart leaves behind.  Paths below are relative to
`src/easycheck-backend/src/` unless they start with `src/`.

Two things shape everything.

* The handlers run in one node process.  Code between two awaits runs alone;
  every await of a repository is a round trip to PostgreSQL, between which any
  other request may run.  No handler opens a transaction over more than one
  repository call.  Hence **one action of a model is one round trip** together
  with the code up to the next await.
* TypeORM's `save` of an entity that has its primary key is itself two round
  trips: it reads the row back, then inserts if there is none, or sends the
  columns in which the entity differs from the row it read.  The models have
  both.

## 1. The system

| Component | State | Operations | Code |
| --- | --- | --- | --- |
| Class status (CU-07, CU-08) | `class_sessions`: `registrationStatus`, `editingStatus` | disable and enable registration, enable and disable editing | `assistance/Assistance.service.ts:316-409` |
| QR tokens (CU-06) | the signed claims a student holds, `used_qr_nonces` | `generateStudentQr`, `verify`, `consumeQrNonce` | `Assistance.service.ts:217-245`, `qr-token.service.ts` |
| Attendance (CU-06) | `assistances`, unique in student and class | `registerAssistanceQR` | `Assistance.service.ts:247-298` |
| Corrections (CU-08) | `assistances.present` | `editAssistance` | `Assistance.service.ts:411-444` |
| Reports (CU-03, 04, 05) | none; they read four tables | the report of a student, of a subject | `Assistance.service.ts:114-160, 300-314` |
| Login and guard (CU-01) | tokens, which name a RUT and a role | `login`, `canActivate` | `auth/` |
| Registration (CU-02) | `users`, unique in `rut` | `execute` | `users/application/register-user.service.ts` |
| Simulated identity | a map of credentials, in memory only | `seedCredential`, `validateCredentials` | `users/infrastructure/in-memory-institutional-identity.service.ts` |
| Subjects (CU-09) | `subjects`, keyed by code, `LOCAL` or `INTRANET` | `createSubject`, `upsertFromIntranet` | `subject/` |
| Intranet synchronisation | none of its own | `synchronize` writes users, students, professors, subjects, enrollments, teachings and classes row by row | `api-intranet/` |
| In-memory repositories | the same data in arrays and maps | the same, without giving way between read and write | `assistance/Data.repository.ts` and others |
| Endpoints | none | guard, checks, service, translation of exceptions; several exist twice, as `/me` and with a RUT in the route | `assistance/Assistance.controller.ts` |
| RUT check digit (CU-03) | none | `isValidRut` | `Assistance.service.ts:162-184` |
| Seed and start-up | none | inserts demo rows that are missing, before every start | `seed/demo-seed.ts`, `docker-entrypoint.sh` |

How they interact: `registerAssistanceQR` and `editAssistance` read the class
row the status requests write; the synchronisation writes the same class rows,
subjects and accounts as the requests, and the same credentials as the
registration; the guard in front of every endpoint reads the account that
registration or synchronisation stored; the reports read what all of them write.

What is hard: every check (`registrationStatus`, `editingStatus`,
`assistanceExists`, `existsByRut`, `findByCode`) is made one to five round trips
before the write it is for; `save` can write back a stale column or turn an
insert into an update; reopening a class is two updates; a nonce is spent before
the attendance it stands for is stored; a lost answer makes a reader scan again;
a restart keeps the tables and loses the credentials.  `PROJECT.json` lists each
such place with its line and the properties aimed at it.

What makes each component correct:

* status: a 200 is true; registration and editing are not open together, except
  in the middle of a reopening; the operations behave as if they were atomic;
* attendance: one row per student and class, each from a token that was spent
  for it and for nothing else, inserted for a scan that came in time; answers
  are true and remain so;
* corrections: made inside their window, by the request that asked for them;
* class and attendance together: a close is final until somebody reopens;
* accounts: a RUT is registered once, what was answered is stored, a token that
  was handed out is accepted;
* subjects: a code is registered once, local subjects are not overwritten;
* reports: the percentages mean what they say although the tables move;
* synchronisation: at every moment, and wherever it has broken off, no row refers
  to one that is missing; a 201 means that the whole snapshot is stored; it
  removes nothing; repeating it repairs half a synchronisation;
* endpoints: every refusal has a status of its own, the two endpoints of an
  operation agree, nobody acts outside his subjects, a mistyped RUT is refused.

## 2. The modules

| Module | What it is |
| --- | --- |
| `ClassGate` | Abstract: the status operations as single steps over the rows. |
| `ClassSessions` | The status requests and the class upsert of the synchronisation over PostgreSQL. Implements `ClassGate`. |
| `AttendanceLedger` | Abstract: tokens that are issued, spent on an attendance or burnt; attendances that are never lost. |
| `QrAttendance` | Issuing, scanning, recording and correcting over PostgreSQL, with clock and nonces. Implements `AttendanceLedger`. |
| `Assistance` | `QrAttendance` and `ClassSessions` composed over the same class rows and the same process. Implements both. |
| `DataRepository` | The in-memory repository: rows, their operations, the three reports with their percentages. |
| `RutCheck` | `isValidRut`, and the slips of the hand that turn one RUT into another text. |
| `AssistanceApi` | Every endpoint of `AssistanceController` over `DataRepository`. Its steps are steps of `ClassGate` and of `AttendanceLedger`. |
| `SubjectCatalogue`, `Subjects` | Abstract and detailed registration and synchronisation of subjects. |
| `Accounts` | Registration, synchronisation of users, login, guard, and the credentials in memory. |
| `IntranetSync` | The whole loop of `synchronize` over its seven tables, beside the demo seed and other requests. |
| `AttendanceReports` | The multi-query reports over tables that change. |
| `*_proofs` | Theorems about the module of that name; those about `RutCheck` are in `AssistanceApi_proofs`. |
| `MC*` | The instances TLC checks. |

Over PostgreSQL, requests live in *slots*: `pc[r]` is the await at which the
request in slot `r` is suspended, or the answer it got.  A slot keeps its answer
until it is used again, which is what lets an invariant speak about answers.
Three conventions recur.  `Fail(r)` is a round trip that fails: if the statement
writes, there is a variant in which it had been committed before its answer was
lost.  `Crash` or `Restart` ends everything in flight and keeps the tables.
Variables commented as *history* record what properties refer to and are read by
no guard.

Correspondence of state and actions, module by module:

* **ClassSessions.** `sessions` is the table.  `Begin` is a validated PATCH;
  `FindClass` and `FindTeaching` are the two reads of
  `assertProfessorOwnsClass`; the check of the status uses `seen`, the row of
  the first read, but is made after the second, as in the code.  `FindRow`,
  `SelectRow` and `UpdateRow` are the three round trips of
  `updateClass...Status`: `entity` is the object that was loaded and assigned
  to, `image` the row `save` read back, `Saved` the merge of the two.
  `LastColumn` sends `enableRegistration` through the three steps twice.
  `SyncClass` upserts `registrationStatus`; an existing `editingStatus` stays.
* **QrAttendance.** `asked` and `claims` are the two halves of
  `generateStudentQr`; a token is its nonce.  `Present` is `verify`, then
  `FindClass`, `AssistanceExists`, `ConsumeQrNonce` and `InsertAssistance` follow
  `registerAssistanceQR`.  The primary key of `used_qr_nonces` and the unique
  index of `assistances` are guards.  `BeginEdit`, `SelectRow`, `UpdateRow` are
  `editAssistance`.  The class rows are another component's: `SessionsChange`
  lets them take any value at any moment.  The wall clock may be set to any
  value, back as well as forth.
* **Assistance.** Extends `QrAttendance` and instantiates `ClassSessions` over the
  same `sessions`.  A step of `ClassSessions` is at the same time a
  `SessionsChange`; a crash hits both.
* **DataRepository and AssistanceApi.** One request is one step: without a
  database every promise a handler awaits is already resolved, so that a handler
  runs to its end in the microtasks that follow the event that brought the
  request in, before the next event.  (Requests pipelined on one connection are
  not considered.)  For each endpoint an operator gives the HTTP status it
  answers, from the guard through the checks of the handler and the exceptions of
  the service to the `catch` blocks, which are the functions `...Errors`; what no
  block translates is 500.  An action fires when its endpoint answers 200 or 201.
  `now` is the clock in milliseconds, from which `insertAssistance` takes its
  ids; rows of the same millisecond share theirs.
* **RutCheck.** A text is the digits and the verifier that the normalisation
  leaves, and whether it was written plainly.  `Loop` is the loop over the body.
* **Subjects.** `FindByCode` is the check of either operation; `SelectRow` and
  `WriteRow` are `save`.  `Given` says which columns an operation passes:
  `createSubject` passes no `externalId`, so that an update leaves it alone.
  `Store` writes a row and records in `held` what every request that is to save
  the same code has thereby seen in it.
* **Accounts.** `credentials` is the map of the simulated Intranet.  `Begin`
  writes the credential, because `validateInstitutionalUser` and `synchronize`
  do so before they ask the database anything.  One `synchronize` job is one
  user of the loop; jobs in two slots are two synchronisations, or a superset
  of what one does.  `ToAuthRole` and `GuardRole` are the two copies of the
  mapping of roles that have to agree.  `inserted` records the RUTs whose account
  has been stored since the process started.
* **IntranetSync.** A row is named by its table and its key.  `Plan` is the
  snapshot as the sequence of rows in the order in which the loop reaches them;
  `at[r]` is the position of a synchronisation in it.  `Lookup` is `existsByRut`
  or the read of `upsertFromIntranet`, `SelectRow` and `Write` are `save` or an
  upsert.  `Seed` is one statement of the demo seed, which the entrypoint of the
  container runs before the service, on every start.  `Other` is what the rest
  of the service does to the same rows: accounts and local subjects that are
  inserted, classes that are closed and reopened, and a local subject saved over
  one the synchronisation has stored.  The last is allowed at any time, which is
  more than the code does: there it takes a registration that looked the code up
  before the synchronisation stored it (`Subjects` has it step by step).
* **AttendanceReports.** `Queries` is the order of the counts of a row; rows
  proceed side by side, as `Promise.all` lets them.  Since reports only read,
  one at a time stands for any number.

Abstractions: names, dates, mails and the texts of answers are left out; a title
stands for name and career of a subject; a password and a nonce are model
values, and so is a RUT wherever its check digit is not looked at; a signature is
abstracted to "the service issued this token".  The claims of a token do not
carry the subject: `create` takes it from the class, and a class keeps its
subject.  Over PostgreSQL, requests refused before their first round trip change
nothing and are left out.

## 3. The checks

Passing runs:

| Run | Asks | Bounds |
| --- | --- | --- |
| `class_status` | `AckTookEffect`: a 200 is true. `ExclusiveUnlessDisturbed`: not both open. `GateSpec`: the steps implement `ClassGate`. `WindowCloses`: the middle of a reopening passes. | 1 class, 2 requests, 2 professors (one teaches the class) |
| `qr_scans` | `OneRecordPerStudentClass`, `NonceSpentOnce`, `RecordsMatchTokens`, `AnswersAreTrue`, `InsertionWarranted`, `LedgerSpec` | 3 students (one not enrolled), 1 class, 2 tokens, 2 readers, clock 0..2, TTL 1 |
| `assistance` | `CloseIsFinal`, `AckedEditTookEffect`, `EditWarranted` over the composition | 1 class, 1 status request, 1 scan, 2 corrections, 1 token |
| `memory` | `EveryRefusalTranslated`, `RouteRutAddsNothing`, `OwnSubjectOnly`, `ReportsAgree`, `MistypedIsRefused`, `GateSteps`, `LedgerSteps` | 2 students, 2 professors, director and administrator, 2 subjects, 3 classes, 2 tokens, clock 0..1, every slip of two RUTs |
| `sync` | `NothingDangles`, `AckedSyncStored`, `StoredRowsStay`, `RetriesComplete` | a snapshot of a student, a professor, a subject and a class; a seed that has some of it and rows of its own; 2 synchronisations, 2 failures |
| `subjects` | `SavedIsTrue`, `CatalogueSpec` | 1 code of the snapshot, 3 requests, 3 titles |
| `accounts` | `OneWinner`, `AnswersAreTrue`, `TokensAccepted`, `StoredHaveCredentials` | 2 RUTs (one new and known to the Intranet, one disabled), 2 requests, 2 passwords |
| `reports` | `AttendedWithinTotal`, `ExcessIsNewClasses`, `CountsWarranted` | 2 students, 2 subjects (one without classes), 2 classes |

All but `assistance` also check the type invariant of their module.

Why these bounds suffice to make the interesting cases happen.  The rows of two
classes, codes or RUTs are independent (every statement names one key), so the
runs over PostgreSQL put all requests on one.  The races are between pairs: one
request between the read and the write of another; two slots, reused without
limit, give every such pair and every sequence of them.  The subjects get a third
slot because a lost answer followed by an overlapping pair is a case of its own.
Two tokens are needed for two tokens of one student and for tokens of two; the
third student is there to be refused.  The clock needs one instant before, at and
after the expiry.  In `QrAttendance` the class rows change arbitrarily, which is
more than any number of status requests can do; `Assistance` needs one status
request only, because a second one on the class disturbs it.

In `memory`, two of everything give each user something of his own and something
of another's; the third class makes a subject with two classes; two instants let
two rows share their id or not.  In `sync`, the student's person is in the seed
and his account is not, the professor is in it whole, one subject and class are
the seed's own, so that each kind of row meets one that is there and one that is
not; the director's role stands for an account that was registered before the
synchronisation with another role than the snapshot's.  Two failures break off
both synchronisations, or one synchronisation and the seed of the restart; one
restart is enough for the seed to meet rows the service has changed.

What is meant by *disturbed*.  Status requests that overlap on one class can
interfere, and the code has nothing to prevent it.  The promises of `ClassGate`
and `SubjectCatalogue` are therefore stated for keys on which nothing has
overlapped, broken off between two updates, or been overwritten by the
synchronisation; a disturbed key leaves the promise for good.  `AckTookEffect`,
`SavedIsTrue`, and all properties of `QrAttendance`, `Accounts`, `IntranetSync` and
`AttendanceReports`, have no such exception.  On a disturbed key no property
forbids what the code does there: both statuses open, two 201 for one subject
code, a local subject written over by a synchronisation.

The weakest link is deliberate.  `registerAssistanceQR` checks the status of the
class four round trips before it inserts.  So it is not true that no row is
added to a closed class.  `InsertionWarranted` says what is true: a row is added
only for a scan that arrived while its token was valid and during which the
class was open at some moment; `CloseIsFinal` says that once the scans that had
passed the check are over, a closed class stays as it is.  `EditWarranted` is
the same for corrections.  `ExcessIsNewClasses` says by how much a report of
a subject can exceed 100 %, which it can because it counts the classes first.

Every property of a passing run has a mutant in `PROJECT.json`: a change of one
definition, as a plausible mistake in the code would have it, under which TLC
finds the property violated.

Fairness.  Two properties need it.  `WindowCloses` assumes weak fairness of each
status request's steps, `RetriesComplete` weak fairness of each
synchronisation's `Progress`.  Both say that an await ends, with a result or with
an error, and that the event loop then runs the handler; PostgreSQL and the
driver's connection errors see to the first and node to the second.  That
failures are finitely many is the bound `MaxFailures`, and `RetriesComplete` has
as its premise that administrators keep asking.  Nothing is assumed about new
requests, the clock, crashes or, in `ClassSessions`, the synchronisation.

Disagreements between the code and its documents, each a run that TLC finds
violated:

| Run | What is said | What happens |
| --- | --- | --- |
| `editing_does_not_reopen` | enabling editing does not reopen the registration (`src/avance3.md:78-79`) | a class is reopened after `enableEditing` has checked that it is closed, and closed again between its two reads of the row: the update of `editingStatus` also writes the `ENABLED` of the first read over the `DISABLED` of the second |
| `reopened_by_professor_only` | EasyCheck owns the local statuses (`src/easycheck-backend/docs/integration-contracts.md:31-33`) | a repeated synchronisation reopens a class its professor closed |
| `duplicate_is_conflict` | a duplicate attendance is 409 (`src/README.md:237`) | the duplicate the unique index finds is 500 |
| `survives_restart` | created accounts can log in, effects survive a restart (`integration-contracts.md:123,160`) | no password logs in to the account after a restart |

Noticed beside these, and visible in the models without a run of their own:

* two overlapping registrations of a subject code are both answered 201, and the
  second overwrites the first, where
  `CU_09/bdd/features/create-subject.feature:19` has the code refused
  (`Subjects`; `SavedIsTrue` says what remains true);
* a local subject that is registered after a synchronisation has looked its code up
  is overwritten by it, where `src/avance3.md:80-81` has local subjects preserved
  when they collide (`Subjects` and `IntranetSync`);
* an existing account keeps its role and status although `src/README.md:127-128` and
  `integration-contracts.md:31` have the Intranet update users (`Lookup` of
  `IntranetSync`);
* a registration that is answered 409 has replaced the password of the account
  that is there (`Begin` of `Accounts`, `register-user.service.ts:50`);
* `upsertClass` of the in-memory repository closes the editing window of a class
  that is there, that of the PostgreSQL adapter leaves it alone (`NewRow` of
  `DataRepository`, `SyncClass` of `ClassSessions`);
* a RUT written with dots passes `isValidRut`, and the student is then looked up
  with the text as it was written, so that it is answered 404
  (`GetStudentAttendanceByRut` of `AssistanceApi`).

## 4. The proofs

The theorems hold for every number of classes, students, tokens, requests and so
on, from the named assumptions on the constants alone.  None of the invariants is
inductive by itself; each module of proofs starts with the strengthening, and has
one step per action.

* **ClassSessions_proofs**: `TypeCorrect`, `AckedRequestsTookEffect`,
  `GatesExclude`, `ImplementsGate`.
  `AckTookEffect` speaks of answered requests only; that the update of a stale
  entity still leaves the column as asked depends on what a request carries from
  await to await.  `SlotOK(r)` says it: what `r` has loaded was in its row at some
  moment since it read the class (`held`), the column it is at is the first or the
  last of its operation, and its entity already has the status it asks for.  So if
  `save` sends the column, the row gets it; if it does not, because the row as read
  back has it already, then the row held it at that moment.
  `ExclusiveUnlessDisturbed` needs that a request on an undisturbed class is alone
  on it, and that therefore everything it has read is still what the row holds:
  `AloneOK(r)`.  From the same invariant the refinement: `GateOf` shows a reopening
  at its first update, so that the second is a stutter, and each of the other
  operations at its one update.
* **QrAttendance_proofs**: `TypeCorrect`, `OneRecord`, `NoncesAreSpentOnce`,
  `RecordsComeFromTokens`, `AnswersStayTrue`, `InsertionsAreWarranted`,
  `AckedEditsTookEffect`, `EditsAreWarranted`, `ImplementsLedger`,
  `AttendancesTraceToOneToken`.
  `TokensOK` and `EditsOK` say that a scan in flight holds a signed token and a
  correction a row; `TableInv` joins the four properties of the table, which need
  one another: a scan past `consumeQrNonce` is the only holder of its nonce, and
  the row a nonce has left is the only one.  `ScansWatched` and `EditsWatched` tie
  what a slot has passed to what it has seen.  The refinement maps a token to
  `recorded` when a row has its nonce, to `burnt` when it is used up without one
  and nobody holds it any more; with it `TableInv` implies the invariant of the
  ledger, one spent token behind every attendance.
* **Assistance_proofs**: `ImplementsQrAttendance`, `ImplementsClassSessions`,
  `SystemEditsTookEffect`, `SystemEditsAreWarranted`, `ClosesAreFinal`.
  The composition is shown to implement either component, so that their theorems
  hold of the whole.  `CloseIsFinal` then takes the invariants of both: by
  `AloneOK`, a request that is not a reopening can only close the registration of
  an undisturbed class or leave it as it is (`StaysClosed`), and no scan gets past
  `findClass` of a closed class (`StaysDrained`).  Two lemmas say that an instance
  of `ClassSessions` and the same instance of `ClassSessions_proofs` are the same.
* **Accounts_proofs**: `TypeCorrect`, `RegisteredOnce`, `AnswersStayTrue`,
  `IssuedTokensAccepted`, `StoredCanLogIn`.  The first four rest on `AccountsStay`,
  that no step changes an account that is there.  Tokens need `TokensOK`, that a
  login or a guard still finds what it has found; with it, what a login and the
  guard answered stays true.  Credentials need `CredentialsOK`: a RUT has its
  credential from before the first round trip of the request that stores its
  account, and a restart, which loses it, cuts that request off.
* **Subjects_proofs**: `TypeCorrect`, `SavesAreTrue`, `ImplementsCatalogue`,
  `OriginsAreWhole`.  `TakenOK`: a registration whose code was taken finds it taken.
  `HeldOK`: what a request that is to save has in its hands, and what the row holds,
  it has seen; so if `save` leaves a column out, because its image has it already,
  the row held it (`CommitSeen`).  The refinement needs `AloneOK`, as in
  `ClassSessions`.
* **IntranetSync_proofs**: `TypeCorrect`, `AckedSyncsAreComplete`,
  `StoredRowsAreKept`, `PlanOrder`, `ReferencesAreWhole`, for any snapshot and seed
  that meet two assumptions.  `SnapshotAssumption`: the lists of the snapshot are
  sequences, and every pair and class in them refers to users and subjects in them.
  `SeedOrderAssumption`: a statement of the seed names only what it or an earlier one
  inserts, as `demo-seed.ts` is ordered, and its classes (ids 1 to 4) are not those
  of the snapshot (1001 and 1002).  TLC evaluates both on the data of the code.
  `PassedOK`: what a synchronisation has passed is stored.  `PlanOrder`: `Plan`
  reaches every row of a table before any row of the next one; `Plan` is made by
  `FlattenSeq`, a recursive function, whose range is shown by induction over the
  number of sequences.  `Whole` is what makes `NothingDangles` inductive: beside what
  it names, a stored class of the snapshot needs every pair of its subject and their
  users (`Needs`), all of which come before it in `Plan`; `SeedPassed` says the same
  of the statements of the seed.  No foreign key guards any of this in the schema.
  `StoredRowsAreKept` needs that no synchronisation is in flight while the seed runs
  (`SyncsServing`).
* **AttendanceReports_proofs**: `TypeCorrect`, `StudentPercentageBounded`,
  `SubjectExcessExplained`, `RowsAreWarranted`.  The numbers in a row are related
  to the tables as they are now (`CountInv`): those of a student's row are bounded
  by the classes there are, which never become fewer; the classes of a subject's
  row and the late ones together are exactly those there are; and `always` and
  `ever` enclose the presences of now.  `AttendedBound` maps attendances injectively
  to classes.
* **AssistanceApi_proofs**, which also holds the theorems about `RutCheck`.
  *RUTs:* `WrongDigitIsRefused`, `SwapIsRefused`, `OtherVerifierIsRefused`, and
  `SlipsAreRefused`, which joins them.  `LoopUnfolds` gives the function that meets
  the equation of the loop, seven or eight passes long, and so says what the loop
  returns; `LoopWeighs` reads it as a weighted sum.  A slip adds to the sum a weight,
  or the difference of two neighbouring weights (1, or -5 where 7 is followed by 2),
  times the difference of two digits, which is never a multiple of 11
  (`NotAMultiple`), and one verifier stands for one remainder (`OneVerifier`).
  *Endpoints:* `TypeCorrect`, `NoRefusalIsUntranslated`, `RouteAddsNothing`,
  `SlipsAreAnswered400`, `NobodyLeavesTheirSubject`, `RequestsAreGateSteps`,
  `RequestsAreLedgerSteps`, `ReportsAlwaysAgree`, `FindsTheFirstRow`,
  `NeverBothOpen`.  All but `FindsTheFirstRow` rest on `ApiInv`: the types, one row
  per student and class of a class that is there (`RecordsOK`), spent tokens were
  issued (`TokensOK`), and teachings are those of the snapshot (`SnapshotOK`).  The
  statuses are shown table by table: which exceptions an operation throws, and that
  its `...Errors` function translates each of them.  `ReportsAlwaysAgree` counts rows
  and classes by cardinality, so it needs `ClassesAssumption`, finitely many
  classes.  The others: a user has one role (`AdminAssumption`), times are natural
  numbers (`ClockAssumption`), and `None` is neither claims nor an exception
  (`NoneAssumption`).

The library states induction with an operator for a parameter, which no installed
prover instantiates; where it is needed, over natural numbers, it is obtained as a
statement about sets from the well-foundedness of `<` (`LeastNatural`, `Induction` in
`IntranetSync_proofs`).

Model-checked only: `WindowCloses` and `RetriesComplete`, since the prover does not
reason about fairness; every other property of a passing run is stated by a theorem.
The four runs that expect a violation are counterexamples and have nothing to prove.

## 5. Not modelled

* Configuration, wiring and bootstrap: they run once and keep no state.
* Running the migration: it happens once, before the service; what it creates
  (keys, unique constraints, defaults, no foreign keys) is in the models.
* The validation pipes and the controller of the subjects beyond the operations
  of `Subjects`; the controllers of login and registration beyond their services.
* The syntax of tokens, mails and passwords, and `AuthRepository`, which nothing
  injects any more.
* The numbers `synchronize` returns, which count what the tables hold.
* Tests, reports and performance scripts.

## 6. Plan

What is left: the endpoints of login, registration and subjects in the manner of
`AssistanceApi`, with `TokenRolesGuard` and `AdminGuard` side by side.
