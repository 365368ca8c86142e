------------------------------ MODULE Accounts ------------------------------
(***************************************************************************)
(* Accounts and their tokens: RegisterUserService (CU-02), the user part   *)
(* of SyncApiIntranetService, AuthService.login (CU-01) and the            *)
(* TokenRolesGuard in front of every other endpoint, over the users table  *)
(* and the simulated Intranet, which keeps its credentials in memory.      *)
(*                                                                         *)
(* One action is one round trip to the database with the code up to the    *)
(* next await.  Requests that are refused with 400 or 404 before the first *)
(* round trip change nothing and are left out.                             *)
(***************************************************************************)
CONSTANTS
    Ruts, Passwords,
    DemoAccounts,    \* DemoAccounts[u]: the account the demo seed gives rut u
    DemoPassword,    \* the password of every credential of the demo
    Snapshot,        \* Snapshot[u]: role and password of Intranet user u
    Routes,          \* the sets of roles the endpoints allow
    Requests,        \* slots for requests that may be in flight together
    NoAccount, NoPassword, NoJob

UserRole == {"ESTUDIANTE", "PROFESOR", "DIRECTOR_CARRERA", "ADMINISTRADOR"}
AuthRole == {"estudiante", "profesor", "director", "administrador"}
Account == [role : UserRole, status : {"ACTIVE", "DISABLED"}]

ASSUME DemoAssumption ==
    /\ DOMAIN DemoAccounts \subseteq Ruts
    /\ DemoAccounts \in [DOMAIN DemoAccounts -> Account]
    /\ DemoPassword \in Passwords
ASSUME SnapshotAssumption ==
    /\ DOMAIN Snapshot \subseteq Ruts
    /\ Snapshot \in [DOMAIN Snapshot -> [role : UserRole, password : Passwords]]
ASSUME RoutesAssumption == Routes \subseteq SUBSET AuthRole
ASSUME NothingAssumption == NoAccount \notin Account /\ NoPassword \notin Passwords

VARIABLES
    accounts,      \* the users table: accounts[u], or NoAccount
    credentials,   \* the credentials map of the simulated Intranet
    issued,        \* the tokens that have been handed out
    job,           \* job[r]: what the request in slot r asks for
    pc,            \* pc[r]: the await it is suspended at, or its answer
    found,         \* found[r]: the account findByRut returned
    inserted       \* history: ruts whose account was inserted since the process
                   \* started

vars == <<accounts, credentials, issued, job, pc, found, inserted>>

Token == [rut : Ruts, role : AuthRole]

\* registerableRoles leaves the administrator out.
Registration == [op : {"registerUser"}, rut : Ruts, password : Passwords,
                 role : UserRole \ {"ADMINISTRADOR"}]
Synchronization == {[op |-> "synchronize", rut |-> u, password |-> Snapshot[u].password,
                     role |-> Snapshot[u].role] : u \in DOMAIN Snapshot}
Login == [op : {"login"}, rut : Ruts, password : Passwords]
Guarded == [op : {"canActivate"}, rut : Ruts, role : AuthRole, allowed : Routes]
Job == Registration \cup Synchronization \cup Login \cup Guarded

ASSUME NoJobAssumption == NoJob \notin Job

Awaits == {"existsByRut", "save", "findByRut", "found"}
Answers == {"free", "created", "kept", "duplicate", "token", "refused",
            "authorized", "forbidden", "unauthorized", "failed"}

InFlight(r) == pc[r] \in Awaits

TypeOK ==
    /\ accounts \in [Ruts -> Account \cup {NoAccount}]
    /\ credentials \in [Ruts -> Passwords \cup {NoPassword}]
    /\ issued \subseteq Token
    /\ job \in [Requests -> Job \cup {NoJob}]
    /\ pc \in [Requests -> Awaits \cup Answers]
    /\ found \in [Requests -> Account \cup {NoAccount}]
    /\ inserted \subseteq Ruts
-----------------------------------------------------------------------------
\* toAuthRole of AuthService, and the one of the guard.
ToAuthRole == [ESTUDIANTE |-> "estudiante", PROFESOR |-> "profesor",
               DIRECTOR_CARRERA |-> "director", ADMINISTRADOR |-> "administrador"]

\* Mutant of GuardRole: a role is its name in lower case.
GuardRoleLowerCase ==
    [ESTUDIANTE |-> "estudiante", PROFESOR |-> "profesor",
     DIRECTOR_CARRERA |-> "director_carrera", ADMINISTRADOR |-> "administrador"]

GuardRole == [ESTUDIANTE |-> "estudiante", PROFESOR |-> "profesor",
              DIRECTOR_CARRERA |-> "director", ADMINISTRADOR |-> "administrador"]

\* Mutant of NewAccount: the role of the institutional user, not of the command.
NewAccountInstitutionalRole(j) == [role |-> "ESTUDIANTE", status |-> "ACTIVE"]

\* Mutant of NewAccount: no default for the status.
NewAccountNoStatus(j) == [role |-> j.role]

\* What registration and synchronisation insert.
NewAccount(j) == [role |-> j.role, status |-> "ACTIVE"]

\* seedDemoCredentials: what the map holds when the process starts.
DemoCredentials == [u \in Ruts |-> IF u \in DOMAIN DemoAccounts
                                   THEN DemoPassword ELSE NoPassword]

\* Mutant of Seeded: the synchronisation leaves the credentials alone.
SeededByRegistration(j) ==
    IF j.op = "registerUser"
    THEN [credentials EXCEPT ![j.rut] = j.password] ELSE credentials

\* seedCredential, which registration and synchronisation call first.
Seeded(j) == IF j.op \in {"registerUser", "synchronize"}
             THEN [credentials EXCEPT ![j.rut] = j.password] ELSE credentials

GoTo(r, next) == pc' = [pc EXCEPT ![r] = next]

Answer(r, answer) == /\ GoTo(r, answer)
                     /\ found' = [found EXCEPT ![r] = NoAccount]

\* Mutant of Insert: save replaces the account, as the in-memory repository does.
InsertOrReplace(r) ==
    /\ accounts' = [accounts EXCEPT ![job[r].rut] = NewAccount(job[r])]
    /\ inserted' = inserted \cup {job[r].rut}

\* save of an account without an id: an INSERT, and rut is unique.
Insert(r) ==
    /\ accounts[job[r].rut] = NoAccount
    /\ accounts' = [accounts EXCEPT ![job[r].rut] = NewAccount(job[r])]
    /\ inserted' = inserted \cup {job[r].rut}
-----------------------------------------------------------------------------
Init ==
    /\ accounts = [u \in Ruts |-> IF u \in DOMAIN DemoAccounts
                                  THEN DemoAccounts[u] ELSE NoAccount]
    /\ credentials = DemoCredentials
    /\ issued = {}
    /\ job = [r \in Requests |-> NoJob]
    /\ pc = [r \in Requests |-> "free"]
    /\ found = [r \in Requests |-> NoAccount]
    /\ inserted = {}

\* A request arrives, or the synchronisation reaches this user.  Tokens are the
\* ones the service has handed out.
Begin(r, j) ==
    /\ ~InFlight(r)
    /\ j.op = "canActivate" => [rut |-> j.rut, role |-> j.role] \in issued
    /\ job' = [job EXCEPT ![r] = j]
    /\ GoTo(r, IF j.op \in {"registerUser", "synchronize"} THEN "existsByRut"
                                                           ELSE "findByRut")
    /\ credentials' = Seeded(j)
    /\ UNCHANGED <<accounts, issued, found, inserted>>

\* 409 for a rut that has an account; the synchronisation keeps the account.
ExistsByRut(r) ==
    LET exists == accounts[job[r].rut] # NoAccount IN
    /\ pc[r] = "existsByRut"
    /\ \/ ~exists /\ GoTo(r, "save")
       \/ exists /\ job[r].op = "registerUser" /\ GoTo(r, "duplicate")
       \/ exists /\ job[r].op = "synchronize" /\ GoTo(r, "kept")
    /\ UNCHANGED <<accounts, credentials, issued, job, found, inserted>>

\* 201, or the account is there by now and nobody catches the violation: 500.
Save(r) ==
    /\ pc[r] = "save"
    /\ \/ Insert(r) /\ Answer(r, IF job[r].op = "registerUser" THEN "created"
                                                               ELSE "kept")
       \/ /\ accounts[job[r].rut] # NoAccount
          /\ Answer(r, "failed")
          /\ UNCHANGED <<accounts, inserted>>
    /\ UNCHANGED <<credentials, issued, job>>

\* login and canActivate: the account is read.
FindByRut(r) ==
    /\ pc[r] = "findByRut"
    /\ found' = [found EXCEPT ![r] = accounts[job[r].rut]]
    /\ GoTo(r, "found")
    /\ UNCHANGED <<accounts, credentials, issued, job, inserted>>

\* An account that login and the guard accept.
Active(account) == account # NoAccount /\ account.status = "ACTIVE"

\* login: 403 or 401, or the credential fits and a token is created.
ValidateCredentials(r) ==
    LET valid == /\ Active(found[r])
                 /\ credentials[job[r].rut] = job[r].password IN
    /\ pc[r] = "found" /\ job[r].op = "login"
    /\ \/ /\ valid
          /\ issued' = issued \cup {[rut |-> job[r].rut,
                                     role |-> ToAuthRole[found[r].role]]}
          /\ Answer(r, "token")
       \/ ~valid /\ Answer(r, "refused") /\ UNCHANGED issued
    /\ UNCHANGED <<accounts, credentials, job, inserted>>

\* An endpoint without roles allows all.
Allowed(j) == j.allowed = {} \/ j.role \in j.allowed

\* canActivate: 401 unless the account and the role of the token agree, 403 unless
\* the endpoint allows the role.
Authorize(r) ==
    LET genuine == Active(found[r]) /\ GuardRole[found[r].role] = job[r].role IN
    /\ pc[r] = "found" /\ job[r].op = "canActivate"
    /\ \/ ~genuine /\ Answer(r, "unauthorized")
       \/ genuine /\ ~Allowed(job[r]) /\ Answer(r, "forbidden")
       \/ genuine /\ Allowed(job[r]) /\ Answer(r, "authorized")
    /\ UNCHANGED <<accounts, credentials, issued, job, inserted>>

\* A round trip fails: 500, whether or not it had been committed.
Fail(r) ==
    /\ InFlight(r) /\ pc[r] # "found"
    /\ Answer(r, "failed")
    /\ UNCHANGED <<accounts, inserted>> \/ (pc[r] = "save" /\ Insert(r))
    /\ UNCHANGED <<credentials, issued, job>>

\* The process stops and starts again: the table and the tokens remain.
Restart ==
    /\ credentials' = DemoCredentials
    /\ inserted' = {}
    /\ pc' = [r \in Requests |-> IF InFlight(r) THEN "failed" ELSE pc[r]]
    /\ found' = [r \in Requests |-> NoAccount]
    /\ UNCHANGED <<accounts, issued, job>>

Step(r) == \/ ExistsByRut(r) \/ Save(r) \/ FindByRut(r)
           \/ ValidateCredentials(r) \/ Authorize(r) \/ Fail(r)

Next == \/ \E r \in Requests : Step(r) \/ \E j \in Job : Begin(r, j)
        \/ Restart

Spec == Init /\ [][Next]_vars
-----------------------------------------------------------------------------
Created(r) == pc[r] = "created"

\* Of the registrations of one rut at most one is ever answered 201, however
\* they and the synchronisation overlap, fail or are cut off.
OneWinner == \A r, q \in Requests :
                Created(r) /\ Created(q) /\ job[r].rut = job[q].rut => r = q

\* The account of a registration that was answered 201 is stored with the role
\* asked for and active, and stays so; after the 409, and once the
\* synchronisation has passed a user, the rut has an account.  A login that got a
\* token, and a request the guard let pass or answered 403, belong to an account
\* that is still active and still has the role of the token.
AnswersAreTrue ==
    \A r \in Requests :
        LET account == accounts[job[r].rut] IN
        /\ Created(r) => account = [role |-> job[r].role, status |-> "ACTIVE"]
        /\ pc[r] \in {"duplicate", "kept"} => account # NoAccount
        /\ pc[r] = "token" =>
             /\ Active(account)
             /\ [rut |-> job[r].rut, role |-> ToAuthRole[account.role]] \in issued
        /\ pc[r] \in {"authorized", "forbidden"} =>
             Active(account) /\ GuardRole[account.role] = job[r].role
        /\ pc[r] = "authorized" => Allowed(job[r])

\* A token that login handed out is never answered 401: the account it names
\* keeps its role and stays active, and login and the guard agree on the names
\* of the roles.
TokensAccepted == \A r \in Requests : pc[r] # "unauthorized"

\* An account that the service has stored since it started, by a registration or a
\* synchronisation, answered or broken off, and an account of the demo, has a
\* credential: some password logs its user in, unless the account is disabled.
StoredHaveCredentials ==
    \A u \in inserted \cup DOMAIN DemoAccounts : credentials[u] # NoPassword

\* Said of the program: the accounts CU-02 creates can log in, and what it
\* stores survives a restart (docs/integration-contracts.md).
SurvivesRestart ==
    \A r \in Requests : Created(r) => credentials[job[r].rut] # NoPassword
=============================================================================
