-------------------------- MODULE Accounts_proofs --------------------------
(***************************************************************************)
(* Theorems about Accounts, for any number of ruts and of requests in      *)
(* flight, any demo accounts and any Intranet snapshot.                    *)
(***************************************************************************)
EXTENDS Accounts, TLAPS

Writes(r) == job[r].op \in {"registerUser", "synchronize"}

\* The awaits and answers of each operation.
KindOK ==
    \A r \in Requests :
        /\ pc[r] # "free" => job[r] \in Job
        /\ pc[r] \in {"existsByRut", "save", "created", "duplicate", "kept"} => Writes(r)
        /\ pc[r] \in {"findByRut", "found"} => ~Writes(r)
        /\ pc[r] = "created" => job[r].op = "registerUser"
        /\ pc[r] = "token" => job[r].op = "login"
        /\ pc[r] \in {"authorized", "forbidden"} => job[r].op = "canActivate"

TypeInv == TypeOK /\ KindOK

\* A token names an active account and its role; what a login or a guard has found
\* is still the account, because no account is ever changed.
TokensOK ==
    /\ \A t \in issued : /\ Active(accounts[t.rut])
                         /\ ToAuthRole[accounts[t.rut].role] = t.role
    /\ \A r \in Requests :
         /\ pc[r] = "found" /\ found[r] # NoAccount => found[r] = accounts[job[r].rut]
         /\ pc[r] \in {"findByRut", "found"} /\ job[r].op = "canActivate" =>
              [rut |-> job[r].rut, role |-> job[r].role] \in issued
         /\ pc[r] = "found" /\ job[r].op = "canActivate" => found[r] # NoAccount

\* A credential is there before an account is: from the first round trip of the
\* registration or synchronisation on that may insert it.
CredentialsOK ==
    /\ StoredHaveCredentials
    /\ \A r \in Requests :
         pc[r] \in {"existsByRut", "save"} => credentials[job[r].rut] # NoPassword

USE DemoAssumption, SnapshotAssumption, RoutesAssumption, NothingAssumption
-----------------------------------------------------------------------------
LEMMA JobType ==
    ASSUME NEW j \in Job
    PROVE  /\ j.rut \in Ruts
           /\ j.op \in {"registerUser", "synchronize", "login", "canActivate"}
           /\ j.op \in {"registerUser", "synchronize"} =>
                j.role \in UserRole /\ j.password \in Passwords
           /\ j.op = "canActivate" => j.role \in AuthRole
<1>1. CASE j \in Registration
  BY <1>1 DEF Registration
<1>2. CASE j \in Synchronization
  <2>1. PICK u \in DOMAIN Snapshot :
          j = [op |-> "synchronize", rut |-> u, password |-> Snapshot[u].password,
               role |-> Snapshot[u].role]
    BY <1>2 DEF Synchronization
  <2>2. Snapshot[u] \in [role : UserRole, password : Passwords] /\ u \in Ruts
    BY SnapshotAssumption
  <2> QED
    BY <2>1, <2>2
<1>3. CASE j \in Login
  BY <1>3 DEF Login
<1>4. CASE j \in Guarded
  BY <1>4 DEF Guarded
<1> QED
  BY <1>1, <1>2, <1>3, <1>4 DEF Job

LEMMA RoleNames ==
    /\ ToAuthRole = GuardRole
    /\ \A role \in UserRole : ToAuthRole[role] \in AuthRole
BY DEF ToAuthRole, GuardRole, UserRole, AuthRole

LEMMA DemoTypes ==
    /\ DemoCredentials \in [Ruts -> Passwords \cup {NoPassword}]
    /\ \A u \in DOMAIN DemoAccounts : u \in Ruts /\ DemoAccounts[u] \in Account
BY DEF DemoCredentials

\* What Answer does to the slot, and what it leaves.
LEMMA AnswerSlot ==
    ASSUME TypeOK, NEW r \in Requests, NEW answer \in Answers, Answer(r, answer)
    PROVE  /\ pc' \in [Requests -> Awaits \cup Answers]
           /\ found' \in [Requests -> Account \cup {NoAccount}]
           /\ pc'[r] = answer
           /\ \A q \in Requests \ {r} : pc'[q] = pc[q] /\ found'[q] = found[q]
BY DEF Answer, GoTo, TypeOK

LEMMA InsertEffect ==
    ASSUME TypeInv, NEW r \in Requests, pc[r] = "save", Insert(r)
    PROVE  /\ job[r].rut \in Ruts /\ NewAccount(job[r]) \in Account
           /\ accounts[job[r].rut] = NoAccount
           /\ accounts' \in [Ruts -> Account \cup {NoAccount}]
           /\ accounts'[job[r].rut] = NewAccount(job[r])
           /\ \A u \in Ruts \ {job[r].rut} : accounts'[u] = accounts[u]
           /\ inserted' = inserted \cup {job[r].rut} /\ inserted' \subseteq Ruts
<1>1. job[r] \in Job /\ Writes(r)
  BY DEF TypeInv, KindOK
<1>2. job[r].rut \in Ruts /\ job[r].role \in UserRole
  BY <1>1, JobType DEF Writes
<1>3. NewAccount(job[r]) \in Account
  BY <1>2 DEF NewAccount, Account
<1> QED
  BY <1>2, <1>3 DEF Insert, TypeInv, TypeOK
-----------------------------------------------------------------------------
LEMMA TypeInit == Init => TypeInv
<1> SUFFICES ASSUME Init PROVE TypeInv
  OBVIOUS
<1>1. TypeOK
  BY DemoTypes DEF Init, TypeOK, Awaits, Answers
<1>2. KindOK
  BY DEF Init, KindOK
<1> QED
  BY <1>1, <1>2 DEF TypeInv

LEMMA TypeStep == TypeInv /\ [Next]_vars => TypeInv'
<1> SUFFICES ASSUME TypeInv, [Next]_vars PROVE TypeInv'
  OBVIOUS
<1> USE DEF TypeInv
<1>1. ASSUME NEW r \in Requests, NEW j \in Job, Begin(r, j) PROVE TypeInv'
  <2>1. TypeOK'
    <3>1. Seeded(j) \in [Ruts -> Passwords \cup {NoPassword}]
      BY JobType DEF Seeded, TypeOK
    <3> QED
      BY <1>1, <3>1 DEF Begin, GoTo, TypeOK, Awaits
  <2>2. KindOK'
    BY <1>1 DEF Begin, GoTo, TypeOK, KindOK, Writes
  <2> QED
    BY <2>1, <2>2
<1>2. ASSUME NEW r \in Requests, ExistsByRut(r) PROVE TypeInv'
  <2>1. TypeOK'
    BY <1>2 DEF ExistsByRut, GoTo, TypeOK, Awaits, Answers
  <2>2. KindOK'
    BY <1>2 DEF ExistsByRut, GoTo, TypeOK, KindOK, Writes
  <2> QED
    BY <2>1, <2>2
<1>3. ASSUME NEW r \in Requests, Save(r) PROVE TypeInv'
  <2>1. PICK answer \in {"created", "kept", "failed"} :
          /\ Answer(r, answer)
          /\ answer = "created" => job[r].op = "registerUser"
    BY <1>3 DEF Save
  <2>2. accounts' \in [Ruts -> Account \cup {NoAccount}] /\ inserted' \subseteq Ruts
    BY <1>3, InsertEffect DEF Save, TypeOK
  <2>3. TypeOK'
    BY <1>3, <2>1, <2>2, AnswerSlot DEF Save, TypeOK, Answers
  <2>4. KindOK'
    BY <1>3, <2>1, AnswerSlot DEF Save, KindOK, Writes, Answers
  <2> QED
    BY <2>3, <2>4
<1>4. ASSUME NEW r \in Requests, FindByRut(r) PROVE TypeInv'
  <2>1. job[r].rut \in Ruts
    BY <1>4, JobType DEF FindByRut, KindOK
  <2>2. TypeOK'
    BY <1>4, <2>1 DEF FindByRut, GoTo, TypeOK, Awaits
  <2>3. KindOK'
    BY <1>4 DEF FindByRut, GoTo, TypeOK, KindOK, Writes
  <2> QED
    BY <2>2, <2>3
<1>5. ASSUME NEW r \in Requests, ValidateCredentials(r) PROVE TypeInv'
  <2>1. PICK answer \in {"token", "refused"} : Answer(r, answer)
    BY <1>5 DEF ValidateCredentials
  <2>0. job[r].op = "login"
    BY <1>5 DEF ValidateCredentials
  <2>2. issued' \subseteq Token
    <3>1. job[r].rut \in Ruts
      BY <1>5, JobType DEF ValidateCredentials, KindOK
    <3>2. Active(found[r]) => ToAuthRole[found[r].role] \in AuthRole
      BY RoleNames DEF TypeOK, Active, Account
    <3> QED
      BY <1>5, <3>1, <3>2 DEF ValidateCredentials, TypeOK, Token
  <2>3. TypeOK'
    BY <1>5, <2>1, <2>2, AnswerSlot DEF ValidateCredentials, TypeOK, Answers
  <2>4. KindOK'
    BY <1>5, <2>0, <2>1, AnswerSlot DEF ValidateCredentials, KindOK, Writes, Answers
  <2> QED
    BY <2>3, <2>4
<1>6. ASSUME NEW r \in Requests, Authorize(r) PROVE TypeInv'
  <2>1. PICK answer \in {"unauthorized", "forbidden", "authorized"} : Answer(r, answer)
    BY <1>6 DEF Authorize
  <2>2. TypeOK'
    BY <1>6, <2>1, AnswerSlot DEF Authorize, TypeOK, Answers
  <2>3. KindOK'
    BY <1>6, <2>1, AnswerSlot DEF Authorize, KindOK, Writes, Answers
  <2> QED
    BY <2>2, <2>3
<1>7. ASSUME NEW r \in Requests, Fail(r) PROVE TypeInv'
  <2>1. accounts' \in [Ruts -> Account \cup {NoAccount}] /\ inserted' \subseteq Ruts
    BY <1>7, InsertEffect DEF Fail, TypeOK
  <2>2. TypeOK'
    BY <1>7, <2>1, AnswerSlot DEF Fail, TypeOK, Answers
  <2>3. KindOK'
    BY <1>7, AnswerSlot DEF Fail, KindOK, Writes, Answers, InFlight, Awaits
  <2> QED
    BY <2>2, <2>3
<1>8. CASE Restart
  <2>1. TypeOK'
    BY <1>8, DemoTypes DEF Restart, TypeOK, Answers
  <2>2. KindOK'
    BY <1>8 DEF Restart, TypeOK, KindOK, Writes, InFlight, Awaits
  <2> QED
    BY <2>1, <2>2
<1>9. CASE UNCHANGED vars
  <2>1. TypeOK'
    BY <1>9 DEF vars, TypeOK
  <2>2. KindOK'
    BY <1>9 DEF vars, KindOK, Writes
  <2> QED
    BY <2>1, <2>2
<1> QED
  BY <1>1, <1>2, <1>3, <1>4, <1>5, <1>6, <1>7, <1>8, <1>9 DEF Next, Step

\* For any number of ruts and requests, accounts, credentials, tokens and request
\* slots keep their types through every interleaving, failure and restart.
THEOREM TypeCorrect == Spec => []TypeOK
<1>1. TypeInv => TypeOK
  BY DEF TypeInv
<1> QED
  BY <1>1, TypeInit, TypeStep, PTL DEF Spec
-----------------------------------------------------------------------------
\* No step of anybody changes an account that is there.
LEMMA AccountsStay ==
    ASSUME TypeInv, [Next]_vars
    PROVE  \A u \in Ruts : accounts[u] # NoAccount => accounts'[u] = accounts[u]
<1>1. ASSUME NEW r \in Requests, Save(r) \/ Fail(r)
      PROVE  UNCHANGED accounts \/ (pc[r] = "save" /\ Insert(r))
  BY <1>1 DEF Save, Fail
<1>2. ASSUME NEW r \in Requests, Save(r) \/ Fail(r)
      PROVE  \A u \in Ruts : accounts[u] # NoAccount => accounts'[u] = accounts[u]
  BY <1>1, <1>2, InsertEffect
<1> QED
  BY <1>2 DEF Next, Step, Begin, ExistsByRut, FindByRut, ValidateCredentials,
              Authorize, Restart, vars

\* No token is ever taken back.
LEMMA IssuedStay == [Next]_vars => issued \subseteq issued'
BY DEF Next, Step, Begin, ExistsByRut, Save, FindByRut, ValidateCredentials, Authorize,
       Fail, Restart, vars
-----------------------------------------------------------------------------
TokensInv == TokensOK /\ TokensAccepted

\* A token stays genuine, because its account stays what it is.
LEMMA GenuineStays ==
    ASSUME TypeInv, TokensOK, [Next]_vars, NEW t \in issued
    PROVE  /\ Active(accounts'[t.rut])
           /\ ToAuthRole[accounts'[t.rut].role] = t.role
BY AccountsStay DEF TokensOK, TypeInv, TypeOK, Token, Active

\* A slot that has neither arrived nor read anything keeps what it knows.
LEMMA FoundStays ==
    ASSUME TypeInv, TokensOK, [Next]_vars, NEW r \in Requests,
           pc'[r] \in {"findByRut", "found"}, pc'[r] = pc[r], job'[r] = job[r],
           found'[r] = found[r], issued \subseteq issued'
    PROVE  /\ pc'[r] = "found" /\ found'[r] # NoAccount =>
                found'[r] = accounts'[job'[r].rut]
           /\ job'[r].op = "canActivate" =>
                [rut |-> job'[r].rut, role |-> job'[r].role] \in issued'
           /\ pc'[r] = "found" /\ job'[r].op = "canActivate" => found'[r] # NoAccount
<1>1. job[r].rut \in Ruts
  BY JobType DEF TypeInv, KindOK
<1> QED
  BY <1>1, AccountsStay DEF TokensOK

LEMMA TokensInit == Init => TokensInv
BY DEF Init, TokensInv, TokensOK, TokensAccepted

LEMMA TokensStep == TypeInv /\ TokensInv /\ [Next]_vars => TokensInv'
<1> SUFFICES ASSUME TypeInv, TokensInv, [Next]_vars PROVE TokensInv'
  OBVIOUS
<1>0. TokensOK /\ TokensAccepted
  BY DEF TokensInv
\* What is shown for a slot that still has to be answered.
<1> DEFINE SlotOK(r) ==
      /\ pc'[r] # "unauthorized"
      /\ pc'[r] = "found" /\ found'[r] # NoAccount => found'[r] = accounts'[job'[r].rut]
      /\ pc'[r] \in {"findByRut", "found"} /\ job'[r].op = "canActivate" =>
           [rut |-> job'[r].rut, role |-> job'[r].role] \in issued'
      /\ pc'[r] = "found" /\ job'[r].op = "canActivate" => found'[r] # NoAccount
<1>1. ASSUME NEW r \in Requests, pc'[r] = pc[r], job'[r] = job[r],
             found'[r] = found[r], issued \subseteq issued'
      PROVE  SlotOK(r)
  BY <1>0, <1>1, FoundStays DEF TokensAccepted
<1>2. ASSUME issued' = issued, \A r \in Requests : SlotOK(r) PROVE TokensInv'
  BY <1>0, <1>2, GenuineStays DEF TokensInv, TokensOK, TokensAccepted
<1>3. ASSUME NEW r \in Requests, NEW j \in Job, Begin(r, j) PROVE TokensInv'
  <2>1. SlotOK(r)
    BY <1>3 DEF Begin, GoTo, TypeInv, TypeOK
  <2>2. \A q \in Requests \ {r} : SlotOK(q)
    BY <1>1, <1>3 DEF Begin, GoTo, TypeInv, TypeOK
  <2> QED
    BY <1>2, <1>3, <2>1, <2>2 DEF Begin
<1>4. ASSUME NEW r \in Requests, ExistsByRut(r) PROVE TokensInv'
  <2>1. SlotOK(r)
    BY <1>4 DEF ExistsByRut, GoTo, TypeInv, TypeOK
  <2>2. \A q \in Requests \ {r} : SlotOK(q)
    BY <1>1, <1>4 DEF ExistsByRut, GoTo, TypeInv, TypeOK
  <2> QED
    BY <1>2, <1>4, <2>1, <2>2 DEF ExistsByRut
<1>5. ASSUME NEW r \in Requests, NEW answer \in Answers \ {"unauthorized"},
             Answer(r, answer), UNCHANGED <<issued, job>>
      PROVE  TokensInv'
  <2>1. SlotOK(r)
    BY <1>5, AnswerSlot DEF TypeInv, Answers
  <2>2. \A q \in Requests \ {r} : SlotOK(q)
    BY <1>1, <1>5, AnswerSlot DEF TypeInv
  <2> QED
    BY <1>2, <1>5, <2>1, <2>2
<1>6. ASSUME NEW r \in Requests, Save(r) PROVE TokensInv'
  BY <1>5, <1>6 DEF Save, Answers
<1>7. ASSUME NEW r \in Requests, FindByRut(r) PROVE TokensInv'
  <2>1. job[r].rut \in Ruts
    BY <1>7, JobType DEF FindByRut, TypeInv, KindOK
  <2>2. job[r].op = "canActivate" =>
          /\ [rut |-> job[r].rut, role |-> job[r].role] \in issued
          /\ accounts[job[r].rut] # NoAccount
    BY <1>0, <1>7 DEF FindByRut, TokensOK, Active
  <2>3. SlotOK(r)
    BY <1>7, <2>1, <2>2 DEF FindByRut, GoTo, TypeInv, TypeOK
  <2>4. \A q \in Requests \ {r} : SlotOK(q)
    BY <1>1, <1>7 DEF FindByRut, GoTo, TypeInv, TypeOK
  <2> QED
    BY <1>2, <1>7, <2>3, <2>4 DEF FindByRut
<1>8. ASSUME NEW r \in Requests, ValidateCredentials(r) PROVE TokensInv'
  <2>1. PICK answer \in {"token", "refused"} : Answer(r, answer)
    BY <1>8 DEF ValidateCredentials
  <2>2. SlotOK(r)
    BY <2>1, AnswerSlot DEF TypeInv, Answers
  <2>3. \A q \in Requests \ {r} : SlotOK(q)
    BY <1>1, <1>8, <2>1, AnswerSlot DEF ValidateCredentials, TypeInv, Answers
  <2>4. ASSUME NEW t \in issued' \ issued
        PROVE  /\ Active(accounts'[t.rut])
               /\ ToAuthRole[accounts'[t.rut].role] = t.role
    <3>1. /\ Active(found[r]) /\ accounts' = accounts
          /\ t = [rut |-> job[r].rut, role |-> ToAuthRole[found[r].role]]
      BY <1>8, <2>4 DEF ValidateCredentials
    <3>2. found[r] = accounts[job[r].rut]
      BY <1>0, <1>8, <3>1 DEF ValidateCredentials, TokensOK, Active
    <3> QED
      BY <3>1, <3>2
  <2>5. issued \subseteq issued'
    BY <1>8 DEF ValidateCredentials
  <2> QED
    BY <1>0, <2>2, <2>3, <2>4, <2>5, GenuineStays DEF TokensInv, TokensOK, TokensAccepted
<1>9. ASSUME NEW r \in Requests, Authorize(r) PROVE TokensInv'
  <2>1. /\ [rut |-> job[r].rut, role |-> job[r].role] \in issued
        /\ found[r] = accounts[job[r].rut]
    BY <1>0, <1>9 DEF Authorize, TokensOK
  <2>2. Active(found[r]) /\ ToAuthRole[found[r].role] = job[r].role
    BY <1>0, <2>1 DEF TokensOK
  <2>3. Answer(r, "forbidden") \/ Answer(r, "authorized")
    BY <1>9, <2>2, RoleNames DEF Authorize
  <2> QED
    BY <1>5, <1>9, <2>3 DEF Authorize, Answers
<1>10. ASSUME NEW r \in Requests, Fail(r) PROVE TokensInv'
  BY <1>5, <1>10 DEF Fail, Answers
<1>11. CASE Restart
  <2>1. \A r \in Requests : SlotOK(r)
    BY <1>0, <1>11 DEF Restart, TypeInv, TypeOK, InFlight, Awaits, TokensAccepted
  <2> QED
    BY <1>2, <1>11, <2>1 DEF Restart
<1>12. CASE UNCHANGED vars
  BY <1>1, <1>2, <1>12 DEF vars
<1> QED
  BY <1>3, <1>4, <1>6, <1>7, <1>8, <1>9, <1>10, <1>11, <1>12 DEF Next, Step

\* No token that login has handed out is ever refused as not genuine.
THEOREM IssuedTokensAccepted == Spec => []TokensAccepted
<1>1. TokensInv => TokensAccepted
  BY DEF TokensInv
<1> QED
  BY <1>1, TypeInit, TypeStep, TokensInit, TokensStep, PTL DEF Spec
-----------------------------------------------------------------------------
AnswersInv == AnswersAreTrue /\ OneWinner

\* What the answer in slot r says.
AnswerTrue(r) ==
    LET account == accounts[job[r].rut] IN
    /\ Created(r) => account = [role |-> job[r].role, status |-> "ACTIVE"]
    /\ pc[r] \in {"duplicate", "kept"} => account # NoAccount
    /\ pc[r] = "token" =>
         /\ Active(account)
         /\ [rut |-> job[r].rut, role |-> ToAuthRole[account.role]] \in issued
    /\ pc[r] \in {"authorized", "forbidden"} =>
         Active(account) /\ GuardRole[account.role] = job[r].role
    /\ pc[r] = "authorized" => Allowed(job[r])

LEMMA AnswersSlotwise == AnswersAreTrue <=> \A r \in Requests : AnswerTrue(r)
BY DEF AnswersAreTrue, AnswerTrue

\* A slot whose answer is none of these says nothing.
Finished == {"created", "duplicate", "kept", "token", "authorized", "forbidden"}

LEMMA SilentSlot ==
    ASSUME NEW r \in Requests, pc'[r] \notin Finished
    PROVE  AnswerTrue(r)' /\ ~Created(r)'
BY DEF AnswerTrue, Finished, Created

\* An answer that was given stays true, whoever takes a step.
LEMMA AnswersKept ==
    ASSUME TypeInv, [Next]_vars, NEW r \in Requests, AnswerTrue(r),
           pc[r] \in Finished, pc'[r] = pc[r], job'[r] = job[r]
    PROVE  AnswerTrue(r)' /\ (Created(r)' => Created(r))
<1>1. job[r].rut \in Ruts /\ pc[r] # "free"
  BY JobType DEF TypeInv, KindOK, Finished
<1>2. accounts[job[r].rut] # NoAccount
  <2>1. [role |-> job[r].role, status |-> "ACTIVE"] \in Account \/ ~Created(r)
    BY <1>1, JobType DEF TypeInv, KindOK, Created, Writes, Account
  <2> QED
    BY <2>1 DEF AnswerTrue, Created, Active, Finished
<1>3. accounts'[job[r].rut] = accounts[job[r].rut]
  BY <1>1, <1>2, AccountsStay
<1>4. issued \subseteq issued'
  BY IssuedStay
<1> QED
  BY <1>3, <1>4 DEF AnswerTrue, Created

LEMMA AnswersStep == TypeInv /\ TokensInv /\ AnswersInv /\ [Next]_vars => AnswersInv'
<1> SUFFICES ASSUME TypeInv, TokensInv, AnswersInv, [Next]_vars PROVE AnswersInv'
  OBVIOUS
<1>0. \A r \in Requests : AnswerTrue(r)
  BY AnswersSlotwise DEF AnswersInv
\* A slot that has not been answered in this step.
<1> DEFINE Quiet(r) == \/ pc'[r] \notin Finished
                       \/ pc'[r] = pc[r] /\ job'[r] = job[r]
<1>1. ASSUME NEW r \in Requests, Quiet(r) PROVE AnswerTrue(r)' /\ (Created(r)' => Created(r))
  BY <1>0, <1>1, AnswersKept, SilentSlot
\* One slot is answered, and not 201.
<1>2. ASSUME NEW r \in Requests, \A q \in Requests \ {r} : Quiet(q),
             AnswerTrue(r)', Created(r)' => Created(r), job'[r] = job[r] \/ ~Created(r)'
      PROVE  AnswersInv'
  <2>1. AnswersAreTrue'
    BY <1>1, <1>2 DEF AnswersAreTrue, AnswerTrue
  <2>2. \A q \in Requests : Created(q)' => Created(q) /\ job'[q] = job[q]
    BY <1>1, <1>2 DEF Finished, Created
  <2>3. OneWinner'
    BY <2>2 DEF AnswersInv, OneWinner
  <2> QED
    BY <2>1, <2>3 DEF AnswersInv
<1>3. ASSUME \A r \in Requests : Quiet(r) PROVE AnswersInv'
  <2>1. AnswersAreTrue'
    BY <1>1, <1>3 DEF AnswersAreTrue, AnswerTrue
  <2>2. \A q \in Requests : Created(q)' => Created(q) /\ job'[q] = job[q]
    BY <1>1, <1>3 DEF Finished, Created
  <2>3. OneWinner'
    BY <2>2 DEF AnswersInv, OneWinner
  <2> QED
    BY <2>1, <2>3 DEF AnswersInv
<1>4. ASSUME NEW r \in Requests, NEW j \in Job, Begin(r, j) PROVE AnswersInv'
  BY <1>3, <1>4 DEF Begin, GoTo, TypeInv, TypeOK, Finished
<1>5. ASSUME NEW r \in Requests, ExistsByRut(r) PROVE AnswersInv'
  <2>1. /\ \A q \in Requests \ {r} : pc'[q] = pc[q]
        /\ job' = job /\ accounts' = accounts
        /\ pc'[r] \in {"save", "duplicate", "kept"}
        /\ pc'[r] # "save" => accounts[job[r].rut] # NoAccount
    BY <1>5 DEF ExistsByRut, GoTo, TypeInv, TypeOK
  <2>2. AnswerTrue(r)' /\ ~Created(r)'
    BY <2>1 DEF AnswerTrue, Created
  <2> QED
    BY <1>2, <2>1, <2>2
<1>6. ASSUME NEW r \in Requests, Save(r) PROVE AnswersInv'
  <2>1. job' = job /\ pc[r] = "save" /\ job[r] \in Job /\ job[r].rut \in Ruts
    BY <1>6, JobType DEF Save, TypeInv, KindOK
  <2>2. CASE Answer(r, "failed")
    <3>1. /\ pc'[r] = "failed"
          /\ \A q \in Requests \ {r} : pc'[q] = pc[q]
      BY <2>2, AnswerSlot DEF TypeInv, Answers
    <3> QED
      BY <1>3, <2>1, <3>1 DEF Finished
  <2>3. CASE Insert(r) /\ ~Answer(r, "failed")
    <3>1. PICK answer \in {"created", "kept"} : Answer(r, answer)
      BY <1>6, <2>3 DEF Save
    <3>2. pc'[r] = answer /\ \A q \in Requests \ {r} : pc'[q] = pc[q]
      BY <3>1, AnswerSlot DEF TypeInv, Answers
    <3>3. /\ accounts[job[r].rut] = NoAccount
          /\ accounts'[job[r].rut] = [role |-> job[r].role, status |-> "ACTIVE"]
          /\ accounts'[job[r].rut] # NoAccount
      BY <2>1, <2>3, InsertEffect DEF NewAccount
    <3>4. \A q \in Requests \ {r} : Created(q) => job[q].rut # job[r].rut
      <4> SUFFICES ASSUME NEW q \in Requests \ {r}, Created(q) PROVE job[q].rut # job[r].rut
        OBVIOUS
      <4>1. accounts[job[q].rut] = [role |-> job[q].role, status |-> "ACTIVE"]
        BY <1>0 DEF AnswerTrue
      <4>2. [role |-> job[q].role, status |-> "ACTIVE"] \in Account
        BY JobType DEF TypeInv, KindOK, Created, Writes, Account
      <4> QED
        BY <3>3, <4>1, <4>2
    <3>5. AnswerTrue(r)'
      BY <2>1, <3>2, <3>3 DEF AnswerTrue
    <3>6. \A q \in Requests \ {r} : AnswerTrue(q)' /\ (Created(q)' => Created(q))
      BY <1>1, <2>1, <3>2
    <3>7. AnswersAreTrue'
      BY <3>5, <3>6 DEF AnswersAreTrue, AnswerTrue
    <3>8. OneWinner'
      BY <2>1, <3>4, <3>6 DEF AnswersInv, OneWinner
    <3> QED
      BY <3>7, <3>8 DEF AnswersInv
  <2> QED
    BY <1>6, <2>2, <2>3 DEF Save
<1>7. ASSUME NEW r \in Requests, FindByRut(r) PROVE AnswersInv'
  BY <1>3, <1>7 DEF FindByRut, GoTo, TypeInv, TypeOK, Finished
<1>8. ASSUME NEW r \in Requests, ValidateCredentials(r) PROVE AnswersInv'
  <2>1. job' = job /\ accounts' = accounts
    BY <1>8 DEF ValidateCredentials
  <2>2. CASE Answer(r, "refused")
    BY <1>3, <2>1, <2>2, AnswerSlot DEF TypeInv, Answers, Finished
  <2>3. CASE Answer(r, "token") /\ ~Answer(r, "refused")
    <3>1. pc'[r] = "token" /\ \A q \in Requests \ {r} : pc'[q] = pc[q]
      BY <2>3, AnswerSlot DEF TypeInv, Answers
    <3>2. /\ Active(found[r])
          /\ [rut |-> job[r].rut, role |-> ToAuthRole[found[r].role]] \in issued'
      BY <1>8, <2>3 DEF ValidateCredentials
    <3>3. found[r] = accounts[job[r].rut]
      BY <1>8, <3>2 DEF ValidateCredentials, TokensInv, TokensOK, Active
    <3>4. AnswerTrue(r)' /\ ~Created(r)'
      BY <2>1, <3>1, <3>2, <3>3 DEF AnswerTrue, Created
    <3> QED
      BY <1>2, <2>1, <3>1, <3>4
  <2> QED
    BY <1>8, <2>2, <2>3 DEF ValidateCredentials
<1>9. ASSUME NEW r \in Requests, Authorize(r) PROVE AnswersInv'
  <2>1. job' = job /\ accounts' = accounts
    BY <1>9 DEF Authorize
  <2>2. found[r] = accounts[job[r].rut]
    BY <1>9 DEF Authorize, TokensInv, TokensOK
  <2>3. PICK answer \in {"unauthorized", "forbidden", "authorized"} :
          /\ Answer(r, answer)
          /\ answer # "unauthorized" =>
               Active(found[r]) /\ GuardRole[found[r].role] = job[r].role
          /\ answer = "authorized" => Allowed(job[r])
    BY <1>9 DEF Authorize
  <2>4. pc'[r] = answer /\ \A q \in Requests \ {r} : pc'[q] = pc[q]
    BY <2>3, AnswerSlot DEF TypeInv, Answers
  <2>5. AnswerTrue(r)' /\ ~Created(r)'
    BY <2>1, <2>2, <2>3, <2>4 DEF AnswerTrue, Created
  <2> QED
    BY <1>2, <2>1, <2>4, <2>5
<1>10. ASSUME NEW r \in Requests, Fail(r) PROVE AnswersInv'
  BY <1>3, <1>10 DEF Fail, Answer, GoTo, TypeInv, TypeOK, Finished
<1>11. CASE Restart
  BY <1>3, <1>11 DEF Restart, TypeInv, TypeOK, Finished
<1>12. CASE UNCHANGED vars
  BY <1>3, <1>12 DEF vars
<1> QED
  BY <1>4, <1>5, <1>6, <1>7, <1>8, <1>9, <1>10, <1>11, <1>12 DEF Next, Step

\* At the beginning nobody has been answered anything.
LEMMA AnswersInit == Init => AnswersInv
BY DEF Init, AnswersInv, AnswersAreTrue, OneWinner, Created

\* However many registrations of a rut and synchronisations overlap, fail or are
\* cut off, at most one is answered 201.
THEOREM RegisteredOnce == Spec => []OneWinner
<1>1. AnswersInv => OneWinner
  BY DEF AnswersInv
<1> QED
  BY <1>1, TypeInit, TypeStep, TokensInit, TokensStep, AnswersInit, AnswersStep, PTL
  DEF Spec

\* What a registration, the synchronisation, a login or the guard has answered is in
\* the users table, and stays true: the account of a 201 or of a token, the existence
\* after a 409, the role of whom the guard recognised.
THEOREM AnswersStayTrue == Spec => []AnswersAreTrue
<1>1. AnswersInv => AnswersAreTrue
  BY DEF AnswersInv
<1> QED
  BY <1>1, TypeInit, TypeStep, TokensInit, TokensStep, AnswersInit, AnswersStep, PTL
  DEF Spec
-----------------------------------------------------------------------------
LEMMA CredentialsInit == Init => CredentialsOK
BY DEF Init, CredentialsOK, StoredHaveCredentials, DemoCredentials

LEMMA CredentialsStep == TypeInv /\ CredentialsOK /\ [Next]_vars => CredentialsOK'
<1> SUFFICES ASSUME TypeInv, CredentialsOK, [Next]_vars PROVE CredentialsOK'
  OBVIOUS
<1> DEFINE Writing == {"existsByRut", "save"}
\* No credential is written: a request only moves on.
<1>1. ASSUME UNCHANGED <<credentials, job, inserted>>,
             \A r \in Requests : pc'[r] \in Writing => pc[r] \in Writing
      PROVE  CredentialsOK'
  BY <1>1 DEF CredentialsOK, StoredHaveCredentials
<1>2. ASSUME NEW r \in Requests, NEW j \in Job, Begin(r, j) PROVE CredentialsOK'
  <2>1. /\ j.rut \in Ruts /\ inserted' = inserted
        /\ pc'[r] \in Writing => j.op \in {"registerUser", "synchronize"}
        /\ job'[r] = j
        /\ \A q \in Requests \ {r} : pc'[q] = pc[q] /\ job'[q] = job[q]
    BY <1>2, JobType DEF Begin, GoTo, TypeInv, TypeOK
  <2>2. \A u \in Ruts : credentials[u] # NoPassword => credentials'[u] # NoPassword
    BY <1>2, JobType DEF Begin, Seeded, TypeInv, TypeOK
  <2>3. pc'[r] \in Writing => credentials'[j.rut] # NoPassword
    BY <1>2, <2>1, JobType DEF Begin, Seeded, TypeInv, TypeOK
  <2>4. \A q \in Requests : pc[q] \in Writing => job[q].rut \in Ruts
    BY JobType DEF TypeInv, KindOK
  <2>5. inserted \cup DOMAIN DemoAccounts \subseteq Ruts
    BY DEF TypeInv, TypeOK
  <2> QED
    BY <2>1, <2>2, <2>3, <2>4, <2>5 DEF CredentialsOK, StoredHaveCredentials
<1>3. ASSUME NEW r \in Requests, ExistsByRut(r) PROVE CredentialsOK'
  BY <1>1, <1>3 DEF ExistsByRut, GoTo, TypeInv, TypeOK
\* An account is inserted whose credential the request has brought along.
<1>4. ASSUME NEW r \in Requests, pc[r] = "save", Insert(r), UNCHANGED <<credentials, job>>,
             \A q \in Requests : pc'[q] \in Writing => pc[q] \in Writing
      PROVE  CredentialsOK'
  BY <1>4, InsertEffect DEF CredentialsOK, StoredHaveCredentials
<1>5. ASSUME NEW r \in Requests, Save(r) PROVE CredentialsOK'
  <2>1. \A q \in Requests : pc'[q] \in Writing => pc[q] \in Writing
    BY <1>5 DEF Save, Answer, GoTo, TypeInv, TypeOK
  <2> QED
    BY <1>1, <1>4, <1>5, <2>1 DEF Save
<1>6. ASSUME NEW r \in Requests, FindByRut(r) PROVE CredentialsOK'
  BY <1>1, <1>6 DEF FindByRut, GoTo, TypeInv, TypeOK
<1>7. ASSUME NEW r \in Requests, ValidateCredentials(r) PROVE CredentialsOK'
  BY <1>1, <1>7 DEF ValidateCredentials, Answer, GoTo, TypeInv, TypeOK
<1>8. ASSUME NEW r \in Requests, Authorize(r) PROVE CredentialsOK'
  BY <1>1, <1>8 DEF Authorize, Answer, GoTo, TypeInv, TypeOK
<1>9. ASSUME NEW r \in Requests, Fail(r) PROVE CredentialsOK'
  <2>1. \A q \in Requests : pc'[q] \in Writing => pc[q] \in Writing
    BY <1>9 DEF Fail, Answer, GoTo, TypeInv, TypeOK
  <2> QED
    BY <1>1, <1>4, <1>9, <2>1 DEF Fail
<1>10. CASE Restart
  <2>1. /\ \A u \in DOMAIN DemoAccounts : credentials'[u] # NoPassword
        /\ inserted' = {}
    BY <1>10 DEF Restart, DemoCredentials
  <2>2. \A r \in Requests : pc'[r] \notin Writing
    BY <1>10 DEF Restart, TypeInv, TypeOK, InFlight, Awaits
  <2> QED
    BY <2>1, <2>2 DEF CredentialsOK, StoredHaveCredentials
<1>11. CASE UNCHANGED vars
  BY <1>1, <1>11 DEF vars
<1> QED
  BY <1>2, <1>3, <1>5, <1>6, <1>7, <1>8, <1>9, <1>10, <1>11 DEF Next, Step

\* Every account the service has stored since it started, by a registration or by the
\* synchronisation and even if the answer was lost, has a credential; so has every
\* account of the demo.
THEOREM StoredCanLogIn == Spec => []StoredHaveCredentials
<1>1. CredentialsOK => StoredHaveCredentials
  BY DEF CredentialsOK
<1> QED
  BY <1>1, TypeInit, TypeStep, CredentialsInit, CredentialsStep, PTL DEF Spec
=============================================================================
