------------------------ MODULE QrAttendance_proofs ------------------------
(***************************************************************************)
(* Theorems about QrAttendance, for any number of students, classes,       *)
(* tokens, readers and corrections, and any clock.                         *)
(***************************************************************************)
EXTENDS QrAttendance, SequenceTheorems, TLAPS

\* The answers after which a slot still says which token it was about.
TokenAnswers == {"created", "duplicate", "alreadyUsed"}

\* A token is signed once, and a scan holds a token that was signed.
TokensOK ==
    /\ \A n \in Nonces : asked[n] # None => claims[n] = None
    /\ \A q \in Readers : Scanning(q) \/ rpc[q] \in TokenAnswers =>
         /\ scanned[q] \in Nonces
         /\ claims[scanned[q]] # None

\* A correction in flight is of a row of the table.
EditsOK == \A e \in Editors : Editing(e) => edit[e] \in Correction /\ edit[e].id \in Ids

TypeInv == TypeOK /\ TokensOK /\ EditsOK

USE EnrolledAssumption, ClockAssumption
-----------------------------------------------------------------------------
\* A token that was signed has claims.
LEMMA ClaimsType ==
    ASSUME TypeInv, NEW n \in Nonces, claims[n] # None
    PROVE  claims[n] \in Claims
BY DEF TypeInv, TypeOK

LEMMA ScanToken ==
    ASSUME TypeInv, NEW q \in Readers, Scanning(q)
    PROVE  /\ scanned[q] \in Nonces
           /\ TokenOf(q) \in Claims
           /\ claims[scanned[q]] # None
BY ClaimsType DEF TypeInv, TokensOK, TokenOf

LEMMA RowType ==
    ASSUME TypeInv, NEW i \in Ids
    PROVE  i \in Nat /\ assistances[i] \in Assistance
<1>1. assistances \in Seq(Assistance)
  BY DEF TypeInv, TypeOK
<1>2. /\ Ids = 1..Len(assistances) /\ Len(assistances) \in Nat
      /\ assistances \in [1..Len(assistances) -> Assistance]
  BY <1>1, LenProperties DEF Ids
<1> QED
  BY <1>2

\* The two things that happen to the table: a row is appended, or the presence of
\* a row is set.
LEMMA AddRowEffect ==
    ASSUME TypeInv, NEW q \in Readers, Scanning(q), AddRow(q)
    PROVE  LET new == Len(assistances) + 1 IN
           /\ assistances' \in Seq(Assistance)
           /\ Ids' = Ids \cup {new}
           /\ Len(assistances') = new /\ new \notin Ids
           /\ \A i \in Ids : assistances'[i] = assistances[i]
           /\ assistances'[new] = [student |-> TokenOf(q).student,
                                   class |-> TokenOf(q).class,
                                   present |-> TRUE, nonce |-> scanned[q]]
<1> DEFINE row == [student |-> TokenOf(q).student, class |-> TokenOf(q).class,
                   present |-> TRUE, nonce |-> scanned[q]]
<1>1. row \in Assistance
  BY ScanToken DEF Assistance, Claims
<1>2. assistances' = Append(assistances, row)
  BY DEF AddRow
<1>3. assistances \in Seq(Assistance)
  BY DEF TypeInv, TypeOK
<1> HIDE DEF row
<1>4. /\ assistances' \in Seq(Assistance)
      /\ Len(assistances') = Len(assistances) + 1
      /\ \A i \in 1..Len(assistances) : assistances'[i] = assistances[i]
      /\ assistances'[Len(assistances) + 1] = row
  BY <1>1, <1>2, <1>3, AppendProperties
<1>5. /\ Len(assistances) \in Nat
      /\ Ids = 1..Len(assistances) /\ Ids' = 1..Len(assistances')
  BY <1>3, <1>4, LenProperties DEF Ids
<1> QED
  BY <1>4, <1>5 DEF row

LEMMA SetPresentEffect ==
    ASSUME TypeInv, NEW i \in Ids, NEW v \in BOOLEAN, SetPresent(i, v)
    PROVE  /\ assistances' \in Seq(Assistance)
           /\ Ids' = Ids /\ Len(assistances') = Len(assistances)
           /\ \A j \in Ids : /\ assistances'[j].student = assistances[j].student
                             /\ assistances'[j].class = assistances[j].class
                             /\ assistances'[j].nonce = assistances[j].nonce
                             /\ assistances'[j].present =
                                  IF j = i THEN v ELSE assistances[j].present
<1> DEFINE row == [assistances[i] EXCEPT !.present = v]
<1>1. assistances \in Seq(Assistance) /\ Ids = 1..Len(assistances)
  BY LenProperties DEF TypeInv, TypeOK, Ids
<1>2. \A j \in Ids : assistances[j] \in Assistance
  BY <1>1, ElementOfSeq
<1>3. row \in Assistance
  BY <1>2 DEF Assistance
<1>4. assistances' = [assistances EXCEPT ![i] = row]
  BY DEF SetPresent
<1> HIDE DEF row
<1>5. /\ assistances' \in Seq(Assistance)
      /\ Len(assistances') = Len(assistances)
      /\ \A j \in 1..Len(assistances) :
           assistances'[j] = IF j = i THEN row ELSE assistances[j]
  BY <1>1, <1>3, <1>4, ExceptSeq
<1>6. Ids' = Ids
  BY <1>1, <1>5, LenProperties DEF Ids
<1>7. /\ row.student = assistances[i].student /\ row.class = assistances[i].class
      /\ row.nonce = assistances[i].nonce /\ row.present = v
  BY <1>2 DEF row, Assistance
<1> QED
  BY <1>1, <1>5, <1>6, <1>7

\* A correction that saves its row sets it, or changes nothing.
LEMMA SaveRowEffect ==
    ASSUME TypeInv, NEW e \in Editors, SaveRow(e)
    PROVE  /\ Editing(e) /\ edit[e].id \in Ids /\ edit[e].present \in BOOLEAN
           /\ \/ SetPresent(edit[e].id, edit[e].present)
              \/ UNCHANGED <<assistances, shown>>
BY DEF SaveRow, TypeInv, EditsOK, Editing, EditAwaits, Correction
-----------------------------------------------------------------------------
LEMMA TypeInit == Init => TypeInv
<1> SUFFICES ASSUME Init PROVE TypeInv
  OBVIOUS
<1>1. TypeOK
  BY EmptySeq DEF Init, TypeOK, ScanAnswers, EditAnswers
<1>2. TokensOK
  BY DEF Init, TokensOK, Scanning, ScanAwaits, TokenAnswers
<1>3. EditsOK
  BY DEF Init, EditsOK, Editing, EditAwaits
<1> QED
  BY <1>1, <1>2, <1>3 DEF TypeInv

\* A step of a scan that leaves tokens and corrections alone and, if it touches
\* the table, appends the row of its token.
LEMMA ScanStepType ==
    ASSUME TypeInv, NEW q \in Readers, Scanning(q),
           NEW pcq \in ScanAwaits \cup ScanAnswers,
           ScanAt(q, pcq) \/ AnswerScan(q, pcq),
           UNCHANGED assistances \/ AddRow(q),
           usedNonces' \in {usedNonces, usedNonces \cup {scanned[q]}},
           UNCHANGED <<sessions, now, asked, claims, scanned, editVars,
                       sawEditing, shown>>
    PROVE  TypeInv'
<1>1. /\ assistances' \in Seq(Assistance)
      /\ Ids \subseteq Ids'
  BY AddRowEffect DEF TypeInv, TypeOK, Ids
<1>2. TypeOK'
  <2>1. usedNonces' \subseteq Nonces
    BY ScanToken DEF TypeInv, TypeOK
  <2>2. /\ rpc' \in [Readers -> ScanAwaits \cup ScanAnswers]
        /\ came' \in [Readers -> Nat]
        /\ sawOpen' \subseteq Readers
    <3>1. CASE ScanAt(q, pcq)
      BY <3>1 DEF TypeInv, TypeOK, ScanAt
    <3>2. CASE AnswerScan(q, pcq)
      BY <3>2 DEF TypeInv, TypeOK, AnswerScan
    <3> QED
      BY <3>1, <3>2
  <2> QED
    BY <1>1, <2>1, <2>2 DEF TypeInv, TypeOK, editVars
<1>3. TokensOK'
  BY ScanToken DEF TypeInv, TypeOK, TokensOK, ScanAt, AnswerScan, Scanning
<1>4. EditsOK'
  BY <1>1 DEF TypeInv, EditsOK, Editing, editVars
<1> QED
  BY <1>2, <1>3, <1>4 DEF TypeInv

\* A step of a correction that leaves scans and tokens alone.
LEMMA EditStepType ==
    ASSUME TypeInv, NEW e \in Editors, Editing(e),
           NEW a \in EditAnswers, AnswerEdit(e, a),
           SaveRow(e) \/ UNCHANGED <<assistances, shown>>,
           UNCHANGED <<sessions, now, asked, claims, usedNonces, scanVars, edit,
                       sawOpen>>
    PROVE  TypeInv'
<1>1. /\ assistances' \in Seq(Assistance) /\ Ids' = Ids
      /\ shown' \in [Editors -> SUBSET BOOLEAN]
  <2>1. CASE UNCHANGED <<assistances, shown>>
    BY <2>1 DEF TypeInv, TypeOK, Ids
  <2>2. CASE edit[e].id \in Ids /\ edit[e].present \in BOOLEAN
             /\ SetPresent(edit[e].id, edit[e].present)
    <3>1. shown' \in [Editors -> SUBSET BOOLEAN]
      BY <2>2 DEF SetPresent, TypeInv, TypeOK
    <3> QED
      BY <2>2, <3>1, SetPresentEffect
  <2> QED
    BY <2>1, <2>2, SaveRowEffect
<1>2. TypeOK'
  BY <1>1 DEF TypeInv, TypeOK, AnswerEdit, scanVars
<1>3. TokensOK'
  BY DEF TypeInv, TokensOK, Scanning, scanVars
<1>4. EditsOK'
  BY <1>1 DEF TypeInv, TypeOK, EditsOK, AnswerEdit, Editing, EditAwaits, EditAnswers
<1> QED
  BY <1>2, <1>3, <1>4 DEF TypeInv

LEMMA TypeStep == TypeInv /\ [Next]_vars => TypeInv'
<1> SUFFICES ASSUME TypeInv, [Next]_vars PROVE TypeInv'
  OBVIOUS
<1>1. ASSUME NEW n \in Nonces, NEW p \in Pair, AskQr(n, p) PROVE TypeInv'
  <2>1. TypeOK'
    BY <1>1 DEF AskQr, TypeInv, TypeOK, scanVars, editVars, watchVars
  <2>2. TokensOK'
    BY <1>1 DEF AskQr, TypeInv, TypeOK, TokensOK, scanVars, Scanning
  <2>3. EditsOK'
    BY <1>1 DEF AskQr, TypeInv, EditsOK, editVars, Editing, Ids
  <2> QED
    BY <2>1, <2>2, <2>3 DEF TypeInv
<1>2. ASSUME NEW n \in Nonces, IssueQr(n) PROVE TypeInv'
  <2>1. [student |-> asked[n].student, class |-> asked[n].class,
         issuedAt |-> now, expiresAt |-> now + Ttl] \in Claims
    BY <1>2 DEF IssueQr, TypeInv, TypeOK, Pair, Claims
  <2>2. TypeOK'
    BY <1>2, <2>1 DEF IssueQr, TypeInv, TypeOK, scanVars, editVars, watchVars
  <2>3. claims[n] = None
    BY <1>2 DEF IssueQr, TypeInv, TokensOK
  <2>4. TokensOK'
    BY <1>2, <2>3 DEF IssueQr, TypeInv, TypeOK, TokensOK, scanVars, Scanning
  <2>5. EditsOK'
    BY <1>2 DEF IssueQr, TypeInv, EditsOK, editVars, Editing, Ids
  <2> QED
    BY <2>2, <2>4, <2>5 DEF TypeInv
<1>3. ASSUME NEW q \in Readers, NEW n \in Nonces, Present(q, n) PROVE TypeInv'
  <2>1. TypeOK'
    <3>1. /\ rpc' \in [Readers -> ScanAwaits \cup ScanAnswers]
          /\ came' \in [Readers -> Nat]
          /\ sawOpen' \subseteq Readers
      <4>1. CASE Verifies(n)
        <5>1. rpc' = [rpc EXCEPT ![q] = "findClass"]
          BY <1>3, <4>1 DEF Present
        <5>2. came' = [came EXCEPT ![q] = now] /\ now \in Nat
          BY <1>3, <4>1 DEF Present, TypeInv, TypeOK
        <5>3. sawOpen' \subseteq sawOpen \cup {q}
          BY <1>3, <4>1 DEF Present
        <5> QED
          BY <5>1, <5>2, <5>3 DEF TypeInv, TypeOK, ScanAwaits
      <4>2. CASE ~Verifies(n)
        <5>1. AnswerScan(q, "refused")
          BY <1>3, <4>2 DEF Present
        <5> QED
          BY <5>1 DEF AnswerScan, TypeInv, TypeOK, ScanAnswers
      <4> QED
        BY <4>1, <4>2
    <3>2. scanned' \in [Readers -> Nonces \cup {None}]
      BY <1>3 DEF Present, TypeInv, TypeOK
    <3> QED
      BY <1>3, <3>1, <3>2 DEF Present, TypeInv, TypeOK, tables, editVars
  <2>2. TokensOK'
    BY <1>3 DEF Present, AnswerScan, TypeInv, TypeOK, TokensOK, tables, Scanning
  <2>3. EditsOK'
    BY <1>3 DEF Present, TypeInv, EditsOK, tables, editVars, Editing, Ids
  <2> QED
    BY <2>1, <2>2, <2>3 DEF TypeInv
<1>4. ASSUME NEW q \in Readers, FindClass(q) PROVE TypeInv'
  BY <1>4, ScanStepType
     DEF FindClass, Scanning, ScanAwaits, ScanAnswers, tables
<1>5. ASSUME NEW q \in Readers, AssistanceExists(q) PROVE TypeInv'
  BY <1>5, ScanStepType
     DEF AssistanceExists, Scanning, ScanAwaits, ScanAnswers, tables
<1>6. ASSUME NEW q \in Readers, ConsumeQrNonce(q) PROVE TypeInv'
  BY <1>6, ScanStepType DEF ConsumeQrNonce, Scanning, ScanAwaits, ScanAnswers
<1>7. ASSUME NEW q \in Readers, InsertAssistance(q) PROVE TypeInv'
  BY <1>7, ScanStepType DEF InsertAssistance, Scanning, ScanAwaits, ScanAnswers
<1>8. ASSUME NEW q \in Readers, FailScan(q) PROVE TypeInv'
  BY <1>8, ScanStepType DEF FailScan, ScanAnswers
<1>9. ASSUME NEW e \in Editors, NEW i \in Ids, NEW v \in BOOLEAN,
             BeginEdit(e, [id |-> i, present |-> v])
      PROVE  TypeInv'
  <2>1. i \in Nat /\ assistances[i].present \in BOOLEAN
    BY RowType DEF Assistance
  <2>2. TypeOK'
    BY <1>9, <2>1 DEF BeginEdit, TypeInv, TypeOK, tables, scanVars, EditAwaits,
                      Correction
  <2>3. TokensOK'
    BY <1>9 DEF BeginEdit, TypeInv, TokensOK, tables, scanVars, Scanning
  <2>4. EditsOK'
    BY <1>9, <2>1 DEF BeginEdit, TypeInv, TypeOK, EditsOK, tables, Editing, Ids,
                      Correction
  <2> QED
    BY <2>2, <2>3, <2>4 DEF TypeInv
<1>10. ASSUME NEW e \in Editors, SelectRow(e) PROVE TypeInv'
  <2>1. edit[e].id \in Ids
    BY <1>10 DEF SelectRow, TypeInv, EditsOK, Editing, EditAwaits
  <2>2. assistances[edit[e].id].present \in BOOLEAN
    BY <2>1, RowType DEF Assistance
  <2>3. TypeOK'
    BY <1>10, <2>2 DEF SelectRow, TypeInv, TypeOK, tables, scanVars, watchVars,
                       EditAwaits
  <2>4. TokensOK'
    BY <1>10 DEF SelectRow, TypeInv, TokensOK, tables, scanVars, Scanning
  <2>5. EditsOK'
    BY <1>10 DEF SelectRow, TypeInv, TypeOK, EditsOK, tables, Editing, Ids,
                 EditAwaits
  <2> QED
    BY <2>3, <2>4, <2>5 DEF TypeInv
<1>11. ASSUME NEW e \in Editors, UpdateRow(e) PROVE TypeInv'
  BY <1>11, EditStepType, SaveRowEffect DEF UpdateRow, EditAnswers
<1>12. ASSUME NEW e \in Editors, FailEdit(e) PROVE TypeInv'
  BY <1>12, EditStepType, SaveRowEffect DEF FailEdit, EditAnswers
<1>13. ASSUME NEW t \in 0..MaxTime, SetClock(t) PROVE TypeInv'
  BY <1>13 DEF SetClock, TypeInv, TypeOK, TokensOK, EditsOK, tables, scanVars,
               editVars, watchVars, Scanning, Editing, Ids
<1>14. ASSUME Crash PROVE TypeInv'
  <2>1. TypeOK'
    BY <1>14 DEF Crash, TypeInv, TypeOK, ScanAnswers, EditAnswers
  <2>2. TokensOK'
    BY <1>14 DEF Crash, TypeInv, TypeOK, TokensOK, Scanning, ScanAwaits, TokenAnswers
  <2>3. EditsOK'
    BY <1>14 DEF Crash, TypeInv, TypeOK, EditsOK, Editing, EditAwaits
  <2> QED
    BY <2>1, <2>2, <2>3 DEF TypeInv
<1>15. ASSUME SessionsChange PROVE TypeInv'
  BY <1>15 DEF SessionsChange, TypeInv, TypeOK, TokensOK, EditsOK, tables,
               scanVars, editVars, Scanning, Editing, Ids
<1>16. CASE UNCHANGED vars
  BY <1>16 DEF vars, TypeInv, TypeOK, TokensOK, EditsOK, tables, scanVars,
               editVars, watchVars, Scanning, Editing, Ids
<1> QED
  BY <1>1, <1>2, <1>3, <1>4, <1>5, <1>6, <1>7, <1>8, <1>9, <1>10, <1>11, <1>12,
     <1>13, <1>14, <1>15, <1>16 DEF Next, Operations, Scan, Correct

\* Tables, slots and histories keep their types through every interleaving of
\* scans and corrections, every failure and crash, and every change of the class
\* rows: a correction never finds its row gone, nor a scan its claims.
THEOREM TypeCorrect == Spec => []TypeOK
<1>1. TypeInv => TypeOK
  BY DEF TypeInv
<1> QED
  BY <1>1, TypeInit, TypeStep, PTL DEF Spec
-----------------------------------------------------------------------------
\* What no step undoes: signed claims, used nonces, and whose a row is.
ClaimsKept == \A n \in Nonces : claims[n] # None => claims'[n] = claims[n]
NoncesKept == usedNonces \subseteq usedNonces'
RowsKept == /\ Ids \subseteq Ids'
            /\ \A i \in Ids : /\ assistances'[i].student = assistances[i].student
                              /\ assistances'[i].class = assistances[i].class
                              /\ assistances'[i].nonce = assistances[i].nonce
SlotKept(q) == rpc'[q] = rpc[q] /\ scanned'[q] = scanned[q]

PastFindClass == {"assistanceExists", "consumeQrNonce", "insertAssistance"}

\* What a slot has been told, and has found out about its student, is true.
SlotTrue(q) ==
    /\ rpc[q] \in PastFindClass => TokenOf(q).student \in Enrolled[TokenOf(q).class]
    /\ rpc[q] \in {"created", "duplicate"} =>
         Recorded(TokenOf(q).student, TokenOf(q).class)
    /\ rpc[q] \in {"created", "alreadyUsed"} => scanned[q] \in usedNonces

TableInv == /\ OneRecordPerStudentClass
            /\ NonceSpentOnce
            /\ RecordsMatchTokens
            /\ \A q \in Readers : SlotTrue(q)

Secured == PastFindClass \cup TokenAnswers

LEMMA UnchangedRows ==
    ASSUME UNCHANGED assistances PROVE RowsKept /\ Ids' = Ids
BY DEF RowsKept, Ids

LEMMA AddRowKeeps ==
    ASSUME TypeInv, NEW q \in Readers, Scanning(q), AddRow(q)
    PROVE  RowsKept
BY AddRowEffect DEF RowsKept

LEMMA SaveRowKeeps ==
    ASSUME TypeInv, NEW e \in Editors, SaveRow(e)
    PROVE  RowsKept /\ Ids' = Ids
<1>1. CASE UNCHANGED <<assistances, shown>>
  BY <1>1, UnchangedRows
<1>2. CASE SetPresent(edit[e].id, edit[e].present)
  BY <1>2, SaveRowEffect, SetPresentEffect DEF RowsKept
<1> QED
  BY <1>1, <1>2, SaveRowEffect

LEMMA RecordedKept ==
    ASSUME RowsKept, NEW s, NEW c, Recorded(s, c) PROVE Recorded(s, c)'
BY DEF RowsKept, Recorded

LEMMA TokenKept ==
    ASSUME TypeInv, ClaimsKept, NEW q \in Readers, SlotKept(q),
           Scanning(q) \/ rpc[q] \in TokenAnswers
    PROVE  TokenOf(q)' = TokenOf(q)
BY DEF TypeInv, TokensOK, ClaimsKept, SlotKept, TokenOf

LEMMA SlotTrueKept ==
    ASSUME TypeInv, ClaimsKept, NoncesKept, RowsKept,
           NEW q \in Readers, SlotTrue(q), SlotKept(q) \/ rpc'[q] \notin Secured
    PROVE  SlotTrue(q)'
<1>1. CASE rpc'[q] \notin Secured
  BY <1>1 DEF SlotTrue, Secured, TokenAnswers
<1>2. CASE SlotKept(q) /\ rpc[q] \in Secured
  <2>1. TokenOf(q)' = TokenOf(q)
    BY <1>2, TokenKept DEF Secured, PastFindClass, Scanning, ScanAwaits
  <2>2. Recorded(TokenOf(q).student, TokenOf(q).class)
        => Recorded(TokenOf(q).student, TokenOf(q).class)'
    BY <2>1, RecordedKept
  <2> QED
    BY <1>2, <2>1, <2>2 DEF SlotTrue, SlotKept, NoncesKept
<1> QED
  BY <1>1, <1>2 DEF SlotKept

LEMMA MatchKept ==
    ASSUME TypeInv, RecordsMatchTokens, ClaimsKept, RowsKept, Ids' = Ids
    PROVE  RecordsMatchTokens'
<1>1. \A i \in Ids : assistances[i].nonce \in Nonces
  BY RowType DEF Assistance
<1> QED
  BY <1>1 DEF RecordsMatchTokens, ClaimsKept, RowsKept

\* A step that adds no row and brings no slot further than findClass.
LEMMA QuietStep ==
    ASSUME TypeInv, TableInv, ClaimsKept, NoncesKept, RowsKept, Ids' = Ids,
           \A q \in Readers : SlotKept(q) \/ rpc'[q] \notin Secured
    PROVE  TableInv'
<1>1. OneRecordPerStudentClass'
  BY DEF TableInv, OneRecordPerStudentClass, RowsKept
<1>2. \A q \in Readers, n \in Nonces : Holds(q, n)' => Holds(q, n)
  BY DEF Holds, SlotKept, Secured, PastFindClass
<1>3. NonceSpentOnce'
  BY <1>2 DEF TableInv, NonceSpentOnce, NoncesKept, RowsKept
<1>4. RecordsMatchTokens'
  BY MatchKept DEF TableInv
<1>5. \A q \in Readers : SlotTrue(q)'
  BY SlotTrueKept DEF TableInv
<1> QED
  BY <1>1, <1>3, <1>4, <1>5 DEF TableInv

\* The row of a scan that holds its nonce: that scan gives the nonce up.
LEMMA InsertStep ==
    ASSUME TypeInv, TableInv, NEW q \in Readers,
           rpc[q] = "insertAssistance", AddRow(q),
           NEW a \in {"created", "failed"}, rpc' = [rpc EXCEPT ![q] = a],
           UNCHANGED <<claims, usedNonces, scanned>>
    PROVE  TableInv'
<1> DEFINE new == Len(assistances) + 1
           n == scanned[q]
<1>1. Scanning(q) /\ Holds(q, n)
  BY DEF Scanning, ScanAwaits, Holds
<1>2. /\ n \in Nonces /\ claims[n] # None
      /\ TokenOf(q) = claims[n]
  BY <1>1, ScanToken DEF TokenOf
<1>3. /\ Ids' = Ids \cup {new} /\ new \notin Ids
      /\ \A i \in Ids : assistances'[i] = assistances[i]
      /\ assistances'[new] = [student |-> TokenOf(q).student,
                              class |-> TokenOf(q).class,
                              present |-> TRUE, nonce |-> n]
  BY <1>1, AddRowEffect
<1>4. ClaimsKept /\ NoncesKept /\ RowsKept
  BY <1>3 DEF ClaimsKept, NoncesKept, RowsKept
<1>5. /\ ~Recorded(TokenOf(q).student, TokenOf(q).class)
      /\ TokenOf(q).student \in Enrolled[TokenOf(q).class]
  BY DEF AddRow, TableInv, SlotTrue, PastFindClass
<1>6. \A p \in Readers \ {q} : SlotKept(p)
  BY DEF SlotKept, TypeInv, TypeOK
<1>7. OneRecordPerStudentClass'
  BY <1>3, <1>5 DEF TableInv, OneRecordPerStudentClass, Recorded
<1>8. NonceSpentOnce'
  <2>1. \A p \in Readers, m \in Nonces :
          Holds(p, m)' => Holds(p, m) /\ p # q
    BY <1>6 DEF Holds, SlotKept, TypeInv, TypeOK
  <2>2. /\ n \in usedNonces
        /\ \A p \in Readers \ {q} : ~Holds(p, n)
        /\ \A i \in Ids : assistances[i].nonce # n
    BY <1>1, <1>2 DEF TableInv, NonceSpentOnce
  <2> QED
    BY <1>3, <2>1, <2>2 DEF TableInv, NonceSpentOnce
<1>9. RecordsMatchTokens'
  BY <1>2, <1>3, <1>5 DEF TableInv, RecordsMatchTokens
<1>10. \A p \in Readers : SlotTrue(p)'
  <2>1. ASSUME NEW p \in Readers \ {q} PROVE SlotTrue(p)'
    BY <1>4, <1>6, SlotTrueKept DEF TableInv
  <2>2. Recorded(TokenOf(q).student, TokenOf(q).class)'
    BY <1>2, <1>3 DEF Recorded, TokenOf
  <2>3. scanned[q] \in usedNonces
    BY <1>1, <1>2 DEF TableInv, NonceSpentOnce
  <2>4. SlotTrue(q)'
    BY <2>2, <2>3 DEF SlotTrue, TypeInv, TypeOK, PastFindClass
  <2> QED
    BY <2>1, <2>4
<1> QED
  BY <1>7, <1>8, <1>9, <1>10 DEF TableInv

\* A scan goes on to its next await, or is answered, without adding a row; only
\* consumeQrNonce brings it to its insertion, with a nonce nobody had used.
LEMMA AdvanceStep ==
    ASSUME TypeInv, TableInv, NEW q \in Readers, NEW a,
           rpc' = [rpc EXCEPT ![q] = a], UNCHANGED <<claims, scanned, assistances>>,
           NoncesKept, SlotTrue(q)',
           a = "insertAssistance" =>
             /\ scanned[q] \notin usedNonces
             /\ scanned[q] \in usedNonces'
    PROVE  TableInv'
<1>1. ClaimsKept /\ RowsKept /\ Ids' = Ids
  BY UnchangedRows DEF ClaimsKept
<1>2. \A p \in Readers \ {q} : SlotKept(p)
  BY DEF SlotKept, TypeInv, TypeOK
<1>3. OneRecordPerStudentClass'
  BY <1>1 DEF TableInv, OneRecordPerStudentClass
<1>4. NonceSpentOnce'
  <2>1. /\ \A p \in Readers \ {q}, m \in Nonces : Holds(p, m)' => Holds(p, m)
        /\ \A m \in Nonces :
             Holds(q, m)' => m = scanned[q] /\ a = "insertAssistance"
    <3>1. rpc'[q] = a
      BY DEF TypeInv, TypeOK
    <3> QED
      BY <1>2, <3>1 DEF Holds, SlotKept
  <2>2. scanned[q] \notin usedNonces /\ scanned[q] \in Nonces =>
          /\ \A p \in Readers : ~Holds(p, scanned[q])
          /\ \A i \in Ids : assistances[i].nonce # scanned[q]
    BY DEF TableInv, NonceSpentOnce
  <2> QED
    BY <1>1, <2>1, <2>2 DEF TableInv, NonceSpentOnce, NoncesKept
<1>5. RecordsMatchTokens'
  BY <1>1, MatchKept DEF TableInv
<1>6. \A p \in Readers : SlotTrue(p)'
  BY <1>1, <1>2, SlotTrueKept DEF TableInv
<1> QED
  BY <1>3, <1>4, <1>5, <1>6 DEF TableInv

LEMMA TableInit == Init => TableInv
BY DEF Init, TableInv, OneRecordPerStudentClass, NonceSpentOnce, Holds,
       RecordsMatchTokens, SlotTrue, PastFindClass, Ids

LEMMA TableStep == TypeInv /\ TableInv /\ [Next]_vars => TableInv'
<1> SUFFICES ASSUME TypeInv, TableInv, [Next]_vars PROVE TableInv'
  OBVIOUS
\* Steps that leave scans and used nonces alone.
<1>1. ASSUME RowsKept, Ids' = Ids, ClaimsKept, UNCHANGED <<usedNonces, rpc, scanned>>
      PROVE  TableInv'
  BY <1>1, QuietStep DEF NoncesKept, SlotKept
<1>2. ASSUME NEW n \in Nonces, NEW p \in Pair, AskQr(n, p) PROVE TableInv'
  BY <1>1, <1>2, UnchangedRows DEF AskQr, ClaimsKept, scanVars
<1>3. ASSUME NEW n \in Nonces, IssueQr(n) PROVE TableInv'
  <2>1. ClaimsKept
    BY <1>3 DEF IssueQr, ClaimsKept, TypeInv, TypeOK, TokensOK
  <2> QED
    BY <1>1, <1>3, <2>1, UnchangedRows DEF IssueQr, scanVars
<1>4. ASSUME NEW q \in Readers, NEW n \in Nonces, Present(q, n) PROVE TableInv'
  <2>1. \A p \in Readers \ {q} : SlotKept(p)
    BY <1>4 DEF Present, AnswerScan, SlotKept, TypeInv, TypeOK
  <2>2. rpc'[q] \notin Secured
    BY <1>4 DEF Present, AnswerScan, TypeInv, TypeOK, Secured, PastFindClass,
                TokenAnswers
  <2> QED
    BY <1>4, <2>1, <2>2, QuietStep, UnchangedRows
       DEF Present, tables, ClaimsKept, NoncesKept
\* Answers that say nothing about the token, or go on as before.
<1>5. ASSUME NEW q \in Readers, NEW a, a \notin Secured,
             rpc' = [rpc EXCEPT ![q] = a], NoncesKept,
             UNCHANGED <<claims, scanned, assistances>>
      PROVE  TableInv'
  BY <1>5, AdvanceStep DEF SlotTrue, Secured, PastFindClass, TokenAnswers,
                           TypeInv, TypeOK
<1>6. ASSUME NEW q \in Readers, FindClass(q) PROVE TableInv'
  <2>1. CASE AnswerScan(q, "refused")
    BY <1>5, <1>6, <2>1 DEF FindClass, AnswerScan, NoncesKept, tables, Secured,
                            PastFindClass, TokenAnswers
  <2>2. CASE /\ TokenOf(q).student \in Enrolled[TokenOf(q).class]
             /\ ScanAt(q, "assistanceExists")
    <3>1. SlotTrue(q)'
      BY <1>6, <2>2 DEF FindClass, ScanAt, SlotTrue, TokenOf, tables, TypeInv,
                        TypeOK
    <3> QED
      BY <1>6, <2>2, <3>1, AdvanceStep DEF FindClass, ScanAt, NoncesKept, tables
  <2> QED
    BY <1>6, <2>1, <2>2 DEF FindClass
<1>7. ASSUME NEW q \in Readers, AssistanceExists(q) PROVE TableInv'
  <2>1. TokenOf(q)' = TokenOf(q) /\ UNCHANGED <<assistances, usedNonces>>
    BY <1>7 DEF AssistanceExists, TokenOf, tables
  <2>2. TokenOf(q).student \in Enrolled[TokenOf(q).class]
    BY <1>7 DEF AssistanceExists, TableInv, SlotTrue, PastFindClass
  <2>3. CASE Recorded(TokenOf(q).student, TokenOf(q).class)
             /\ AnswerScan(q, "duplicate")
    <3>1. SlotTrue(q)'
      BY <2>1, <2>3 DEF AnswerScan, SlotTrue, Recorded, PastFindClass, Ids,
                        TypeInv, TypeOK
    <3> QED
      BY <1>7, <2>3, <3>1, AdvanceStep
         DEF AssistanceExists, AnswerScan, NoncesKept, tables
  <2>4. CASE ScanAt(q, "consumeQrNonce")
    <3>1. SlotTrue(q)'
      BY <2>1, <2>2, <2>4 DEF ScanAt, SlotTrue, TypeInv, TypeOK
    <3> QED
      BY <1>7, <2>4, <3>1, AdvanceStep
         DEF AssistanceExists, ScanAt, NoncesKept, tables
  <2> QED
    BY <1>7, <2>3, <2>4 DEF AssistanceExists
<1>8. ASSUME NEW q \in Readers, ConsumeQrNonce(q) PROVE TableInv'
  <2>1. /\ TokenOf(q)' = TokenOf(q) /\ NoncesKept
        /\ scanned'[q] \in usedNonces'
    BY <1>8 DEF ConsumeQrNonce, TokenOf, NoncesKept
  <2>2. TokenOf(q).student \in Enrolled[TokenOf(q).class]
    BY <1>8 DEF ConsumeQrNonce, TableInv, SlotTrue, PastFindClass
  <2>3. CASE AnswerScan(q, "alreadyUsed")
    <3>1. SlotTrue(q)'
      BY <2>1, <2>3 DEF AnswerScan, SlotTrue, PastFindClass, TypeInv, TypeOK
    <3> QED
      BY <1>8, <2>1, <2>3, <3>1, AdvanceStep DEF ConsumeQrNonce, AnswerScan
  <2>4. CASE scanned[q] \notin usedNonces /\ ScanAt(q, "insertAssistance")
    <3>1. SlotTrue(q)'
      BY <2>1, <2>2, <2>4 DEF ScanAt, SlotTrue, TypeInv, TypeOK
    <3> QED
      BY <1>8, <2>1, <2>4, <3>1, AdvanceStep DEF ConsumeQrNonce, ScanAt
  <2> QED
    BY <1>8, <2>3, <2>4 DEF ConsumeQrNonce
<1>9. ASSUME NEW q \in Readers, InsertAssistance(q) PROVE TableInv'
  <2>1. CASE AnswerScan(q, "failed") /\ UNCHANGED assistances
    BY <1>5, <1>9, <2>1 DEF InsertAssistance, AnswerScan, NoncesKept, Secured,
                            PastFindClass, TokenAnswers
  <2>2. CASE AddRow(q) /\ AnswerScan(q, "created")
    BY <1>9, <2>2, InsertStep DEF InsertAssistance, AnswerScan
  <2> QED
    BY <1>9, <2>1, <2>2 DEF InsertAssistance
<1>10. ASSUME NEW q \in Readers, FailScan(q) PROVE TableInv'
  <2>1. CASE UNCHANGED assistances
    BY <1>5, <1>10, <2>1 DEF FailScan, AnswerScan, NoncesKept, Secured,
                             PastFindClass, TokenAnswers
  <2>2. CASE rpc[q] = "insertAssistance" /\ AddRow(q) /\ UNCHANGED usedNonces
    BY <1>10, <2>2, InsertStep DEF FailScan, AnswerScan
  <2> QED
    BY <1>10, <2>1, <2>2 DEF FailScan
<1>11. ASSUME NEW e \in Editors, NEW i \in Ids, NEW v \in BOOLEAN,
              BeginEdit(e, [id |-> i, present |-> v])
       PROVE  TableInv'
  BY <1>1, <1>11, UnchangedRows DEF BeginEdit, ClaimsKept, tables, scanVars
<1>12. ASSUME NEW e \in Editors, SelectRow(e) PROVE TableInv'
  BY <1>1, <1>12, UnchangedRows DEF SelectRow, ClaimsKept, tables, scanVars
<1>13. ASSUME NEW e \in Editors, UpdateRow(e) PROVE TableInv'
  BY <1>1, <1>13, SaveRowKeeps DEF UpdateRow, ClaimsKept, scanVars
<1>14. ASSUME NEW e \in Editors, FailEdit(e) PROVE TableInv'
  BY <1>1, <1>14, SaveRowKeeps, UnchangedRows DEF FailEdit, ClaimsKept, scanVars
<1>15. ASSUME NEW t \in 0..MaxTime, SetClock(t) PROVE TableInv'
  BY <1>1, <1>15, UnchangedRows DEF SetClock, ClaimsKept, tables, scanVars
<1>16. ASSUME Crash PROVE TableInv'
  <2>1. \A q \in Readers : SlotKept(q) \/ rpc'[q] \notin Secured
    BY <1>16 DEF Crash, SlotKept, Secured, PastFindClass, TokenAnswers, TypeInv,
                 TypeOK
  <2> QED
    BY <1>16, <2>1, QuietStep, UnchangedRows DEF Crash, ClaimsKept, NoncesKept
<1>17. ASSUME SessionsChange PROVE TableInv'
  BY <1>1, <1>17, UnchangedRows DEF SessionsChange, ClaimsKept, tables, scanVars
<1>18. CASE UNCHANGED vars
  BY <1>1, <1>18, UnchangedRows DEF vars, ClaimsKept, tables, scanVars
<1> QED
  BY <1>2, <1>3, <1>4, <1>6, <1>7, <1>8, <1>9, <1>10, <1>11, <1>12, <1>13, <1>14,
     <1>15, <1>16, <1>17, <1>18 DEF Next, Operations, Scan, Correct

\* Two tokens of one student, one token at two readers, a scan repeated after a
\* failure or a crash: the table never holds two rows of a student and class.
THEOREM OneRecord == Spec => []OneRecordPerStudentClass
<1>1. TableInv => OneRecordPerStudentClass
  BY DEF TableInv
<1> QED
  BY <1>1, TypeInit, TypeStep, TableInit, TableStep, PTL DEF Spec

\* A nonce is held by at most one scan between consumeQrNonce and insertAssistance,
\* or stands behind at most one row, and not both.
THEOREM NoncesAreSpentOnce == Spec => []NonceSpentOnce
<1>1. TableInv => NonceSpentOnce
  BY DEF TableInv
<1> QED
  BY <1>1, TypeInit, TypeStep, TableInit, TableStep, PTL DEF Spec

\* Every row is of the student and class its token was signed for, and enrolled.
THEOREM RecordsComeFromTokens == Spec => []RecordsMatchTokens
<1>1. TableInv => RecordsMatchTokens
  BY DEF TableInv
<1> QED
  BY <1>1, TypeInit, TypeStep, TableInit, TableStep, PTL DEF Spec

\* What a reader was told by 201 and by either 409 stays true for good.
THEOREM AnswersStayTrue == Spec => []AnswersAreTrue
<1>1. TableInv => AnswersAreTrue
  BY DEF TableInv, SlotTrue, AnswersAreTrue
<1> QED
  BY <1>1, TypeInit, TypeStep, TableInit, TableStep, PTL DEF Spec
-----------------------------------------------------------------------------
\* A scan in flight came in time, and has seen its class open once it is past
\* findClass; where the class is open now, it has seen so.
ScanWatched(q) ==
    /\ Scanning(q) =>
         /\ came[q] < TokenOf(q).expiresAt
         /\ came[q] + Skew >= TokenOf(q).issuedAt
         /\ Open(TokenOf(q).class, "registrationStatus") => q \in sawOpen
    /\ rpc[q] \in PastFindClass => q \in sawOpen

ScansWatched == \A q \in Readers : ScanWatched(q)

\* A correction in flight has seen its window open; what its row holds, and what it
\* has read of it, its row has shown.
EditWatched(e) ==
    /\ Editing(e) => /\ e \in sawEditing
                     /\ assistances[edit[e].id].present \in shown[e]
    /\ epc[e] = "updateRow" => image[e] \in shown[e]
    /\ epc[e] = "ok" => edit[e].present \in shown[e]

EditsWatched == \A e \in Editors : EditWatched(e)

\* A scan that stays where it is, or goes to an await it has earned.
LEMMA ScanWatchedKept ==
    ASSUME TypeInv, ClaimsKept, NEW q \in Readers, ScanWatched(q),
           \/ rpc'[q] \notin ScanAwaits
           \/ /\ Scanning(q) /\ UNCHANGED <<scanned, came, sessions>>
              /\ q \in sawOpen => q \in sawOpen'
              /\ rpc'[q] \in PastFindClass =>
                   rpc[q] \in PastFindClass \/ q \in sawOpen
    PROVE  ScanWatched(q)'
<1>1. CASE rpc'[q] \notin ScanAwaits
  BY <1>1 DEF ScanWatched, Scanning, ScanAwaits, PastFindClass
<1>2. CASE /\ Scanning(q) /\ UNCHANGED <<scanned, came, sessions>>
           /\ q \in sawOpen => q \in sawOpen'
           /\ rpc'[q] \in PastFindClass => rpc[q] \in PastFindClass \/ q \in sawOpen
  <2>1. TokenOf(q)' = TokenOf(q)
    BY <1>2, ScanToken DEF ClaimsKept, TokenOf
  <2> QED
    BY <1>2, <2>1 DEF ScanWatched, Open
<1> QED
  BY <1>1, <1>2

\* Steps of one scan; of corrections, the clock and new tokens.
LEMMA OtherScansWatched ==
    ASSUME TypeInv, ScansWatched, ClaimsKept, NEW S \in SUBSET Readers,
           \A q \in Readers \ S : /\ rpc'[q] = rpc[q] /\ scanned'[q] = scanned[q]
                                  /\ came'[q] = came[q]
                                  /\ q \in sawOpen => q \in sawOpen',
           UNCHANGED sessions
    PROVE  \A q \in Readers \ S : ScanWatched(q)'
<1> SUFFICES ASSUME NEW q \in Readers \ S PROVE ScanWatched(q)'
  OBVIOUS
<1>1. ScanWatched(q)
  BY DEF ScansWatched
<1>2. CASE Scanning(q)
  <2>1. TokenOf(q)' = TokenOf(q)
    BY <1>2, ScanToken DEF ClaimsKept, TokenOf
  <2> QED
    BY <1>1, <1>2, <2>1 DEF ScanWatched, Scanning, Open
<1>3. CASE ~Scanning(q)
  BY <1>3 DEF ScanWatched, Scanning, ScanAwaits, PastFindClass
<1> QED
  BY <1>2, <1>3

LEMMA ScansWatchedInit == Init => ScansWatched
BY DEF Init, ScansWatched, ScanWatched, Scanning, ScanAwaits, PastFindClass

LEMMA ScansWatchedStep ==
    TypeInv /\ ScansWatched /\ [Next]_vars => ScansWatched'
<1> SUFFICES ASSUME TypeInv, ScansWatched, [Next]_vars PROVE ScansWatched'
  OBVIOUS
\* Steps that leave scans and classes alone.
<1>1. ASSUME ClaimsKept, UNCHANGED <<sessions, rpc, scanned, came, sawOpen>>
      PROVE  ScansWatched'
  BY <1>1, OtherScansWatched DEF ScansWatched
\* Steps of one scan in flight.
<1>2. ASSUME NEW q \in Readers, Scanning(q), NEW a,
             \/ ScanAt(q, a) /\ (rpc[q] \in PastFindClass \/ q \in sawOpen)
             \/ AnswerScan(q, a) /\ a \notin ScanAwaits,
             UNCHANGED <<sessions, claims, scanned>>
      PROVE  ScansWatched'
  <2>1. ClaimsKept
    BY <1>2 DEF ClaimsKept
  <2>2. \A p \in Readers \ {q} : ScanWatched(p)'
    <3>1. \A p \in Readers \ {q} :
            /\ rpc'[p] = rpc[p] /\ scanned'[p] = scanned[p] /\ came'[p] = came[p]
            /\ p \in sawOpen => p \in sawOpen'
      BY <1>2 DEF ScanAt, AnswerScan, TypeInv, TypeOK
    <3>2. {q} \in SUBSET Readers
      OBVIOUS
    <3> QED
      BY <1>2, <2>1, <3>1, <3>2, OtherScansWatched
  <2>3. ASSUME ScanAt(q, a), rpc[q] \in PastFindClass \/ q \in sawOpen
        PROVE  ScanWatched(q)'
    <3>1. ScanWatched(q) /\ UNCHANGED <<scanned, came, sessions, sawOpen>>
      BY <1>2, <2>3 DEF ScanAt, ScansWatched
    <3> QED
      BY <1>2, <2>1, <2>3, <3>1, ScanWatchedKept
  <2>4. ASSUME AnswerScan(q, a), a \notin ScanAwaits PROVE ScanWatched(q)'
    <3>1. ScanWatched(q) /\ rpc'[q] = a
      BY <2>4 DEF AnswerScan, ScansWatched, TypeInv, TypeOK
    <3> QED
      BY <2>1, <2>4, <3>1, ScanWatchedKept
  <2>5. ScanWatched(q)'
    BY <1>2, <2>3, <2>4
  <2> QED
    BY <2>2, <2>5 DEF ScansWatched
<1>3. ASSUME NEW n \in Nonces, NEW p \in Pair, AskQr(n, p) PROVE ScansWatched'
  BY <1>1, <1>3 DEF AskQr, ClaimsKept, scanVars, watchVars
<1>4. ASSUME NEW n \in Nonces, IssueQr(n) PROVE ScansWatched'
  <2>1. ClaimsKept
    BY <1>4 DEF IssueQr, ClaimsKept, TypeInv, TypeOK, TokensOK
  <2> QED
    BY <1>1, <1>4, <2>1 DEF IssueQr, scanVars, watchVars
<1>5. ASSUME NEW q \in Readers, NEW n \in Nonces, Present(q, n) PROVE ScansWatched'
  <2>1. ClaimsKept
    BY <1>5 DEF Present, tables, ClaimsKept
  <2>2. \A p \in Readers \ {q} : ScanWatched(p)'
    <3>1. \A p \in Readers \ {q} :
            /\ rpc'[p] = rpc[p] /\ scanned'[p] = scanned[p] /\ came'[p] = came[p]
            /\ p \in sawOpen => p \in sawOpen'
      BY <1>5 DEF Present, AnswerScan, TypeInv, TypeOK
    <3>2. {q} \in SUBSET Readers /\ UNCHANGED sessions
      BY <1>5 DEF Present
    <3> QED
      BY <2>1, <3>1, <3>2, OtherScansWatched
  <2>3. ASSUME Verifies(n) PROVE ScanWatched(q)'
    <3>1. /\ rpc'[q] = "findClass" /\ came'[q] = now
          /\ TokenOf(q)' = claims[n] /\ sessions' = sessions
          /\ Open(claims[n].class, "registrationStatus") => q \in sawOpen'
      BY <1>5, <2>3 DEF Present, TypeInv, TypeOK, TokenOf, tables
    <3>2. now < claims[n].expiresAt /\ now + Skew >= claims[n].issuedAt
      BY <1>5, <2>3, ClaimsType DEF Verifies, Claims, TypeInv, TypeOK
    <3>3. Open(TokenOf(q).class, "registrationStatus")' => q \in sawOpen'
      BY <3>1 DEF Open
    <3>4. rpc'[q] \notin PastFindClass
      BY <3>1 DEF PastFindClass
    <3> QED
      BY <3>1, <3>2, <3>3, <3>4 DEF ScanWatched
  <2>4. ASSUME ~Verifies(n) PROVE ScanWatched(q)'
    <3>1. ScanWatched(q) /\ rpc'[q] \notin ScanAwaits
      BY <1>5, <2>4 DEF Present, AnswerScan, ScansWatched, ScanAwaits, TypeInv, TypeOK
    <3> QED
      BY <2>1, <3>1, ScanWatchedKept
  <2> QED
    BY <2>2, <2>3, <2>4 DEF ScansWatched
<1>6. ASSUME NEW q \in Readers, FindClass(q) PROVE ScansWatched'
  <2>1. Scanning(q) /\ "refused" \notin ScanAwaits
    BY <1>6 DEF FindClass, Scanning, ScanAwaits
  <2>2. Open(TokenOf(q).class, "registrationStatus") => q \in sawOpen
    BY <2>1 DEF ScansWatched, ScanWatched
  <2> QED
    BY <1>2, <1>6, <2>1, <2>2 DEF FindClass, tables
<1>7. ASSUME NEW q \in Readers, AssistanceExists(q) PROVE ScansWatched'
  BY <1>2, <1>7 DEF AssistanceExists, tables, Scanning, ScanAwaits, PastFindClass
<1>8. ASSUME NEW q \in Readers, ConsumeQrNonce(q) PROVE ScansWatched'
  BY <1>2, <1>8 DEF ConsumeQrNonce, Scanning, ScanAwaits, PastFindClass
<1>9. ASSUME NEW q \in Readers, InsertAssistance(q) PROVE ScansWatched'
  BY <1>2, <1>9 DEF InsertAssistance, Scanning, ScanAwaits
<1>10. ASSUME NEW q \in Readers, FailScan(q) PROVE ScansWatched'
  BY <1>2, <1>10 DEF FailScan, ScanAwaits
<1>11. ASSUME NEW e \in Editors, Correct(e) PROVE ScansWatched'
  BY <1>1, <1>11 DEF Correct, BeginEdit, SelectRow, UpdateRow, FailEdit, AnswerEdit,
                     ClaimsKept, tables, scanVars, watchVars
<1>12. ASSUME NEW t \in 0..MaxTime, SetClock(t) PROVE ScansWatched'
  BY <1>1, <1>12 DEF SetClock, ClaimsKept, tables, scanVars, watchVars
<1>13. ASSUME Crash PROVE ScansWatched'
  <2>1. \A q \in Readers : rpc'[q] \notin ScanAwaits
    BY <1>13 DEF Crash, Scanning, ScanAwaits, TypeInv, TypeOK
  <2>2. ClaimsKept
    BY <1>13 DEF Crash, ClaimsKept
  <2> QED
    BY <2>1, <2>2, ScanWatchedKept DEF ScansWatched
<1>14. ASSUME SessionsChange PROVE ScansWatched'
  <2> SUFFICES ASSUME NEW q \in Readers PROVE ScanWatched(q)'
    BY DEF ScansWatched
  <2>1. /\ TokenOf(q)' = TokenOf(q) /\ UNCHANGED <<rpc, came>>
        /\ sawOpen \subseteq sawOpen'
        /\ Scanning(q) /\ Enables(sessions'[TokenOf(q).class], "registrationStatus")
             => q \in sawOpen'
    BY <1>14 DEF SessionsChange, tables, scanVars, TokenOf
  <2> QED
    BY <2>1 DEF ScansWatched, ScanWatched, Scanning, Open, Enables
<1>15. CASE UNCHANGED vars
  BY <1>1, <1>15 DEF vars, ClaimsKept, tables, scanVars, watchVars
<1> QED
  BY <1>3, <1>4, <1>5, <1>6, <1>7, <1>8, <1>9, <1>10, <1>11, <1>12, <1>13, <1>14,
     <1>15 DEF Next, Operations, Scan

LEMMA ScanTable ==
    ASSUME NEW q \in Readers, Scan(q)
    PROVE  \/ UNCHANGED assistances
           \/ rpc[q] = "insertAssistance" /\ AddRow(q)
<1>1. ASSUME NEW n \in Nonces, Present(q, n) PROVE UNCHANGED assistances
  BY <1>1 DEF Present, tables
<1>2. FindClass(q) => UNCHANGED assistances
  BY DEF FindClass, tables
<1>3. AssistanceExists(q) => UNCHANGED assistances
  BY DEF AssistanceExists, tables
<1>4. ConsumeQrNonce(q) => UNCHANGED assistances
  BY DEF ConsumeQrNonce
<1>5. ASSUME InsertAssistance(q)
      PROVE  \/ UNCHANGED assistances
             \/ rpc[q] = "insertAssistance" /\ AddRow(q)
  BY <1>5 DEF InsertAssistance
<1>6. ASSUME FailScan(q)
      PROVE  \/ UNCHANGED assistances
             \/ rpc[q] = "insertAssistance" /\ AddRow(q)
  BY <1>6 DEF FailScan
<1> QED
  BY <1>1, <1>2, <1>3, <1>4, <1>5, <1>6 DEF Scan

LEMMA CorrectTable ==
    ASSUME TypeInv, NEW e \in Editors, Correct(e)
    PROVE  \/ UNCHANGED assistances
           \/ SaveRow(e) /\ SetPresent(edit[e].id, edit[e].present)
<1>1. SaveRow(e) => UNCHANGED assistances \/ SetPresent(edit[e].id, edit[e].present)
  BY SaveRowEffect
<1>2. ASSUME NEW i \in Ids, NEW v \in BOOLEAN, BeginEdit(e, [id |-> i, present |-> v])
      PROVE  UNCHANGED assistances
  BY <1>2 DEF BeginEdit, tables
<1>3. SelectRow(e) => UNCHANGED assistances
  BY DEF SelectRow, tables
<1>4. UpdateRow(e) => SaveRow(e)
  BY DEF UpdateRow
<1>5. FailEdit(e) => SaveRow(e) \/ UNCHANGED assistances
  BY DEF FailEdit
<1> QED
  BY <1>1, <1>2, <1>3, <1>4, <1>5 DEF Correct

\* All that can happen to the table in a step.
LEMMA TableChange ==
    ASSUME TypeInv, [Next]_vars
    PROVE  \/ UNCHANGED assistances
           \/ \E q \in Readers : rpc[q] = "insertAssistance" /\ AddRow(q)
           \/ \E e \in Editors : SaveRow(e) /\ SetPresent(edit[e].id, edit[e].present)
<1> QED
  BY ScanTable, CorrectTable DEF Next, Operations, AskQr, IssueQr, SetClock, Crash,
                    SessionsChange, vars, tables

\* A row is only ever added for a scan that came while its token was valid and
\* during which its class was open at some moment.
THEOREM InsertionsAreWarranted == Spec => InsertionWarranted
<1> DEFINE Warranted ==
      Len(assistances') > Len(assistances) =>
         \E q \in sawOpen :
             /\ rpc[q] = "insertAssistance"
             /\ scanned[q] = assistances'[Len(assistances')].nonce
             /\ came[q] < TokenOf(q).expiresAt
             /\ came[q] + Skew >= TokenOf(q).issuedAt
<1>1. TypeInv /\ ScansWatched /\ [Next]_vars => [Warranted]_vars
  <2> SUFFICES ASSUME TypeInv, ScansWatched, [Next]_vars,
                      Len(assistances') > Len(assistances)
               PROVE  Warranted
    OBVIOUS
  <2>1. Len(assistances) \in Nat
    BY LenProperties DEF TypeInv, TypeOK
  <2>2. ASSUME NEW e \in Editors, SaveRow(e),
               SetPresent(edit[e].id, edit[e].present)
        PROVE  Len(assistances') = Len(assistances)
    BY <2>2, SaveRowEffect, SetPresentEffect
  <2>3. PICK q \in Readers : rpc[q] = "insertAssistance" /\ AddRow(q)
    BY <2>1, <2>2, TableChange
  <2>4. scanned[q] = assistances'[Len(assistances')].nonce
    <3>1. Scanning(q)
      BY <2>3 DEF Scanning, ScanAwaits
    <3>2. /\ Len(assistances') = Len(assistances) + 1
          /\ assistances'[Len(assistances) + 1] =
               [student |-> TokenOf(q).student, class |-> TokenOf(q).class,
                present |-> TRUE, nonce |-> scanned[q]]
      BY <2>3, <3>1, AddRowEffect
    <3> QED
      BY <3>2
  <2> QED
    BY <2>3, <2>4 DEF ScansWatched, ScanWatched, Scanning, ScanAwaits, PastFindClass
<1> QED
  BY <1>1, TypeInit, TypeStep, ScansWatchedInit, ScansWatchedStep, PTL
     DEF Spec, InsertionWarranted
-----------------------------------------------------------------------------
\* A correction that is not answered sees what happens to its row.
LEMMA EditWatchedKept ==
    ASSUME TypeInv, NEW e \in Editors, EditWatched(e),
           epc'[e] = epc[e], edit'[e] = edit[e], image'[e] = image[e],
           e \in sawEditing => e \in sawEditing',
           \/ UNCHANGED <<assistances, shown>>
           \/ \E q \in Readers : Scanning(q) /\ AddRow(q) /\ UNCHANGED shown
           \/ \E i \in Ids, v \in BOOLEAN : SetPresent(i, v)
    PROVE  EditWatched(e)'
<1>1. CASE UNCHANGED <<assistances, shown>>
  BY <1>1 DEF EditWatched, Editing
<1>2. ASSUME NEW q \in Readers, Scanning(q), AddRow(q), UNCHANGED shown
      PROVE  EditWatched(e)'
  <2>1. Editing(e) => assistances'[edit[e].id] = assistances[edit[e].id]
    BY <1>2, AddRowEffect DEF TypeInv, EditsOK
  <2> QED
    BY <1>2, <2>1 DEF EditWatched, Editing
<1>3. ASSUME NEW i \in Ids, NEW v \in BOOLEAN, SetPresent(i, v)
      PROVE  EditWatched(e)'
  <2>1. shown'[e] = IF Editing(e) /\ edit[e].id = i THEN shown[e] \cup {v}
                    ELSE shown[e]
    BY <1>3 DEF SetPresent
  <2>2. Editing(e) => assistances'[edit[e].id].present =
                        IF edit[e].id = i THEN v ELSE assistances[edit[e].id].present
    BY <1>3, SetPresentEffect DEF TypeInv, EditsOK
  <2> QED
    BY <2>1, <2>2 DEF EditWatched, Editing
<1> QED
  BY <1>1, <1>2, <1>3

LEMMA EditsWatchedInit == Init => EditsWatched
BY DEF Init, EditsWatched, EditWatched, Editing, EditAwaits

LEMMA EditsWatchedStep ==
    TypeInv /\ EditsWatched /\ [Next]_vars => EditsWatched'
<1> SUFFICES ASSUME TypeInv, EditsWatched, [Next]_vars PROVE EditsWatched'
  OBVIOUS
\* Steps that leave corrections and the table alone.
<1>1. ASSUME UNCHANGED <<editVars, assistances, shown>>, sawEditing \subseteq sawEditing'
      PROVE  EditsWatched'
  BY <1>1, EditWatchedKept DEF EditsWatched, editVars
<1>2. ASSUME NEW n \in Nonces, IssueQr(n) PROVE EditsWatched'
  BY <1>1, <1>2 DEF IssueQr, watchVars
<1>3. ASSUME NEW n \in Nonces, NEW p \in Pair, AskQr(n, p) PROVE EditsWatched'
  BY <1>1, <1>3 DEF AskQr, watchVars
<1>4. ASSUME NEW q \in Readers, Scan(q) PROVE EditsWatched'
  <2>1. UNCHANGED <<editVars, sawEditing, shown>>
    BY <1>4 DEF Scan, Present, FindClass, AssistanceExists, ConsumeQrNonce,
                InsertAssistance, FailScan
  <2>2. UNCHANGED assistances \/ (Scanning(q) /\ AddRow(q))
    BY <1>4, ScanTable DEF Scanning, ScanAwaits
  <2>3. ASSUME NEW e \in Editors PROVE EditWatched(e)'
    BY <2>1, <2>2, EditWatchedKept DEF EditsWatched, editVars
  <2> QED
    BY <2>3 DEF EditsWatched
<1>5. ASSUME NEW e \in Editors, NEW i \in Ids, NEW v \in BOOLEAN,
             BeginEdit(e, [id |-> i, present |-> v])
      PROVE  EditsWatched'
  <2>1. ASSUME NEW f \in Editors \ {e} PROVE EditWatched(f)'
    <3>1. /\ epc'[f] = epc[f] /\ edit'[f] = edit[f] /\ image'[f] = image[f]
          /\ f \in sawEditing => f \in sawEditing'
          /\ shown'[f] = shown[f] /\ UNCHANGED assistances
      BY <1>5 DEF BeginEdit, tables, TypeInv, TypeOK
    <3> QED
      BY <3>1 DEF EditsWatched, EditWatched, Editing
  <2>2. /\ epc'[e] = "selectRow" /\ edit'[e] = [id |-> i, present |-> v]
        /\ e \in sawEditing' /\ shown'[e] = {assistances[i].present}
        /\ UNCHANGED assistances
    BY <1>5 DEF BeginEdit, tables, TypeInv, TypeOK
  <2>3. EditWatched(e)'
    BY <2>2 DEF EditWatched
  <2> QED
    BY <2>1, <2>3 DEF EditsWatched
<1>6. ASSUME NEW e \in Editors, SelectRow(e) PROVE EditsWatched'
  <2>1. ASSUME NEW f \in Editors \ {e} PROVE EditWatched(f)'
    <3>1. /\ epc'[f] = epc[f] /\ edit'[f] = edit[f] /\ image'[f] = image[f]
          /\ UNCHANGED <<sawEditing, assistances, shown>>
      BY <1>6 DEF SelectRow, tables, watchVars, TypeInv, TypeOK
    <3> QED
      BY <3>1, EditWatchedKept DEF EditsWatched
  <2>2. /\ epc'[e] = "updateRow" /\ image'[e] = assistances[edit[e].id].present
        /\ Editing(e) /\ UNCHANGED <<edit, sawEditing, assistances, shown>>
    BY <1>6 DEF SelectRow, tables, watchVars, TypeInv, TypeOK, Editing, EditAwaits
  <2>3. EditWatched(e)'
    BY <2>2 DEF EditsWatched, EditWatched
  <2> QED
    BY <2>1, <2>3 DEF EditsWatched
<1>7. ASSUME NEW e \in Editors, NEW a \in {"ok", "failed"}, AnswerEdit(e, a),
             \/ SaveRow(e)
             \/ a = "failed" /\ UNCHANGED <<assistances, shown>>,
             UNCHANGED edit
      PROVE  EditsWatched'
  <2>1. ASSUME NEW f \in Editors \ {e} PROVE EditWatched(f)'
    <3>1. /\ epc'[f] = epc[f] /\ edit'[f] = edit[f] /\ image'[f] = image[f]
          /\ f \in sawEditing => f \in sawEditing'
      BY <1>7 DEF AnswerEdit, TypeInv, TypeOK
    <3>2. \/ UNCHANGED <<assistances, shown>>
          \/ \E i \in Ids, v \in BOOLEAN : SetPresent(i, v)
      BY <1>7, SaveRowEffect
    <3>3. EditWatched(f)
      BY DEF EditsWatched
    <3> QED
      BY <3>1, <3>2, <3>3, EditWatchedKept
  <2>2. epc'[e] = a /\ edit'[e] = edit[e]
    BY <1>7 DEF AnswerEdit, TypeInv, TypeOK
  <2>3. a = "ok" => edit[e].present \in shown'[e]
    <3> SUFFICES ASSUME a = "ok" PROVE edit[e].present \in shown'[e]
      OBVIOUS
    <3>1. SaveRow(e) /\ epc[e] = "updateRow" /\ Editing(e)
      BY <1>7, SaveRowEffect DEF SaveRow
    <3>2. CASE SetPresent(edit[e].id, edit[e].present)
      BY <3>1, <3>2 DEF SetPresent
    <3>3. CASE edit[e].present = image[e] /\ UNCHANGED shown
      BY <3>1, <3>3 DEF EditsWatched, EditWatched
    <3> QED
      BY <3>1, <3>2, <3>3 DEF SaveRow
  <2>4. EditWatched(e)'
    BY <2>2, <2>3 DEF EditWatched, Editing, EditAwaits
  <2> QED
    BY <2>1, <2>4 DEF EditsWatched
<1>8. ASSUME NEW e \in Editors, UpdateRow(e) \/ FailEdit(e) PROVE EditsWatched'
  BY <1>7, <1>8 DEF UpdateRow, FailEdit
<1>9. ASSUME NEW t \in 0..MaxTime, SetClock(t) PROVE EditsWatched'
  BY <1>1, <1>9 DEF SetClock, tables, watchVars
<1>10. ASSUME Crash PROVE EditsWatched'
  <2>1. ASSUME NEW e \in Editors PROVE EditWatched(e)'
    BY <1>10 DEF Crash, EditsWatched, EditWatched, Editing, EditAwaits
  <2> QED
    BY <2>1 DEF EditsWatched
<1>11. ASSUME SessionsChange PROVE EditsWatched'
  BY <1>1, <1>11 DEF SessionsChange, tables
<1>12. CASE UNCHANGED vars
  BY <1>1, <1>12 DEF vars, tables, watchVars
<1> QED
  BY <1>2, <1>3, <1>4, <1>5, <1>6, <1>8, <1>9, <1>10, <1>11, <1>12
     DEF Next, Operations, Correct

\* A correction that was answered 200 did show in its row at some moment, however
\* many corrections of the row overlap and whichever of them wrote nothing.
THEOREM AckedEditsTookEffect == Spec => []AckedEditTookEffect
<1>1. EditsWatched => AckedEditTookEffect
  BY DEF EditsWatched, EditWatched, AckedEditTookEffect
<1> QED
  BY <1>1, TypeInit, TypeStep, EditsWatchedInit, EditsWatchedStep, PTL DEF Spec

\* A presence changes only by a correction during which the editing window of its
\* class was open at some moment, and becomes what that correction asked for.
THEOREM EditsAreWarranted == Spec => EditWarranted
<1> DEFINE Warranted ==
      \A i \in Ids : assistances'[i].present # assistances[i].present =>
         \E e \in sawEditing :
             /\ epc[e] = "updateRow"
             /\ edit[e] = [id |-> i, present |-> assistances'[i].present]
<1>1. TypeInv /\ EditsWatched /\ [Next]_vars => [Warranted]_vars
  <2> SUFFICES ASSUME TypeInv, EditsWatched, [Next]_vars,
                      NEW i \in Ids, assistances'[i].present # assistances[i].present
               PROVE  \E e \in sawEditing :
                        /\ epc[e] = "updateRow"
                        /\ edit[e] = [id |-> i, present |-> assistances'[i].present]
    OBVIOUS
  <2>1. ASSUME NEW q \in Readers, rpc[q] = "insertAssistance", AddRow(q) PROVE FALSE
    BY <2>1, AddRowEffect DEF Scanning, ScanAwaits
  <2>2. PICK e \in Editors : SaveRow(e) /\ SetPresent(edit[e].id, edit[e].present)
    BY <2>1, TableChange
  <2>3. /\ Editing(e) /\ edit[e].id \in Ids /\ edit[e].present \in BOOLEAN
        /\ epc[e] = "updateRow"
    BY <2>2, SaveRowEffect DEF SaveRow
  <2>4. edit[e].id = i /\ assistances'[i].present = edit[e].present
    BY <2>2, <2>3, SetPresentEffect
  <2>5. edit[e] = [id |-> i, present |-> assistances'[i].present]
    BY <2>3, <2>4 DEF TypeInv, EditsOK, Correction
  <2> QED
    BY <2>3, <2>5 DEF EditsWatched, EditWatched
<1> QED
  BY <1>1, TypeInit, TypeStep, EditsWatchedInit, EditsWatchedStep, PTL
     DEF Spec, EditWarranted
-----------------------------------------------------------------------------
\* Only signed tokens are spent.
UsedOK == \A n \in usedNonces : claims[n] # None

LEMMA UsedInit == Init => UsedOK
BY DEF Init, UsedOK

LEMMA UsedStep == TypeInv /\ UsedOK /\ [Next]_vars => UsedOK'
<1> SUFFICES ASSUME TypeInv, UsedOK, [Next]_vars PROVE UsedOK'
  OBVIOUS
<1>1. ASSUME NEW q \in Readers, Scan(q)
      PROVE  /\ UNCHANGED claims
             /\ \/ UNCHANGED usedNonces
                \/ Scanning(q) /\ usedNonces' = usedNonces \cup {scanned[q]}
  <2>1. ASSUME NEW n \in Nonces, Present(q, n) PROVE UNCHANGED <<claims, usedNonces>>
    BY <2>1 DEF Present, tables
  <2>2. FindClass(q) => UNCHANGED <<claims, usedNonces>>
    BY DEF FindClass, tables
  <2>3. AssistanceExists(q) => UNCHANGED <<claims, usedNonces>>
    BY DEF AssistanceExists, tables
  <2>4. ConsumeQrNonce(q) => /\ Scanning(q) /\ UNCHANGED claims
                             /\ usedNonces' = usedNonces \cup {scanned[q]}
    BY DEF ConsumeQrNonce, Scanning, ScanAwaits
  <2>5. InsertAssistance(q) => UNCHANGED <<claims, usedNonces>>
    BY DEF InsertAssistance
  <2>6. FailScan(q) => /\ Scanning(q) /\ UNCHANGED claims
                       /\ \/ UNCHANGED usedNonces
                          \/ usedNonces' = usedNonces \cup {scanned[q]}
    BY DEF FailScan
  <2> QED
    BY <1>1, <2>1, <2>2, <2>3, <2>4, <2>5, <2>6 DEF Scan
<1>2. ASSUME NEW e \in Editors, Correct(e) PROVE UNCHANGED <<claims, usedNonces>>
  BY <1>2 DEF Correct, BeginEdit, SelectRow, UpdateRow, FailEdit, tables
<1>3. ASSUME NEW n \in Nonces, IssueQr(n) PROVE UsedOK'
  <2>1. claims[n] = None /\ usedNonces \subseteq Nonces
    BY <1>3 DEF IssueQr, TypeInv, TypeOK, TokensOK
  <2>2. \A m \in Nonces \ {n} : claims'[m] = claims[m]
    BY <1>3 DEF IssueQr, TypeInv, TypeOK
  <2> QED
    BY <1>3, <2>1, <2>2 DEF IssueQr, UsedOK
<1>4. CASE UNCHANGED <<claims, usedNonces>>
  BY <1>4 DEF UsedOK
<1>5. ASSUME NEW q \in Readers, Scan(q) PROVE UsedOK'
  BY <1>1, <1>5, ScanToken DEF UsedOK
<1> QED
  BY <1>2, <1>3, <1>4, <1>5
     DEF Next, Operations, AskQr, SetClock, Crash, SessionsChange, vars, tables
-----------------------------------------------------------------------------
\* A step that records nothing: every token stays what it is, or is burnt.
LEMMA BurnStep ==
    ASSUME UNCHANGED <<claims, assistances>>, NoncesKept,
           \A n \in usedNonces, q \in Readers : Holds(q, n)' =>
             \E p \in Readers : Holds(p, n)
    PROVE  [Ledger!Next]_(Ledger!vars)
<1> DEFINE burnt == {n \in Nonces : TokenState(n) = "valid" /\ TokenState(n)' = "burnt"}
<1>1. \A n \in Nonces : OwnerOf(n)' = OwnerOf(n)
  BY DEF OwnerOf
<1>2. \A p \in Students \X Classes : AttendanceOf(p[1], p[2])' = AttendanceOf(p[1], p[2])
  BY DEF AttendanceOf, Recorded, Ids
<1>3. \A n \in Nonces : \/ TokenState(n)' = TokenState(n)
                        \/ TokenState(n) = "valid" /\ TokenState(n)' = "burnt"
  BY DEF TokenState, NoncesKept, Ids
<1>4. \A n \in Nonces : TokenState(n)' = IF n \in burnt THEN "burnt" ELSE TokenState(n)
  BY <1>3
<1>5. Ledger!Burn(burnt)
  BY <1>1, <1>2, <1>4 DEF Ledger!Burn
<1>6. burnt \in SUBSET Nonces
  OBVIOUS
<1> QED
  BY <1>5, <1>6 DEF Ledger!Next

\* A token is signed: it was asked for, and nobody has spent it before.
LEMMA IssueStep ==
    ASSUME TypeInv, TableInv, UsedOK, NEW n \in Nonces, IssueQr(n)
    PROVE  [Ledger!Next]_(Ledger!vars)
<1> DEFINE s == asked[n].student
           c == asked[n].class
<1>1. claims[n] = None /\ s \in Students /\ c \in Classes
  BY DEF IssueQr, TypeInv, TypeOK, TokensOK, Pair
<1>2. /\ \A m \in Nonces \ {n} : claims'[m] = claims[m]
      /\ claims'[n] = [student |-> s, class |-> c,
                       issuedAt |-> now, expiresAt |-> now + Ttl]
      /\ UNCHANGED <<usedNonces, assistances, rpc, scanned>>
  BY DEF IssueQr, TypeInv, TypeOK, scanVars
<1>3. claims'[n] # None
  <2>1. claims'[n] \in Claims
    BY <1>1, <1>2 DEF Claims, TypeInv, TypeOK
  <2> QED
    BY <2>1, NoneAssumption
<1>4. n \notin usedNonces /\ \A i \in Ids : assistances[i].nonce # n
  BY <1>1 DEF UsedOK, TableInv, RecordsMatchTokens
<1> HIDE DEF s, c
<1>5. /\ TokenState(n) = "unissued" /\ TokenState(n)' = "valid"
      /\ OwnerOf(n)' = <<s, c>>
  BY <1>1, <1>2, <1>3, <1>4 DEF TokenState, OwnerOf, Ids
<1>6. \A m \in Nonces \ {n} : /\ TokenState(m)' = TokenState(m)
                              /\ OwnerOf(m)' = OwnerOf(m)
  BY <1>2 DEF TokenState, OwnerOf, Ids, Holds
<1>7. \A p \in Students \X Classes : AttendanceOf(p[1], p[2])' = AttendanceOf(p[1], p[2])
  BY <1>2 DEF AttendanceOf, Recorded, Ids
<1>8. Ledger!Issue(n, <<s, c>>)
  BY <1>5, <1>6, <1>7 DEF Ledger!Issue
<1>9. <<s, c>> \in Ledger!Pair
  BY <1>1 DEF Ledger!Pair
<1> QED
  BY <1>8, <1>9 DEF Ledger!Next

\* A scan that holds its nonce adds its row.
LEMMA RecordStep ==
    ASSUME TypeInv, TableInv, NEW q \in Readers,
           rpc[q] = "insertAssistance", AddRow(q),
           NEW a \in {"created", "failed"}, rpc' = [rpc EXCEPT ![q] = a],
           UNCHANGED <<claims, usedNonces, scanned>>
    PROVE  [Ledger!Next]_(Ledger!vars)
<1> DEFINE new == Len(assistances) + 1
<1>1. Scanning(q)
  BY DEF Scanning, ScanAwaits
<1>2. PICK n \in Nonces, s \in Students, c \in Classes :
        /\ Holds(q, n) /\ scanned[q] = n /\ claims[n] # None
        /\ TokenOf(q) = claims[n]
        /\ claims[n].student = s /\ claims[n].class = c
  BY <1>1, ScanToken DEF TokenOf, Claims, Holds
<1>3. /\ Ids' = Ids \cup {new} /\ new \notin Ids
      /\ \A i \in Ids : assistances'[i] = assistances[i]
      /\ assistances'[new] = [student |-> s, class |-> c,
                              present |-> TRUE, nonce |-> n]
  BY <1>1, <1>2, AddRowEffect
<1>4. ~Recorded(s, c)
  BY <1>2 DEF AddRow
<1>5. \A i \in Ids : assistances[i].nonce # n
  BY <1>2 DEF TableInv, NonceSpentOnce
<1> HIDE DEF new
<1>6. \A m \in Nonces \ {n} : \A p \in Readers : Holds(p, m)' <=> Holds(p, m)
  BY <1>2 DEF Holds, TypeInv, TypeOK
<1>7. TokenState(n) = "valid" /\ TokenState(n)' = "recorded"
  <2>1. TokenState(n) = "valid"
    BY <1>2, <1>5 DEF TokenState
  <2>2. \E i \in Ids' : assistances'[i].nonce = n
    BY <1>3
  <2> QED
    BY <1>2, <2>1, <2>2 DEF TokenState
<1>8. \A m \in Nonces \ {n} : TokenState(m)' = TokenState(m)
  <2> SUFFICES ASSUME NEW m \in Nonces \ {n} PROVE TokenState(m)' = TokenState(m)
    OBVIOUS
  <2>1. (\E i \in Ids : assistances[i].nonce = m)' <=> \E i \in Ids : assistances[i].nonce = m
    BY <1>3
  <2>2. \A p \in Readers : Holds(p, m)' <=> Holds(p, m)
    BY <1>6
  <2> QED
    BY <2>1, <2>2 DEF TokenState
<1>9. \A m \in Nonces : OwnerOf(m)' = OwnerOf(m)
  BY DEF OwnerOf
<1>10. OwnerOf(n) = <<s, c>>
  BY <1>2 DEF OwnerOf
<1>11. AttendanceOf(s, c) = "none" /\ AttendanceOf(s, c)' = "present"
  BY <1>3, <1>4 DEF AttendanceOf, Recorded
<1>12. \A p \in Students \X Classes :
         p # <<s, c>> => AttendanceOf(p[1], p[2])' = AttendanceOf(p[1], p[2])
  BY <1>3 DEF AttendanceOf, Recorded
<1>13. Ledger!Record(n)
  <2> DEFINE table == [p \in Students \X Classes |-> AttendanceOf(p[1], p[2])]
  <2>1. table[<<s, c>>] = "none"
    BY <1>11
  <2>2. table' = [table EXCEPT ![<<s, c>>] = "present"]
    <3>1. ASSUME NEW p \in Students \X Classes, p = <<s, c>>
          PROVE  AttendanceOf(p[1], p[2])' = "present"
      <4>1. p[1] = s /\ p[2] = c
        BY <3>1
      <4> QED
        BY <4>1, <1>11
    <3>2. \A p \in Students \X Classes :
            AttendanceOf(p[1], p[2])' =
              IF p = <<s, c>> THEN "present" ELSE AttendanceOf(p[1], p[2])
      BY <3>1, <1>12
    <3> QED
      BY <3>2
  <2>3. [m \in Nonces |-> TokenState(m)'] =
          [[m \in Nonces |-> TokenState(m)] EXCEPT ![n] = "recorded"]
    BY <1>7, <1>8
  <2>4. [m \in Nonces |-> OwnerOf(m)'] = [m \in Nonces |-> OwnerOf(m)]
    BY <1>9
  <2> QED
    BY <1>2, <1>7, <1>10, <2>1, <2>2, <2>3, <2>4 DEF Ledger!Record
<1> QED
  BY <1>2, <1>13 DEF Ledger!Next

\* A correction sets the presence of one row, or of none.
LEMMA AmendStep ==
    ASSUME TypeInv, TableInv, NEW i \in Ids, NEW v \in BOOLEAN, SetPresent(i, v),
           UNCHANGED <<claims, usedNonces, rpc, scanned>>
    PROVE  [Ledger!Next]_(Ledger!vars)
<1> DEFINE what == IF v THEN "present" ELSE "absent"
<1>1. PICK s \in Students, c \in Classes :
        assistances[i].student = s /\ assistances[i].class = c
  BY RowType DEF Assistance
<1>2. /\ Ids' = Ids
      /\ \A j \in Ids : /\ assistances'[j].student = assistances[j].student
                        /\ assistances'[j].class = assistances[j].class
                        /\ assistances'[j].nonce = assistances[j].nonce
                        /\ assistances'[j].present =
                             IF j = i THEN v ELSE assistances[j].present
  BY SetPresentEffect
<1>3. \A j \in Ids : assistances[j].student = s /\ assistances[j].class = c => j = i
  BY <1>1 DEF TableInv, OneRecordPerStudentClass
<1>4. Recorded(s, c) /\ Recorded(s, c)'
  BY <1>1, <1>2 DEF Recorded
<1>5. AttendanceOf(s, c) # "none"
  BY <1>4 DEF AttendanceOf
<1>6. AttendanceOf(s, c)' = what
  <2>1. assistances'[i].student = s /\ assistances'[i].class = c
        /\ assistances'[i].present = v /\ i \in Ids'
    BY <1>1, <1>2
  <2>2. \A j \in Ids' : assistances'[j].student = s /\ assistances'[j].class = c => j = i
    BY <1>2, <1>3
  <2>3. (\E j \in Ids' : /\ assistances'[j].student = s
                         /\ assistances'[j].class = c
                         /\ assistances'[j].present) <=> v
    BY <2>1, <2>2
  <2> QED
    BY <1>4, <2>3 DEF AttendanceOf
<1>7. \A p \in Students \X Classes :
        p # <<s, c>> => AttendanceOf(p[1], p[2])' = AttendanceOf(p[1], p[2])
  <2> SUFFICES ASSUME NEW p \in Students \X Classes, p # <<s, c>>
               PROVE  AttendanceOf(p[1], p[2])' = AttendanceOf(p[1], p[2])
    OBVIOUS
  <2>1. ~(assistances[i].student = p[1] /\ assistances[i].class = p[2])
    BY <1>1
  <2>2. Recorded(p[1], p[2])' <=> Recorded(p[1], p[2])
    BY <1>2 DEF Recorded
  <2>3. (\E j \in Ids : /\ assistances[j].student = p[1]
                        /\ assistances[j].class = p[2]
                        /\ assistances[j].present)'
        <=> \E j \in Ids : /\ assistances[j].student = p[1]
                           /\ assistances[j].class = p[2]
                           /\ assistances[j].present
    BY <1>2, <2>1
  <2> QED
    BY <2>2, <2>3 DEF AttendanceOf
<1>8. \A m \in Nonces : TokenState(m)' = TokenState(m) /\ OwnerOf(m)' = OwnerOf(m)
  <2> SUFFICES ASSUME NEW m \in Nonces
               PROVE  TokenState(m)' = TokenState(m) /\ OwnerOf(m)' = OwnerOf(m)
    OBVIOUS
  <2>1. (\E j \in Ids : assistances[j].nonce = m)' <=> \E j \in Ids : assistances[j].nonce = m
    BY <1>2
  <2>2. \A p \in Readers : Holds(p, m)' <=> Holds(p, m)
    BY DEF Holds
  <2> QED
    BY <2>1, <2>2 DEF TokenState, OwnerOf
<1>9. Ledger!Amend(<<s, c>>, what)
  <2> DEFINE table == [p \in Students \X Classes |-> AttendanceOf(p[1], p[2])]
  <2>1. table[<<s, c>>] # "none"
    BY <1>5
  <2>2. table' = [table EXCEPT ![<<s, c>>] = what]
    <3>1. ASSUME NEW p \in Students \X Classes, p = <<s, c>>
          PROVE  AttendanceOf(p[1], p[2])' = what
      <4>1. p[1] = s /\ p[2] = c
        BY <3>1
      <4> QED
        BY <4>1, <1>6
    <3>2. \A p \in Students \X Classes :
            AttendanceOf(p[1], p[2])' =
              IF p = <<s, c>> THEN what ELSE AttendanceOf(p[1], p[2])
      BY <3>1, <1>7
    <3> QED
      BY <3>2
  <2>3. [m \in Nonces |-> TokenState(m)'] = [m \in Nonces |-> TokenState(m)]
    BY <1>8
  <2>4. [m \in Nonces |-> OwnerOf(m)'] = [m \in Nonces |-> OwnerOf(m)]
    BY <1>8
  <2> QED
    BY <2>1, <2>2, <2>3, <2>4 DEF Ledger!Amend
<1>10. <<s, c>> \in Ledger!Pair
  BY <1>1 DEF Ledger!Pair
<1> QED
  BY <1>9, <1>10 DEF Ledger!Next

LEMMA LedgerInit == Init => Ledger!Init
<1> SUFFICES ASSUME Init PROVE Ledger!Init
  OBVIOUS
<1>1. \A n \in Nonces : OwnerOf(n) = <<>> /\ TokenState(n) = "unissued"
  BY DEF Init, OwnerOf, TokenState
<1>2. \A p \in Students \X Classes : AttendanceOf(p[1], p[2]) = "none"
  BY DEF Init, AttendanceOf, Recorded, Ids
<1> QED
  BY <1>1, <1>2 DEF Ledger!Init, Ledger!NoPair, Ledger!Pair

LEMMA LedgerStep ==
    TypeInv /\ TableInv /\ UsedOK /\ [Next]_vars => [Ledger!Next]_(Ledger!vars)
<1> SUFFICES ASSUME TypeInv, TableInv, UsedOK, [Next]_vars
             PROVE  [Ledger!Next]_(Ledger!vars)
  OBVIOUS
\* Steps in which no scan comes to hold a nonce.
<1>1. ASSUME UNCHANGED <<claims, assistances>>, NoncesKept,
             \A q \in Readers, n \in Nonces : Holds(q, n)' => Holds(q, n)
      PROVE  [Ledger!Next]_(Ledger!vars)
  BY <1>1, BurnStep DEF TypeInv, TypeOK
\* Steps that leave tokens and scans alone.
<1>2. ASSUME UNCHANGED <<claims, assistances, usedNonces, rpc, scanned>>
      PROVE  [Ledger!Next]_(Ledger!vars)
  BY <1>1, <1>2 DEF Holds, NoncesKept
\* Steps in which a scan gives up, or goes on to something else than its insertion.
<1>3. ASSUME NEW q \in Readers, NEW a, a # "insertAssistance",
             rpc' = [rpc EXCEPT ![q] = a],
             UNCHANGED <<claims, assistances>>, NoncesKept,
             \A p \in Readers \ {q} : scanned'[p] = scanned[p]
      PROVE  [Ledger!Next]_(Ledger!vars)
  <2>1. \A p \in Readers, n \in Nonces : Holds(p, n)' => Holds(p, n)
    BY <1>3 DEF Holds, TypeInv, TypeOK
  <2> QED
    BY <1>1, <1>3, <2>1
<1>4. ASSUME NEW n \in Nonces, NEW p \in Pair, AskQr(n, p)
      PROVE  [Ledger!Next]_(Ledger!vars)
  BY <1>2, <1>4 DEF AskQr, scanVars
<1>5. ASSUME NEW n \in Nonces, IssueQr(n) PROVE [Ledger!Next]_(Ledger!vars)
  BY <1>5, IssueStep
<1>6. ASSUME NEW q \in Readers, NEW n \in Nonces, Present(q, n)
      PROVE  [Ledger!Next]_(Ledger!vars)
  <2>1. \A p \in Readers \ {q} : scanned'[p] = scanned[p]
    BY <1>6 DEF Present, TypeInv, TypeOK
  <2>2. CASE Verifies(n)
    BY <1>3, <1>6, <2>1, <2>2 DEF Present, tables, NoncesKept
  <2>3. CASE ~Verifies(n)
    BY <1>3, <1>6, <2>1, <2>3 DEF Present, AnswerScan, tables, NoncesKept
  <2> QED
    BY <2>2, <2>3
<1>7. ASSUME NEW q \in Readers, FindClass(q) PROVE [Ledger!Next]_(Ledger!vars)
  BY <1>3, <1>7 DEF FindClass, ScanAt, AnswerScan, tables, NoncesKept
<1>8. ASSUME NEW q \in Readers, AssistanceExists(q) PROVE [Ledger!Next]_(Ledger!vars)
  BY <1>3, <1>8 DEF AssistanceExists, ScanAt, AnswerScan, tables, NoncesKept
<1>9. ASSUME NEW q \in Readers, ConsumeQrNonce(q) PROVE [Ledger!Next]_(Ledger!vars)
  <2>1. UNCHANGED <<claims, assistances, scanned>> /\ NoncesKept
    BY <1>9 DEF ConsumeQrNonce, NoncesKept
  <2>2. CASE AnswerScan(q, "alreadyUsed")
    BY <1>3, <2>1, <2>2 DEF AnswerScan
  <2>3. CASE scanned[q] \notin usedNonces /\ ScanAt(q, "insertAssistance")
    <3>1. \A n \in usedNonces, p \in Readers : Holds(p, n)' => Holds(p, n)
      BY <2>1, <2>3 DEF Holds, ScanAt, TypeInv, TypeOK
    <3> QED
      BY <2>1, <3>1, BurnStep
  <2> QED
    BY <1>9, <2>2, <2>3 DEF ConsumeQrNonce
<1>10. ASSUME NEW q \in Readers, InsertAssistance(q) PROVE [Ledger!Next]_(Ledger!vars)
  <2>1. CASE AnswerScan(q, "failed") /\ UNCHANGED assistances
    BY <1>3, <1>10, <2>1 DEF InsertAssistance, AnswerScan, NoncesKept
  <2>2. CASE AddRow(q) /\ AnswerScan(q, "created")
    BY <1>10, <2>2, RecordStep DEF InsertAssistance, AnswerScan
  <2> QED
    BY <1>10, <2>1, <2>2 DEF InsertAssistance
<1>11. ASSUME NEW q \in Readers, FailScan(q) PROVE [Ledger!Next]_(Ledger!vars)
  <2>1. CASE UNCHANGED assistances
    BY <1>3, <1>11, <2>1 DEF FailScan, AnswerScan, NoncesKept
  <2>2. CASE rpc[q] = "insertAssistance" /\ AddRow(q) /\ UNCHANGED usedNonces
    BY <1>11, <2>2, RecordStep DEF FailScan, AnswerScan
  <2> QED
    BY <1>11, <2>1, <2>2 DEF FailScan
<1>12. ASSUME NEW e \in Editors, Correct(e) PROVE [Ledger!Next]_(Ledger!vars)
  <2>1. UNCHANGED <<claims, usedNonces, rpc, scanned>>
    BY <1>12 DEF Correct, BeginEdit, SelectRow, UpdateRow, FailEdit, tables, scanVars
  <2>2. CASE UNCHANGED assistances
    BY <1>2, <2>1, <2>2
  <2>3. CASE SaveRow(e) /\ SetPresent(edit[e].id, edit[e].present)
    BY <2>1, <2>3, SaveRowEffect, AmendStep
  <2> QED
    BY <1>12, <2>2, <2>3, CorrectTable
<1>13. ASSUME NEW t \in 0..MaxTime, SetClock(t) PROVE [Ledger!Next]_(Ledger!vars)
  BY <1>2, <1>13 DEF SetClock, tables, scanVars
<1>14. ASSUME Crash PROVE [Ledger!Next]_(Ledger!vars)
  <2>1. \A q \in Readers, n \in Nonces : Holds(q, n)' => Holds(q, n)
    BY <1>14 DEF Crash, Holds, TypeInv, TypeOK
  <2> QED
    BY <1>1, <1>14, <2>1 DEF Crash, NoncesKept
<1>15. ASSUME SessionsChange PROVE [Ledger!Next]_(Ledger!vars)
  BY <1>2, <1>15 DEF SessionsChange, tables, scanVars
<1>16. CASE UNCHANGED vars
  BY <1>2, <1>16 DEF vars, tables, scanVars
<1> QED
  BY <1>4, <1>5, <1>6, <1>7, <1>8, <1>9, <1>10, <1>11, <1>12, <1>13, <1>14, <1>15,
     <1>16 DEF Next, Operations, Scan

\* Every step of scans, corrections, failures and crashes over the tables is a step
\* of the ledger, or none: a token is spent at most once, on an attendance of its
\* own student and class, or burnt, and nothing on record is lost.
THEOREM ImplementsLedger == Spec => LedgerSpec
<1> QED
  BY TypeInit, TypeStep, TableInit, TableStep, UsedInit, UsedStep, LedgerInit,
     LedgerStep, PTL DEF Spec, LedgerSpec, Ledger!Spec

\* What is on record of a student and class was recorded by one token of theirs, and
\* no other token of theirs is spent on a record: whatever repeats, races or crashes.
THEOREM AttendancesTraceToOneToken == Spec => []Ledger!OneTokenPerAttendance
<1>1. ASSUME TypeInv, TableInv PROVE Ledger!OneTokenPerAttendance
  <2>1. \A p \in Students \X Classes : AttendanceOf(p[1], p[2]) # "none" => Recorded(p[1], p[2])
    BY DEF AttendanceOf
  <2>2. ASSUME NEW m \in Nonces, TokenState(m) = "recorded"
        PROVE  \E i \in Ids : /\ assistances[i].nonce = m
                              /\ OwnerOf(m) = <<assistances[i].student, assistances[i].class>>
    BY <1>1, <2>2 DEF TokenState, OwnerOf, TableInv, RecordsMatchTokens
  <2>3. ASSUME NEW p \in Students \X Classes, Recorded(p[1], p[2])
        PROVE  \E n \in Nonces : /\ TokenState(n) = "recorded" /\ OwnerOf(n) = p
                                 /\ \A m \in Nonces \ {n} :
                                      TokenState(m) = "recorded" => OwnerOf(m) # p
    <3>1. PICK i \in Ids : assistances[i].student = p[1] /\ assistances[i].class = p[2]
      BY <2>3 DEF Recorded
    <3> DEFINE n == assistances[i].nonce
    <3>2. n \in Nonces
      BY <1>1, <3>1, RowType DEF Assistance
    <3>3. TokenState(n) = "recorded"
      BY <1>1, <3>1 DEF TokenState, TableInv, RecordsMatchTokens
    <3>4. OwnerOf(n) = p
      <4>1. OwnerOf(n) = <<p[1], p[2]>>
        BY <1>1, <3>1 DEF OwnerOf, TableInv, RecordsMatchTokens
      <4> QED
        BY <4>1
    <3>5. ASSUME NEW m \in Nonces \ {n}, TokenState(m) = "recorded", OwnerOf(m) = p
          PROVE  FALSE
      <4>1. PICK j \in Ids : /\ assistances[j].nonce = m
                             /\ OwnerOf(m) = <<assistances[j].student, assistances[j].class>>
        BY <2>2, <3>5
      <4>2. assistances[j].student = p[1] /\ assistances[j].class = p[2]
        BY <3>5, <4>1
      <4>3. j = i
        BY <1>1, <3>1, <4>2 DEF TableInv, OneRecordPerStudentClass
      <4> QED
        BY <3>5, <4>1, <4>3
    <3> QED
      BY <3>2, <3>3, <3>4, <3>5
  <2> QED
    BY <2>1, <2>3 DEF Ledger!OneTokenPerAttendance, Ledger!Pair
<1> QED
  BY <1>1, TypeInit, TypeStep, TableInit, TableStep, PTL DEF Spec
=============================================================================
