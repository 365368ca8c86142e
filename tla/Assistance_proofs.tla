-------------------------- MODULE Assistance_proofs --------------------------
(***************************************************************************)
(* Theorems about Assistance, for any number of classes, status requests,  *)
(* scans and corrections: it implements both of its components, so that    *)
(* what is proved of each of them alone holds for the two together; and a  *)
(* close is final.                                                         *)
(***************************************************************************)
EXTENDS Assistance, QrAttendance_proofs

GateProofs == INSTANCE ClassSessions_proofs WITH image <- rowImage
-----------------------------------------------------------------------------
\* GateProofs is the instance Gates under another name; so are its definitions.
LEMMA SameInit == Gates!Init => GateProofs!Init
BY DEF Gates!Init, GateProofs!Init, Gates!NewRow, GateProofs!NewRow, Gates!Status,
       GateProofs!Status, Gates!Column, GateProofs!Column

LEMMA SameNext == Gates!Next => GateProofs!Next
BY DEF Gates!Next, GateProofs!Next, Gates!Operations, GateProofs!Operations, Gates!Step,
       GateProofs!Step, Gates!Begin, GateProofs!Begin, Gates!FindClass,
       GateProofs!FindClass, Gates!FindTeaching, GateProofs!FindTeaching,
       Gates!FindRow, GateProofs!FindRow, Gates!SelectRow, GateProofs!SelectRow,
       Gates!Commit, GateProofs!Commit, Gates!UpdateRow, GateProofs!UpdateRow,
       Gates!Fail, GateProofs!Fail, Gates!FailAfterCommit,
       GateProofs!FailAfterCommit, Gates!SyncClass, GateProofs!SyncClass,
       Gates!Crash, GateProofs!Crash, Gates!Answer, GateProofs!Answer, Gates!GoTo,
       GateProofs!GoTo, Gates!Store, GateProofs!Store, Gates!Cells,
       GateProofs!Cells, Gates!Saved, GateProofs!Saved, Gates!HalfDone,
       GateProofs!HalfDone, Gates!Allows, GateProofs!Allows, Gates!Wanted,
       GateProofs!Wanted, Gates!FirstColumn, GateProofs!FirstColumn,
       Gates!LastColumn, GateProofs!LastColumn, Gates!NewRow, GateProofs!NewRow,
       Gates!InFlight, GateProofs!InFlight, Gates!Reading, GateProofs!Reading,
       Gates!Updating, GateProofs!Updating, Gates!Job, GateProofs!Job,
       Gates!Operation, GateProofs!Operation, Gates!Column, GateProofs!Column,
       Gates!Status, GateProofs!Status

LEMMA SameInFlight == \A r \in Requests : Gates!InFlight(r) <=> GateProofs!InFlight(r)
BY DEF Gates!InFlight, Gates!Reading, Gates!Updating,
       GateProofs!InFlight, GateProofs!Reading, GateProofs!Updating

LEMMA GatesAssumptions ==
    /\ GateProofs!TaughtAssumption /\ GateProofs!IntranetAssumption
    /\ GateProofs!NoRowAssumption /\ GateProofs!NoJobAssumption
BY GatesAssumption
   DEF GateProofs!TaughtAssumption, GateProofs!IntranetAssumption,
       GateProofs!NoRowAssumption, GateProofs!NoJobAssumption, GateProofs!Row, Row,
       GateProofs!Column, GateProofs!Status, Status, Gates!Job, GateProofs!Job,
       Gates!Operation, GateProofs!Operation
-----------------------------------------------------------------------------
\* Scans and corrections leave the class rows to others.
LEMMA QrKeepsSessions == Operations => UNCHANGED sessions
BY DEF Operations, IssueQr, AskQr, Scan, Present, FindClass, AssistanceExists,
       ConsumeQrNonce, InsertAssistance, FailScan, Correct, BeginEdit, SelectRow,
       UpdateRow, FailEdit, SetClock

LEMMA QrPart == [SystemNext]_systemVars => [Next]_vars
BY DEF SystemNext, systemVars, GateStep, QrStep, SystemCrash, Next

LEMMA GatesPart == [SystemNext]_systemVars => [GateProofs!Next]_(GateProofs!vars)
<1> SUFFICES ASSUME [SystemNext]_systemVars
             PROVE  [GateProofs!Next]_(GateProofs!vars)
  OBVIOUS
<1>1. CASE GateStep \/ SystemCrash
  BY <1>1, SameNext DEF GateStep, SystemCrash, Gates!Next
<1>2. CASE QrStep \/ UNCHANGED systemVars
  BY <1>2, QrKeepsSessions DEF QrStep, systemVars, vars, gateVars, GateProofs!vars
<1> QED
  BY <1>1, <1>2 DEF SystemNext

LEMMA SlotInvStep ==
    GateProofs!SlotInv /\ [SystemNext]_systemVars => GateProofs!SlotInv'
BY GatesPart, GatesAssumptions, GateProofs!SlotStep

LEMMA AloneInvStep ==
    GateProofs!SlotInv /\ GateProofs!AloneInv /\ [SystemNext]_systemVars
        => GateProofs!AloneInv'
BY GatesPart, GatesAssumptions, GateProofs!AloneStep

LEMMA GatesInit == SystemInit => GateProofs!SlotInv /\ GateProofs!AloneInv
BY SameInit, GatesAssumptions, GateProofs!SlotInit, GateProofs!AloneInit DEF SystemInit

\* Beside status requests and the synchronisation, scans and corrections do what
\* QrAttendance alone says, and so keep every promise proved of it.
THEOREM ImplementsQrAttendance == SystemSpec => Spec
<1>1. SystemInit => Init
  BY DEF SystemInit
<1> QED
  BY <1>1, QrPart, PTL DEF SystemSpec, Spec

\* Beside scans and corrections, status requests and the synchronisation do what
\* ClassSessions alone says.
THEOREM ImplementsClassSessions == SystemSpec => GateProofs!Spec
<1>1. SystemInit => GateProofs!Init
  BY SameInit DEF SystemInit
<1> QED
  BY <1>1, GatesPart, PTL DEF SystemSpec, GateProofs!Spec

\* In the whole module, too, a correction that was answered 200 did show in its row.
THEOREM SystemEditsTookEffect == SystemSpec => []AckedEditTookEffect
BY ImplementsQrAttendance, AckedEditsTookEffect, PTL

\* In the whole module a presence changes only by a correction that saw the editing
\* window of its class open, the window being moved by status requests.
THEOREM SystemEditsAreWarranted == SystemSpec => EditWarranted
BY ImplementsQrAttendance, EditsAreWarranted, PTL
-----------------------------------------------------------------------------
\* A step of the gates leaves a settled class closed unless it disturbs it: the only
\* requests that may write its row close the registration or are about editing, and
\* the row they have loaded is the row as it is.
LEMMA StaysClosed ==
    ASSUME GateProofs!SlotInv, GateProofs!AloneInv, [SystemNext]_systemVars,
           NEW c \in Classes \ disturbed, c \notin disturbed', Closed(c), ~Reopening(c)
    PROVE  Closed(c)'
<1>1. CASE UNCHANGED sessions
  BY <1>1 DEF Closed
<1>2. ASSUME NEW r \in Requests, GateProofs!Commit(r) PROVE Closed(c)'
  <2>1. /\ job[r] \in GateProofs!Job /\ GateProofs!InFlight(r)
        /\ column[r] \in {GateProofs!FirstColumn(job[r].op), GateProofs!LastColumn(job[r].op)}
    BY <1>2 DEF GateProofs!SlotInv, GateProofs!SlotOK, GateProofs!Commit,
                GateProofs!InFlight, GateProofs!Updating
  <2>2. CASE job[r].class # c
    BY <1>2, <2>2 DEF GateProofs!Commit, GateProofs!Store, Closed,
                      GateProofs!SlotInv, GateProofs!TypeOK
  <2>3. CASE job[r].class = c
    <3>1. job[r].op # "enableRegistration"
      BY <2>1, <2>3, SameInFlight DEF Reopening
    <3>2. column[r] = "registrationStatus" =>
            GateProofs!Wanted(job[r].op, column[r]) = "DISABLED"
      BY <2>1, <3>1 DEF GateProofs!FirstColumn, GateProofs!LastColumn, GateProofs!Wanted
    <3>3. LET row == [sessions[c] EXCEPT ![column[r]] =
                        GateProofs!Wanted(job[r].op, column[r])] IN
          sessions' = [sessions EXCEPT ![c] = row] /\ row \in GateProofs!Row
      BY <1>2, <2>3, GatesAssumptions, GateProofs!AloneCommit
    <3>4. /\ sessions \in [Classes -> GateProofs!Row \cup {NoRow}]
          /\ NoRow \notin GateProofs!Row
      BY GatesAssumptions DEF GateProofs!SlotInv, GateProofs!TypeOK, GateProofs!NoRowAssumption
    <3> QED
      BY <3>2, <3>3, <3>4 DEF Closed, GateProofs!Row, GateProofs!Column
  <2> QED
    BY <2>2, <2>3
<1>3. ASSUME NEW d \in IntranetClasses, GateProofs!SyncClass(d) PROVE Closed(c)'
  <2>1. d # c
    BY <1>3 DEF GateProofs!SyncClass, Closed
  <2> QED
    BY <1>3, <2>1 DEF GateProofs!SyncClass, GateProofs!Store, Closed,
                      GateProofs!SlotInv, GateProofs!TypeOK
<1>4. \/ UNCHANGED sessions
      \/ \E r \in Requests : GateProofs!Commit(r)
      \/ \E d \in IntranetClasses : GateProofs!SyncClass(d)
  BY GatesPart DEF GateProofs!vars, GateProofs!Next, GateProofs!Operations,
       GateProofs!Step, GateProofs!Begin, GateProofs!FindClass, GateProofs!FindTeaching,
       GateProofs!FindRow, GateProofs!SelectRow, GateProofs!UpdateRow, GateProofs!Fail,
       GateProofs!FailAfterCommit, GateProofs!Crash
<1> QED
  BY <1>1, <1>2, <1>3, <1>4

\* A scan gets past findClass only when its class is open.
LEMMA ScanProgress ==
    ASSUME TypeInv, [Next]_vars, NEW q \in Readers, rpc'[q] \in PastFindClass
    PROVE  /\ Scanning(q) /\ scanned'[q] = scanned[q]
           /\ \/ rpc[q] # "findClass"
              \/ Open(TokenOf(q).class, "registrationStatus")
<1> USE DEF PastFindClass, Scanning, ScanAwaits
<1>1. CASE SlotKept(q)
  BY <1>1 DEF SlotKept
<1>2. ASSUME NEW p \in Readers, Scan(p) PROVE SlotKept(q) \/ p = q
  BY <1>2 DEF Scan, Present, FindClass, AssistanceExists, ConsumeQrNonce,
              InsertAssistance, FailScan, ScanAt, AnswerScan, SlotKept, TypeInv, TypeOK
<1>3. CASE Scan(q)
  BY <1>3 DEF Scan, Present, FindClass, AssistanceExists, ConsumeQrNonce,
              InsertAssistance, FailScan, ScanAt, AnswerScan, TypeInv, TypeOK
<1>4. CASE Crash
  BY <1>4 DEF Crash, TypeInv, TypeOK
<1>5. SlotKept(q) \/ (\E p \in Readers : Scan(p)) \/ Crash
  BY DEF Next, Operations, IssueQr, AskQr, Correct, BeginEdit, SelectRow, UpdateRow,
         FailEdit, SetClock, SessionsChange, scanVars, vars, SlotKept
<1> QED
  BY <1>1, <1>2, <1>3, <1>4, <1>5

\* Tokens are signed once.
LEMMA ClaimsStay == TypeInv /\ [Next]_vars => ClaimsKept
<1> SUFFICES ASSUME TypeInv, [Next]_vars PROVE ClaimsKept
  OBVIOUS
<1>1. ASSUME NEW n \in Nonces, IssueQr(n) PROVE ClaimsKept
  BY <1>1 DEF IssueQr, ClaimsKept, TypeInv, TypeOK, TokensOK
<1>2. UNCHANGED claims \/ \E n \in Nonces : IssueQr(n)
  BY DEF Next, Operations, AskQr, Scan, Present, FindClass, AssistanceExists,
         ConsumeQrNonce, InsertAssistance, FailScan, Correct, BeginEdit, SelectRow,
         UpdateRow, FailEdit, SetClock, Crash, SessionsChange, tables, vars
<1> QED
  BY <1>1, <1>2 DEF ClaimsKept

\* No scan of a closed class gets past findClass.
LEMMA StaysDrained ==
    ASSUME TypeInv, [Next]_vars, NEW c \in Classes, Closed(c), Drained(c)
    PROVE  Drained(c)'
<1> SUFFICES ASSUME NEW q \in Readers, rpc'[q] \in PastFindClass
             PROVE  TokenOf(q)'.class # c
  BY DEF Drained, Scanning, ScanAwaits, PastFindClass
<1>1. /\ Scanning(q) /\ scanned'[q] = scanned[q]
      /\ rpc[q] # "findClass" \/ Open(TokenOf(q).class, "registrationStatus")
  BY ScanProgress
<1>2. TokenOf(q)' = TokenOf(q)
  BY <1>1, ScanToken, ClaimsStay DEF TokenOf, ClaimsKept
<1> QED
  BY <1>1, <1>2 DEF Drained, Closed, Open, Enables

\* A class whose scans have drained gets no new row.
LEMMA RowsStay ==
    ASSUME TypeInv, [Next]_vars, NEW c \in Classes, Drained(c)
    PROVE  RowsOf(c)' = RowsOf(c)
<1>1. CASE UNCHANGED assistances
  BY <1>1 DEF RowsOf, Ids
<1>2. ASSUME NEW q \in Readers, rpc[q] = "insertAssistance", AddRow(q)
      PROVE  RowsOf(c)' = RowsOf(c)
  <2>1. Scanning(q) /\ TokenOf(q).class # c
    BY <1>2 DEF Scanning, ScanAwaits, Drained
  <2> DEFINE new == Len(assistances) + 1
  <2>2. /\ Ids' = Ids \cup {new}
        /\ \A i \in Ids : assistances'[i] = assistances[i]
        /\ assistances'[new] = [student |-> TokenOf(q).student, class |-> TokenOf(q).class,
                                present |-> TRUE, nonce |-> scanned[q]]
    BY <1>2, <2>1, AddRowEffect
  <2>3. assistances'[new].class # c
    BY <2>1, <2>2
  <2> QED
    BY <2>2, <2>3 DEF RowsOf
<1>3. ASSUME NEW e \in Editors, SaveRow(e), SetPresent(edit[e].id, edit[e].present)
      PROVE  RowsOf(c)' = RowsOf(c)
  <2>1. Ids' = Ids /\ \A i \in Ids : assistances'[i].class = assistances[i].class
    BY <1>3, SaveRowEffect, SetPresentEffect
  <2> QED
    BY <2>1 DEF RowsOf
<1> QED
  BY <1>1, <1>2, <1>3, TableChange

\* For any number of classes, status requests, scans and corrections: once a close
\* has settled, the attendance of the class gets no new row, until a professor asks
\* to reopen it or it is disturbed.
THEOREM ClosesAreFinal == SystemSpec => CloseIsFinal
<1> DEFINE Final ==
      \A c \in Classes \ disturbed : Settled(c) =>
         /\ RowsOf(c)' = RowsOf(c)
         /\ Settled(c)' \/ Reopening(c)' \/ c \in disturbed'
<1>1. TypeInv /\ GateProofs!SlotInv /\ GateProofs!AloneInv /\ [SystemNext]_systemVars
        => [Final]_systemVars
  <2> SUFFICES ASSUME TypeInv, GateProofs!SlotInv, GateProofs!AloneInv,
                      [SystemNext]_systemVars, NEW c \in Classes \ disturbed, Settled(c)
               PROVE  /\ RowsOf(c)' = RowsOf(c)
                      /\ Settled(c)' \/ Reopening(c)' \/ c \in disturbed'
    OBVIOUS
  <2>1. [Next]_vars
    BY QrPart
  <2>2. Closed(c) /\ ~Reopening(c) /\ Drained(c)
    BY DEF Settled
  <2>3. RowsOf(c)' = RowsOf(c) /\ Drained(c)'
    BY <2>1, <2>2, RowsStay, StaysDrained
  <2>4. c \in disturbed' \/ Closed(c)'
    BY <2>2, StaysClosed
  <2> QED
    BY <2>3, <2>4 DEF Settled
<1>2. SystemInit => TypeInv
  BY TypeInit DEF SystemInit
<1>3. TypeInv /\ [SystemNext]_systemVars => TypeInv'
  BY QrPart, TypeStep
<1> QED
  BY <1>1, <1>2, <1>3, GatesInit, SlotInvStep, AloneInvStep, PTL
     DEF SystemSpec, CloseIsFinal
=============================================================================
