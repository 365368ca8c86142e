------------------------ MODULE ClassSessions_proofs ------------------------
(***************************************************************************)
(* Theorems about ClassSessions, for any number of classes and requests.   *)
(***************************************************************************)
EXTENDS ClassSessions, TLAPS

\* What the row operators return.
LEMMA NewRowType == \A s \in Status : NewRow(s) \in Row
BY DEF NewRow, Row, Status, Column

LEMMA SavedType ==
    ASSUME NEW row \in Row, NEW ent \in Row, NEW img \in Row
    PROVE  Saved(row, ent, img) \in Row
BY DEF Saved, Row

LEMMA CellsType ==
    ASSUME NEW row \in Row
    PROVE  Cells(row) \in SUBSET (Column \X Status)
BY DEF Cells, Row

LEMMA WantedType == \A op, x : Wanted(op, x) \in Status
BY DEF Wanted, Status

LEMMA ColumnType == \A op : FirstColumn(op) \in Column /\ LastColumn(op) \in Column
BY DEF FirstColumn, LastColumn, Column

LEMMA StoreType ==
    ASSUME TypeOK, NEW c \in Classes, NEW row \in Row, Store(c, row)
    PROVE  /\ sessions' \in [Classes -> Row \cup {NoRow}]
           /\ held' \in [Requests -> SUBSET (Column \X Status)]
BY CellsType DEF Store, TypeOK

LEMMA AnswerType ==
    ASSUME TypeOK, NEW r \in Requests, NEW a \in Answered, Answer(r, a)
    PROVE  /\ pc' \in [Requests -> Reading \cup Updating \cup Answered]
           /\ seen' \in [Requests -> Row \cup {NoRow}]
           /\ entity' \in [Requests -> Row \cup {NoRow}]
           /\ image' \in [Requests -> Row \cup {NoRow}]
BY DEF Answer, GoTo, TypeOK
-----------------------------------------------------------------------------
\* The slots keep their types and their data, whatever the other requests do.
SlotInv == TypeOK /\ \A r \in Requests : SlotOK(r)

\* A request that is answered leaves the other slots as they are.
LEMMA AnswerSlots ==
    ASSUME SlotInv, NEW r \in Requests, NEW a \in Answered, Answer(r, a),
           pc[r] # "free",
           UNCHANGED <<sessions, job, column, held>>,
           disturbed' \subseteq Classes
    PROVE  SlotInv'
<1>1. TypeOK'
  BY AnswerType DEF SlotInv, TypeOK
<1>2. \A q \in Requests : SlotOK(q)'
  BY DEF SlotInv, TypeOK, SlotOK, Answer, GoTo, Reading, Updating, Answered
<1> QED
  BY <1>1, <1>2 DEF SlotInv

\* A row that changes stays inside what its readers are recorded to have held.
LEMMA StoreSlots ==
    ASSUME SlotInv, NEW c \in Classes, NEW row \in Row, Store(c, row)
    PROVE  \A q \in Requests :
             pc[q] \in Updating \cup {"findTeaching"} =>
               /\ sessions'[job[q].class] \in Row
               /\ Cells(sessions'[job[q].class]) \subseteq held'[q]
               /\ held[q] \subseteq held'[q]
<1> SUFFICES ASSUME NEW q \in Requests, pc[q] \in Updating \cup {"findTeaching"}
             PROVE  /\ sessions'[job[q].class] \in Row
                    /\ Cells(sessions'[job[q].class]) \subseteq held'[q]
                    /\ held[q] \subseteq held'[q]
  OBVIOUS
<1>1. /\ job[q].class \in Classes
      /\ sessions[job[q].class] \in Row
      /\ Cells(sessions[job[q].class]) \subseteq held[q]
  BY DEF SlotInv, SlotOK, Updating, Job
<1>2. CASE job[q].class = c
  BY <1>1, <1>2 DEF Store, SlotInv, TypeOK
<1>3. CASE job[q].class # c
  BY <1>1, <1>3 DEF Store, SlotInv, TypeOK
<1> QED
  BY <1>2, <1>3

\* An update leaves a row, and the cell it is about has held what it wanted:
\* either the update set it, or save had just read it so.
LEMMA CommitEffect ==
    ASSUME SlotInv, NEW r \in Requests, Commit(r)
    PROVE  /\ Saved(sessions[job[r].class], entity[r], image[r]) \in Row
           /\ sessions' \in [Classes -> Row \cup {NoRow}]
           /\ held' \in [Requests -> SUBSET (Column \X Status)]
           /\ <<column[r], Wanted(job[r].op, column[r])>> \in held'[r]
<1> USE DEF SlotInv
<1> DEFINE c == job[r].class
           row == Saved(sessions[c], entity[r], image[r])
<1>1. /\ job[r] \in Job /\ c \in Classes /\ column[r] \in Column
      /\ sessions[c] \in Row /\ entity[r] \in Row /\ image[r] \in Row
  BY DEF Commit, SlotOK, TypeOK, Updating, Job
<1>2. row \in Row
  BY <1>1, SavedType
<1>3. held'[r] = held[r] \cup Cells(row) /\ Cells(image[r]) \subseteq held[r]
  BY DEF Commit, Store, Updating, SlotOK, TypeOK
<1>4. CASE image[r][column[r]] = Wanted(job[r].op, column[r])
  BY <1>1, <1>2, <1>3, <1>4, StoreType DEF Commit, Cells
<1>5. CASE image[r][column[r]] # Wanted(job[r].op, column[r])
  <2>1. row[column[r]] = Wanted(job[r].op, column[r])
    BY <1>1, <1>5 DEF Saved, SlotOK, Commit
  <2> QED
    BY <1>1, <1>2, <1>3, <2>1, StoreType DEF Commit, Cells
<1> QED
  BY <1>4, <1>5

LEMMA SlotInit == Init => SlotInv
<1> SUFFICES ASSUME Init PROVE SlotInv
  OBVIOUS
<1>1. TypeOK
  BY NewRowType DEF Init, TypeOK, Column, Answered
<1>2. \A r \in Requests : SlotOK(r)
  BY DEF Init, SlotOK, Reading, Updating
<1> QED
  BY <1>1, <1>2 DEF SlotInv

LEMMA SlotStep == SlotInv /\ [Next]_vars => SlotInv'
<1> SUFFICES ASSUME SlotInv, [Next]_vars PROVE SlotInv'
  OBVIOUS
<1> USE DEF SlotInv
<1>1. ASSUME NEW r \in Requests, NEW j \in Job, Begin(r, j)
      PROVE  SlotInv'
  <2>1. TypeOK'
    BY <1>1, ColumnType DEF Begin, TypeOK, GoTo, Reading, Job
  <2>2. \A q \in Requests : SlotOK(q)'
    BY <1>1 DEF Begin, TypeOK, GoTo, Reading, Updating, SlotOK, InFlight
  <2> QED
    BY <2>1, <2>2
<1>2. ASSUME NEW r \in Requests, FindClass(r)
      PROVE  SlotInv'
  <2>0. job[r] \in Job /\ job[r].class \in Classes
    BY <1>2 DEF FindClass, SlotOK, Job
  <2>1. CASE sessions[job[r].class] = NoRow
    <3>1. /\ Answer(r, "refused") /\ pc[r] # "free"
          /\ UNCHANGED <<sessions, job, column, held>>
          /\ disturbed' \subseteq Classes
      BY <1>2, <2>1 DEF FindClass, TypeOK
    <3> QED
      BY <3>1, AnswerSlots DEF Answered
  <2>2. CASE sessions[job[r].class] # NoRow
    <3>1. sessions[job[r].class] \in Row
      BY <2>0, <2>2 DEF TypeOK
    <3>2. TypeOK'
      BY <1>2, <2>2, <3>1, CellsType DEF FindClass, TypeOK, GoTo, Reading
    <3>3. \A q \in Requests : SlotOK(q)'
      BY <1>2, <2>2, <3>1 DEF FindClass, TypeOK, GoTo, Reading, Updating, SlotOK
    <3> QED
      BY <3>2, <3>3
  <2> QED
    BY <2>1, <2>2
<1>3. ASSUME NEW r \in Requests, FindTeaching(r)
      PROVE  SlotInv'
  <2>1. CASE Answer(r, "refused")
    <3>1. /\ pc[r] # "free" /\ disturbed' \subseteq Classes
          /\ UNCHANGED <<sessions, job, column, held>>
      BY <1>3 DEF FindTeaching, TypeOK
    <3> QED
      BY <2>1, <3>1, AnswerSlots DEF Answered
  <2>2. CASE GoTo(r, "findRow") /\ UNCHANGED <<seen, entity, image>>
    <3>1. TypeOK'
      BY <1>3, <2>2 DEF FindTeaching, TypeOK, GoTo, Updating
    <3>2. \A q \in Requests : SlotOK(q)'
      BY <1>3, <2>2 DEF FindTeaching, TypeOK, GoTo, Reading, Updating, SlotOK
    <3> QED
      BY <3>1, <3>2
  <2> QED
    BY <1>3, <2>1, <2>2 DEF FindTeaching
<1>4. ASSUME NEW r \in Requests, FindRow(r)
      PROVE  SlotInv'
  <2>1. entity'[r] \in Row /\ entity'[r][column[r]] = Wanted(job[r].op, column[r])
    BY <1>4, WantedType DEF FindRow, TypeOK, SlotOK, Updating, Row
  <2>2. TypeOK'
    BY <1>4, <2>1 DEF FindRow, TypeOK, GoTo, Updating
  <2>3. \A q \in Requests : SlotOK(q)'
    BY <1>4, <2>1 DEF FindRow, TypeOK, GoTo, Reading, Updating, SlotOK
  <2> QED
    BY <2>2, <2>3
<1>5. ASSUME NEW r \in Requests, SelectRow(r)
      PROVE  SlotInv'
  <2>1. TypeOK'
    BY <1>5 DEF SelectRow, TypeOK, GoTo, Updating, SlotOK
  <2>2. \A q \in Requests : SlotOK(q)'
    BY <1>5 DEF SelectRow, TypeOK, GoTo, Reading, Updating, SlotOK
  <2> QED
    BY <2>1, <2>2
<1>6. ASSUME NEW r \in Requests, UpdateRow(r)
      PROVE  SlotInv'
  <2> DEFINE c == job[r].class
             row == Saved(sessions[c], entity[r], image[r])
             op == job[r].op
  <2>0. /\ job[r] \in Job /\ c \in Classes /\ op \in Operation
        /\ column[r] \in {FirstColumn(op), LastColumn(op)}
        /\ pc[r] = "updateRow" /\ Store(c, row) /\ row \in Row
    BY CommitEffect, <1>6 DEF UpdateRow, Commit, SlotOK, Updating, Job
  <2>1. \A q \in Requests :
             pc[q] \in Updating \cup {"findTeaching"} =>
               /\ sessions'[job[q].class] \in Row
               /\ Cells(sessions'[job[q].class]) \subseteq held'[q]
               /\ held[q] \subseteq held'[q]
    BY <2>0, StoreSlots
  <2>2. CASE column[r] # LastColumn(op)
    <3>1. /\ column' = [column EXCEPT ![r] = LastColumn(op)]
          /\ pc' = [pc EXCEPT ![r] = "findRow"]
          /\ UNCHANGED <<seen, entity, image, job, disturbed>>
      BY <1>6, <2>2 DEF UpdateRow, GoTo
    <3>2. TypeOK'
      BY CommitEffect, <1>6, <3>1, ColumnType DEF UpdateRow, TypeOK, Updating
    <3>3. SlotOK(r)'
      BY CommitEffect, <1>6, <2>0, <2>1, <2>2, <3>1 
      DEF UpdateRow, TypeOK, Updating, Reading, SlotOK
    <3>4. \A q \in Requests \ {r} : SlotOK(q)'
      BY <2>1, <3>1 DEF TypeOK, Updating, Reading, SlotOK
    <3> QED
      BY <3>2, <3>3, <3>4
  <2>3. CASE column[r] = LastColumn(op)
    <3>1. Answer(r, "ok") /\ UNCHANGED <<column, job, disturbed>>
      BY <1>6, <2>3 DEF UpdateRow
    <3>2. TypeOK'
      BY CommitEffect, <1>6, <3>1, AnswerType DEF UpdateRow, TypeOK, Answered
    <3>3. \A q \in Requests : SlotOK(q)'
      BY <2>0, <2>1, <3>1
      DEF Answer, GoTo, TypeOK, Updating, Reading, SlotOK
    <3> QED
      BY <3>2, <3>3
  <2> QED
    BY <2>2, <2>3
<1>7. ASSUME NEW r \in Requests, Fail(r)
      PROVE  SlotInv'
  <2>1. TypeOK'
    BY <1>7, AnswerType DEF Fail, TypeOK, Answered, InFlight, SlotOK, Reading, Updating, Job
  <2>2. \A q \in Requests : SlotOK(q)'
    BY <1>7 DEF Fail, TypeOK, GoTo, Answer, Reading, Updating, SlotOK, InFlight
  <2> QED
    BY <2>1, <2>2
<1>8. ASSUME NEW r \in Requests, FailAfterCommit(r)
      PROVE  SlotInv'
  <2>1. TypeOK'
    BY CommitEffect, <1>8, AnswerType
    DEF FailAfterCommit, TypeOK, Answered, Commit, SlotOK, Job
  <2>2. \A q \in Requests :
             pc[q] \in Updating \cup {"findTeaching"} =>
               /\ sessions'[job[q].class] \in Row
               /\ Cells(sessions'[job[q].class]) \subseteq held'[q]
               /\ held[q] \subseteq held'[q]
    BY CommitEffect, <1>8, StoreSlots DEF FailAfterCommit, Commit, SlotOK, Job
  <2>3. \A q \in Requests : SlotOK(q)'
    BY <1>8, <2>2
    DEF FailAfterCommit, Commit, TypeOK, GoTo, Answer, Reading, Updating, SlotOK
  <2> QED
    BY <2>1, <2>3
<1>9. ASSUME NEW c \in IntranetClasses, SyncClass(c)
       PROVE  SlotInv'
  <2>1. c \in Classes
    BY IntranetAssumption
  <2>2. PICK row \in Row : Store(c, row)
    BY <1>9, <2>1, NewRowType DEF SyncClass, TypeOK, Row, Status, Column
  <2>3. TypeOK'
    BY <1>9, <2>1, <2>2, StoreType DEF SyncClass, TypeOK
  <2>4. \A q \in Requests : SlotOK(q)'
    BY <1>9, <2>1, <2>2, StoreSlots DEF SyncClass, TypeOK, SlotOK, Reading, Updating
  <2> QED
    BY <2>3, <2>4
<1>10. CASE Crash
  <2>1. TypeOK'
    BY <1>10 DEF Crash, TypeOK, Answered
  <2>2. \A q \in Requests : SlotOK(q)'
    BY <1>10 DEF Crash, TypeOK, SlotOK, Reading, Updating, InFlight
  <2> QED
    BY <2>1, <2>2
<1>11. CASE UNCHANGED vars
  BY <1>11 DEF vars, TypeOK, SlotOK
<1> QED
  BY <1>1, <1>2, <1>3, <1>4, <1>5, <1>6, <1>7, <1>8, <1>9, <1>10, <1>11
  DEF Next, Operations, Step

\* Every variable keeps its type: the rows of class_sessions stay rows of two
\* statuses through any mix of overlapping saves, failures and synchronisations.
THEOREM TypeCorrect == Spec => []TypeOK
<1>1. SlotInv => TypeOK
  BY DEF SlotInv
<1> QED
  BY <1>1, SlotInit, SlotStep, PTL DEF Spec
-----------------------------------------------------------------------------
LEMMA AckStep == SlotInv /\ AckTookEffect /\ [Next]_vars => AckTookEffect'
<1> SUFFICES ASSUME SlotInv, AckTookEffect, [Next]_vars PROVE AckTookEffect'
  OBVIOUS
<1> USE DEF SlotInv
<1>1. ASSUME NEW r \in Requests, UpdateRow(r)
      PROVE  AckTookEffect'
  <2>1. <<column[r], Wanted(job[r].op, column[r])>> \in held'[r]
    BY <1>1, CommitEffect DEF UpdateRow
  <2>2. held[r] \subseteq held'[r]
    BY <1>1 DEF UpdateRow, Commit, Store, TypeOK, Updating
  <2>3. column[r] # LastColumn(job[r].op) \/ pc' = [pc EXCEPT ![r] = "ok"]
    BY <1>1 DEF UpdateRow, Answer, GoTo
  <2>4. ASSUME NEW q \in Requests, pc'[q] = "ok",
               NEW x \in {FirstColumn(job[q].op), LastColumn(job[q].op)}
        PROVE  <<x, Wanted(job[q].op, x)>> \in held'[q]
    <3>1. CASE q = r
      <4>1. column[r] = LastColumn(job[r].op)
        BY <1>1, <2>4, <3>1 DEF UpdateRow, GoTo, TypeOK
      <4>2. CASE x = column[r]
        BY <2>1, <3>1, <4>2
      <4>3. CASE x # column[r]
        BY <1>1, <2>2, <2>4, <3>1, <4>1, <4>3
        DEF UpdateRow, Commit, SlotOK, Updating
      <4> QED
        BY <4>2, <4>3
    <3>2. CASE q # r
      <4>1. pc[q] = "ok"
        BY <1>1, <2>4, <3>2 DEF UpdateRow, Answer, GoTo, TypeOK
      <4>2. held'[q] = held[q]
        BY <1>1, <4>1 DEF UpdateRow, Commit, Store, Updating
      <4> QED
        BY <2>4, <4>1, <4>2 DEF AckTookEffect
    <3> QED
      BY <3>1, <3>2
  <2> QED
    BY <1>1, <2>4 DEF AckTookEffect, UpdateRow
<1>2. ASSUME NEW r \in Requests, NEW j \in Job, Begin(r, j)
      PROVE  AckTookEffect'
  BY <1>2 DEF Begin, GoTo, AckTookEffect, TypeOK
<1>3. ASSUME NEW r \in Requests, FindClass(r)
      PROVE  AckTookEffect'
  BY <1>3 DEF FindClass, Answer, GoTo, AckTookEffect, TypeOK
<1>4. ASSUME NEW r \in Requests, FindTeaching(r) \/ FindRow(r) \/ SelectRow(r)
      PROVE  AckTookEffect'
  BY <1>4 DEF FindTeaching, FindRow, SelectRow, Answer, GoTo, AckTookEffect, TypeOK
<1>5. ASSUME NEW r \in Requests, Fail(r)
      PROVE  AckTookEffect'
  BY <1>5 DEF Fail, Answer, GoTo, AckTookEffect, TypeOK
<1>6. ASSUME NEW r \in Requests, FailAfterCommit(r)
      PROVE  AckTookEffect'
  BY <1>6 DEF FailAfterCommit, Commit, Store, Answer, GoTo, AckTookEffect, TypeOK,
              Updating
<1>7. ASSUME NEW c \in IntranetClasses, SyncClass(c)
      PROVE  AckTookEffect'
  BY <1>7 DEF SyncClass, Store, AckTookEffect, TypeOK, Updating
<1>8. CASE Crash
  BY <1>8 DEF Crash, AckTookEffect, TypeOK
<1>9. CASE UNCHANGED vars
  BY <1>9 DEF vars, AckTookEffect
<1> QED
  BY <1>1, <1>2, <1>3, <1>4, <1>5, <1>6, <1>7, <1>8, <1>9
  DEF Next, Operations, Step

\* A request answered 200 took effect: the class row held the status it asked for
\* at some moment after it was read, however many stale saves ran beside it.
THEOREM AckedRequestsTookEffect == Spec => []AckTookEffect
<1>1. Init => AckTookEffect
  BY DEF Init, AckTookEffect
<1> QED
  BY <1>1, SlotInit, SlotStep, AckStep, PTL DEF Spec
-----------------------------------------------------------------------------
\* Registration and editing exclude each other on a class that only one request
\* at a time has touched: what that request checked still holds when it commits.
AloneInv == (\A r \in Requests : AloneOK(r)) /\ ExclusiveUnlessDisturbed

\* On a row nobody has touched since it was read, save sets the one column.
LEMMA SavedAlone ==
    ASSUME NEW row \in Row, NEW x \in Column, NEW v \in Status
    PROVE  Saved(row, [row EXCEPT ![x] = v], row) = [row EXCEPT ![x] = v]
BY DEF Saved, Row

LEMMA AloneCommit ==
    ASSUME SlotInv, AloneInv, NEW r \in Requests, Commit(r),
           job[r].class \notin disturbed
    PROVE  LET c == job[r].class
               x == column[r]
               row == [sessions[c] EXCEPT ![x] = Wanted(job[r].op, x)] IN
           /\ sessions' = [sessions EXCEPT ![c] = row]
           /\ row \in Row
<1> DEFINE c == job[r].class
           x == column[r]
<1>1. c \in Classes /\ sessions[c] \in Row /\ x \in Column
  BY DEF SlotInv, Commit, SlotOK, TypeOK, Updating, Job
<1>2. Wanted(job[r].op, x) \in Status
  BY WantedType
<1>3. /\ entity[r] = [sessions[c] EXCEPT ![x] = Wanted(job[r].op, x)]
      /\ image[r] = sessions[c]
  BY DEF AloneInv, AloneOK, Commit, InFlight, Updating
<1>4. [sessions[c] EXCEPT ![x] = Wanted(job[r].op, x)] \in Row
  BY <1>1, <1>2 DEF Row
<1>5. Saved(sessions[c], entity[r], image[r])
        = [sessions[c] EXCEPT ![x] = Wanted(job[r].op, x)]
  BY <1>1, <1>2, <1>3, SavedAlone
<1> QED
  BY <1>4, <1>5 DEF Commit, Store

\* The last update of a request that was alone leaves one of the two disabled.
LEMMA LastCommitExcludes ==
    ASSUME SlotInv, AloneInv, NEW r \in Requests, Commit(r),
           job[r].class \notin disturbed, column[r] = LastColumn(job[r].op)
    PROVE  \E x \in Column : sessions'[job[r].class][x] = "DISABLED"
<1> DEFINE c == job[r].class
           op == job[r].op
<1>1. /\ c \in Classes /\ op \in Operation /\ sessions[c] \in Row
      /\ pc[r] = "updateRow"
  BY DEF SlotInv, Commit, SlotOK, Updating, Job
<1>2. sessions'[c] = [sessions[c] EXCEPT ![column[r]] = Wanted(op, column[r])]
  BY <1>1, AloneCommit DEF SlotInv, TypeOK
<1>3. /\ LastColumn(op) \in Column
      /\ sessions'[c][LastColumn(op)] = Wanted(op, LastColumn(op))
  BY <1>1, <1>2, ColumnType DEF Row
<1>4. CASE op # "enableEditing"
  BY <1>1, <1>3, <1>4 DEF Wanted, LastColumn
<1>5. CASE op = "enableEditing"
  <2>1. sessions[c]["registrationStatus"] = "DISABLED"
    BY <1>1, <1>5 DEF AloneInv, AloneOK, InFlight, Updating, HalfDone, Allows
  <2>2. sessions'[c]["registrationStatus"] = "DISABLED"
    BY <1>1, <1>2, <1>5, <2>1 DEF LastColumn, Row, Column
  <2> QED
    BY <2>2 DEF Column
<1> QED
  BY <1>4, <1>5

LEMMA AloneInit == Init => AloneInv
<1> SUFFICES ASSUME Init PROVE AloneInv
  OBVIOUS
<1>1. \A r \in Requests : AloneOK(r)
  BY DEF Init, AloneOK, InFlight, Reading, Updating
<1>2. ExclusiveUnlessDisturbed
  BY DEF Init, ExclusiveUnlessDisturbed, BothEnabled, NewRow, Column
<1> QED
  BY <1>1, <1>2 DEF AloneInv

LEMMA AloneStep == SlotInv /\ AloneInv /\ [Next]_vars => AloneInv'
<1> SUFFICES ASSUME SlotInv, AloneInv, [Next]_vars PROVE AloneInv'
  OBVIOUS
<1> USE DEF SlotInv
<1>1. ASSUME NEW r \in Requests, NEW j \in Job, Begin(r, j)
      PROVE  AloneInv'
  <2>1. \A q \in Requests : AloneOK(q)'
    BY <1>1 DEF Begin, GoTo, AloneInv, AloneOK, InFlight, HalfDone, TypeOK,
                Reading, Updating, Job
  <2>2. ExclusiveUnlessDisturbed'
    BY <1>1 DEF Begin, GoTo, AloneInv, ExclusiveUnlessDisturbed, BothEnabled,
                InFlight, HalfDone, TypeOK, Reading, Updating
  <2> QED
    BY <2>1, <2>2 DEF AloneInv
<1>2. ASSUME NEW r \in Requests, FindClass(r)
      PROVE  AloneInv'
  <2>1. \A q \in Requests : AloneOK(q)'
    BY <1>2 DEF FindClass, Answer, GoTo, AloneInv, AloneOK, InFlight, HalfDone,
                TypeOK, Reading, Updating
  <2>2. ExclusiveUnlessDisturbed'
    BY <1>2 DEF FindClass, Answer, GoTo, AloneInv, ExclusiveUnlessDisturbed,
                BothEnabled, HalfDone, TypeOK, Updating
  <2> QED
    BY <2>1, <2>2 DEF AloneInv
<1>3. ASSUME NEW r \in Requests, FindTeaching(r)
      PROVE  AloneInv'
  <2>1. \A q \in Requests \ {r} : AloneOK(q)'
    BY <1>3 DEF FindTeaching, Answer, GoTo, AloneInv, AloneOK, InFlight, HalfDone,
                TypeOK, Reading, Updating
  <2>2. AloneOK(r)'
    <3>1. CASE Answer(r, "refused")
      BY <1>3, <3>1 DEF Answer, GoTo, AloneOK, InFlight, TypeOK, Reading, Updating
    <3>2. CASE GoTo(r, "findRow") /\ Allows(job[r].op, seen[r])
      <4>1. pc' = [pc EXCEPT ![r] = "findRow"] /\ pc'[r] = "findRow"
        BY <1>3, <3>2 DEF GoTo, TypeOK
      <4>2. ~HalfDone(r)'
        BY <1>3 DEF FindTeaching, HalfDone, SlotOK, Reading, FirstColumn
      <4>3. InFlight(r) /\ \A q \in Requests \ {r} : InFlight(q)' => InFlight(q)
        BY <1>3, <4>1 DEF FindTeaching, InFlight, TypeOK, Reading, Updating
      <4> QED
        BY <1>3, <3>2, <4>1, <4>2, <4>3
        DEF FindTeaching, AloneInv, AloneOK, Updating
    <3> QED
      BY <1>3, <3>1, <3>2 DEF FindTeaching
  <2>3. ExclusiveUnlessDisturbed'
    BY <1>3 DEF FindTeaching, Answer, GoTo, AloneInv, ExclusiveUnlessDisturbed,
                BothEnabled, HalfDone, TypeOK, Updating
  <2> QED
    BY <2>1, <2>2, <2>3 DEF AloneInv
<1>4. ASSUME NEW r \in Requests, FindRow(r) \/ SelectRow(r)
      PROVE  AloneInv'
  <2>1. \A q \in Requests : AloneOK(q)'
    BY <1>4 DEF FindRow, SelectRow, GoTo, AloneInv, AloneOK, InFlight, HalfDone,
                TypeOK, Reading, Updating
  <2>2. ExclusiveUnlessDisturbed'
    BY <1>4 DEF FindRow, SelectRow, GoTo, AloneInv, ExclusiveUnlessDisturbed,
                BothEnabled, HalfDone, TypeOK, Updating
  <2> QED
    BY <2>1, <2>2 DEF AloneInv
<1>5. ASSUME NEW r \in Requests, UpdateRow(r)
      PROVE  AloneInv'
  <2> DEFINE c == job[r].class
             op == job[r].op
  <2>0. /\ c \in Classes /\ op \in Operation /\ pc[r] = "updateRow"
        /\ column[r] \in {FirstColumn(op), LastColumn(op)}
        /\ UNCHANGED <<job, disturbed>>
        /\ job[r] # NoJob
    BY <1>5, NoJobAssumption DEF UpdateRow, Commit, SlotOK, Updating, Job
  <2>1. \A d \in Classes \ {c} : sessions'[d] = sessions[d]
    BY <1>5 DEF UpdateRow, Commit, Store, TypeOK
  <2>2. \A q \in Requests \ {r} :
          /\ pc'[q] = pc[q] /\ column'[q] = column[q] /\ seen'[q] = seen[q]
          /\ entity'[q] = entity[q] /\ image'[q] = image[q]
    BY <1>5 DEF UpdateRow, Answer, GoTo, TypeOK
  <2>3. ASSUME c \notin disturbed
        PROVE  \A q \in Requests \ {r} : InFlight(q) => job[q].class # c
    BY <2>0, <2>3 DEF AloneInv, AloneOK, InFlight, Updating
  <2>4. ASSUME c \notin disturbed
        PROVE  /\ sessions[c] \in Row
               /\ IF HalfDone(r) THEN sessions[c]["registrationStatus"] = "ENABLED"
                  ELSE Allows(op, sessions[c])
               /\ sessions'[c] = [sessions[c] EXCEPT
                                    ![column[r]] = Wanted(op, column[r])]
    <3>1. Commit(r)
      BY <1>5 DEF UpdateRow
    <3>2. sessions[c] \in Row
      BY <2>0 DEF SlotOK, Updating
    <3>3. IF HalfDone(r) THEN sessions[c]["registrationStatus"] = "ENABLED"
          ELSE Allows(op, sessions[c])
      BY <2>0, <2>4 DEF AloneInv, AloneOK, InFlight, Updating
    <3>4. sessions' = [sessions EXCEPT
                         ![c] = [sessions[c] EXCEPT
                                   ![column[r]] = Wanted(op, column[r])]]
      BY <2>4, <3>1, AloneCommit
    <3> QED
      BY <2>0, <3>2, <3>3, <3>4 DEF TypeOK
  <2>5. \/ /\ column[r] # LastColumn(op) /\ pc'[r] = "findRow"
           /\ column'[r] = LastColumn(op)
        \/ column[r] = LastColumn(op) /\ pc'[r] = "ok"
    BY <1>5 DEF UpdateRow, Answer, GoTo, TypeOK
  <2>6. \A q \in Requests \ {r} : HalfDone(q)' <=> HalfDone(q)
    BY <2>0, <2>2 DEF HalfDone
  <2>7. ASSUME NEW q \in Requests \ {r} PROVE AloneOK(q)'
    <3>1. CASE job[q].class = c
      BY <2>0, <2>2, <2>3, <3>1 DEF AloneOK, InFlight
    <3>2. CASE job[q].class # c
      <4>1. CASE ~InFlight(q)
        BY <2>0, <2>2, <4>1 DEF AloneOK, InFlight
      <4>2. CASE InFlight(q)
        <5>1. job[q].class \in Classes /\ InFlight(r)
          BY <2>0, <4>2 DEF SlotOK, InFlight, Reading, Updating, Job
        <5>2. \A p \in Requests : InFlight(p)' => InFlight(p)
          BY <2>0, <2>2, <5>1 DEF InFlight
        <5> QED
          BY <2>0, <2>1, <2>2, <2>6, <3>2, <4>2, <5>1, <5>2
          DEF AloneInv, AloneOK
      <4> QED
        BY <4>1, <4>2
    <3> QED
      BY <3>1, <3>2
  <2>8. AloneOK(r)'
    <3>1. CASE pc'[r] = "ok" \/ c \in disturbed
      BY <2>0, <3>1 DEF AloneOK, InFlight, Reading, Updating
    <3>2. CASE column[r] # LastColumn(op) /\ pc'[r] = "findRow" /\ c \notin disturbed
      <4>1. op = "enableRegistration" /\ column[r] = "registrationStatus"
        BY <2>0, <3>2 DEF FirstColumn, LastColumn, Operation
      <4>2. sessions'[c]["registrationStatus"] = "ENABLED"
        BY <2>4, <3>2, <4>1 DEF Wanted, Row, Column
      <4>3. HalfDone(r)'
        BY <2>0, <2>5, <3>2, <4>1 DEF HalfDone, LastColumn, Updating
      <4>4. \A q \in Requests \ {r} : InFlight(q)' => job[q].class # c
        BY <2>2, <2>3, <3>2 DEF InFlight
      <4> QED
        BY <2>0, <3>2, <4>2, <4>3, <4>4 DEF AloneOK
    <3> QED
      BY <2>5, <3>1, <3>2
  <2>9. ASSUME NEW d \in Classes \ disturbed', BothEnabled(d)'
        PROVE  \E q \in Requests : HalfDone(q)' /\ job'[q].class = d
    <3>1. CASE d # c
      <4>1. PICK q \in Requests : HalfDone(q) /\ job[q].class = d
        BY <2>0, <2>1, <2>9, <3>1
        DEF AloneInv, ExclusiveUnlessDisturbed, BothEnabled
      <4> QED
        BY <2>0, <2>6, <3>1, <4>1
    <3>2. CASE d = c
      <4>1. c \notin disturbed
        BY <2>0, <3>2
      <4>2. CASE column[r] # LastColumn(op)
        <5>1. op = "enableRegistration" /\ column'[r] = "editingStatus"
          BY <2>0, <2>5, <4>2 DEF FirstColumn, LastColumn, Operation
        <5> QED
          BY <2>0, <2>5, <3>2, <4>2, <5>1 DEF HalfDone, Updating
      <4>3. CASE column[r] = LastColumn(op)
        BY <1>5, <2>9, <3>2, <4>1, <4>3, LastCommitExcludes
        DEF UpdateRow, BothEnabled, Column
      <4> QED
        BY <4>2, <4>3
    <3> QED
      BY <3>1, <3>2
  <2> QED
    BY <2>7, <2>8, <2>9 DEF AloneInv, ExclusiveUnlessDisturbed
<1>6. ASSUME NEW r \in Requests, Fail(r)
      PROVE  AloneInv'
  <2>1. \A q \in Requests : AloneOK(q)'
    BY <1>6 DEF Fail, Answer, GoTo, AloneInv, AloneOK, InFlight, HalfDone,
                TypeOK, Reading, Updating
  <2>2. ExclusiveUnlessDisturbed'
    BY <1>6 DEF Fail, Answer, GoTo, AloneInv, ExclusiveUnlessDisturbed,
                BothEnabled, HalfDone, TypeOK, Updating
  <2> QED
    BY <2>1, <2>2 DEF AloneInv
<1>7. ASSUME NEW r \in Requests, FailAfterCommit(r)
      PROVE  AloneInv'
  <2> DEFINE c == job[r].class
             op == job[r].op
  <2>0. /\ c \in Classes /\ op \in Operation /\ pc[r] = "updateRow"
        /\ UNCHANGED <<job, column>> /\ pc'[r] = "failed"
        /\ disturbed \subseteq disturbed'
        /\ c \notin disturbed' => c \notin disturbed /\ column[r] = LastColumn(op)
    BY <1>7 DEF FailAfterCommit, Commit, Answer, GoTo, TypeOK, SlotOK, Updating, Job
  <2>1. \A d \in Classes \ {c} : sessions'[d] = sessions[d]
    BY <1>7 DEF FailAfterCommit, Commit, Store, TypeOK
  <2>2. \A q \in Requests \ {r} :
          /\ pc'[q] = pc[q] /\ seen'[q] = seen[q]
          /\ entity'[q] = entity[q] /\ image'[q] = image[q]
    BY <1>7 DEF FailAfterCommit, Answer, GoTo, TypeOK
  <2>3. \A q \in Requests \ {r} : HalfDone(q)' <=> HalfDone(q)
    BY <2>0, <2>2 DEF HalfDone
  <2>4. ASSUME NEW q \in Requests, InFlight(q)' PROVE AloneOK(q)'
    <3>1. q # r /\ InFlight(q) /\ InFlight(r)
      BY <2>0, <2>2, <2>4 DEF InFlight, Reading, Updating
    <3>2. \A p \in Requests : InFlight(p)' => InFlight(p)
      BY <2>0, <2>2, <3>1 DEF InFlight
    <3>3. CASE job[q].class # c
      <4>1. job[q].class \in Classes
        BY <3>1 DEF SlotOK, InFlight, Reading, Updating, Job
      <4> QED
        BY <2>0, <2>1, <2>2, <2>3, <3>1, <3>2, <3>3, <4>1 DEF AloneInv, AloneOK
    <3>4. CASE job[q].class = c
      BY <2>0, <3>1, <3>4 DEF AloneInv, AloneOK
    <3> QED
      BY <3>3, <3>4
  <2>5. ASSUME NEW d \in Classes \ disturbed', BothEnabled(d)'
        PROVE  \E q \in Requests : HalfDone(q)' /\ job'[q].class = d
    <3>1. CASE d # c
      <4>1. PICK q \in Requests : HalfDone(q) /\ job[q].class = d
        BY <2>0, <2>1, <2>5, <3>1
        DEF AloneInv, ExclusiveUnlessDisturbed, BothEnabled
      <4> QED
        BY <2>0, <2>3, <3>1, <4>1
    <3>2. CASE d = c
      BY <1>7, <2>0, <2>5, <3>2, LastCommitExcludes
      DEF FailAfterCommit, BothEnabled, Column
    <3> QED
      BY <3>1, <3>2
  <2>6. \A q \in Requests : AloneOK(q)'
    BY <2>4 DEF AloneOK
  <2> QED
    BY <2>5, <2>6 DEF AloneInv, ExclusiveUnlessDisturbed
<1>8. ASSUME NEW c \in IntranetClasses, SyncClass(c)
      PROVE  AloneInv'
  <2>1. c \in Classes
    BY IntranetAssumption
  <2>2. ASSUME NEW q \in Requests PROVE AloneOK(q)'
    <3>1. UNCHANGED <<job, pc, column, seen, entity, image>>
      BY <1>8 DEF SyncClass
    <3>2. CASE job[q].class = c /\ sessions[c] # NoRow
      <4>1. c \in disturbed'
        BY <1>8, <3>2 DEF SyncClass
      <4> QED
        BY <3>1, <3>2, <4>1 DEF AloneOK
    <3>3. CASE job[q].class = c /\ sessions[c] = NoRow
      <4>1. pc[q] \notin Updating \cup {"findTeaching"}
        BY <3>3, NoRowAssumption DEF SlotOK
      <4>2. disturbed' = disturbed
        BY <1>8, <3>3 DEF SyncClass
      <4> QED
        BY <3>1, <4>1, <4>2 DEF AloneInv, AloneOK, InFlight, Updating
    <3>4. CASE ~InFlight(q)
      BY <3>1, <3>4 DEF AloneOK, InFlight
    <3>5. CASE job[q].class # c /\ InFlight(q)
      <4>1. sessions'[job[q].class] = sessions[job[q].class]
        <5>1. job[q].class \in Classes
          BY <3>5 DEF InFlight, SlotOK, Reading, Updating, Job
        <5> QED
          BY <1>8, <2>1, <3>5, <5>1 DEF SyncClass, Store, TypeOK
      <4>2. disturbed \subseteq disturbed'
        BY <1>8 DEF SyncClass
      <4> QED
        BY <3>1, <4>1, <4>2 DEF AloneInv, AloneOK, InFlight, HalfDone
    <3> QED
      BY <3>2, <3>3, <3>4, <3>5
  <2>3. ExclusiveUnlessDisturbed'
    BY <1>8, <2>1
    DEF SyncClass, Store, AloneInv, ExclusiveUnlessDisturbed, BothEnabled,
        HalfDone, TypeOK, Updating, NewRow, Column
  <2> QED
    BY <2>2, <2>3 DEF AloneInv
<1>9. CASE Crash
  BY <1>9 DEF Crash, AloneInv, AloneOK, ExclusiveUnlessDisturbed, BothEnabled,
               HalfDone, InFlight, TypeOK, Reading, Updating
<1>10. CASE UNCHANGED vars
  BY <1>10 DEF vars, AloneInv, AloneOK, ExclusiveUnlessDisturbed, BothEnabled,
               HalfDone, InFlight
<1> QED
  BY <1>1, <1>2, <1>3, <1>4, <1>5, <1>6, <1>7, <1>8, <1>9, <1>10
  DEF Next, Operations, Step

\* Registration and editing are enabled together only inside a reopening, on
\* every class whose status requests did not overlap or break off half-way and
\* that no later synchronisation wrote.
THEOREM GatesExclude == Spec => []ExclusiveUnlessDisturbed
<1>1. AloneInv => ExclusiveUnlessDisturbed
  BY DEF AloneInv
<1> QED
  BY <1>1, SlotInit, SlotStep, AloneInit, AloneStep, PTL DEF Spec
-----------------------------------------------------------------------------
\* A reopening that is half-way through is of a row.
LEMMA HalfRow ==
    ASSUME SlotInv, NEW r \in Requests, HalfDone(r)
    PROVE  /\ job[r] \in Job /\ job[r].class \in Classes
           /\ sessions[job[r].class] \in Row
           /\ pc[r] \in Updating /\ InFlight(r)
BY DEF SlotInv, SlotOK, HalfDone, TypeOK, Job, Updating, InFlight

GateRows == \A c \in Classes : GateOf(c) \in Row \cup {NoRow}

LEMMA GateType == SlotInv => GateRows
<1> SUFFICES ASSUME SlotInv, NEW c \in Classes PROVE GateOf(c) \in Row \cup {NoRow}
  BY DEF GateRows
<1>1. HalfOpen(c) => sessions[c] \in Row
  BY HalfRow DEF HalfOpen
<1>2. ASSUME sessions[c] \in Row
      PROVE  [sessions[c] EXCEPT !["editingStatus"] = "DISABLED"] \in Row
  BY <1>2 DEF Row, Column, Status
<1>3. sessions[c] \in Row \cup {NoRow}
  BY DEF SlotInv, TypeOK
<1> QED
  BY <1>1, <1>2, <1>3 DEF GateOf

\* A step that changes no covered row, and no covered class's being half open, is
\* one in which classes leave the promise, if it is any.
LEMMA DisturbStep ==
    ASSUME SlotInv, SlotInv', disturbed \subseteq disturbed',
           \A c \in Classes \ disturbed' :
             /\ sessions'[c] = sessions[c]
             /\ HalfOpen(c)' <=> HalfOpen(c)
    PROVE  Gate!Next
<1>1. GateRows'
  BY GateType, PTL
<1>2. \A c \in Classes \ disturbed' : GateOf(c)' = GateOf(c)
  BY DEF GateOf
<1>3. disturbed' \subseteq Classes
  BY DEF SlotInv, TypeOK
<1>4. Gate!Disturb
  BY <1>1, <1>2, <1>3 DEF GateRows, Gate!Disturb, Gate!Row, Gate!Status, Gate!Column,
                          Row, Status, Column
<1> QED
  BY <1>4 DEF Gate!Next

\* The usual case: no covered row changes, and no request starts or ends being
\* half done on one.
LEMMA QuietStep ==
    ASSUME SlotInv, SlotInv', disturbed \subseteq disturbed',
           \A c \in Classes \ disturbed' : sessions'[c] = sessions[c],
           \A r \in Requests :
             /\ HalfDone(r)' => HalfDone(r) /\ job'[r] = job[r]
             /\ HalfDone(r) => \/ HalfDone(r)' /\ job'[r] = job[r]
                               \/ job[r].class \in disturbed'
    PROVE  Gate!Next
<1>1. \A c \in Classes \ disturbed' : HalfOpen(c)' <=> HalfOpen(c)
  BY DEF HalfOpen
<1> QED
  BY <1>1, DisturbStep

\* The request that commits on a covered class is alone on it: the class is half
\* open exactly if that request has it half open.
LEMMA HalfOpenAlone ==
    ASSUME SlotInv, AloneInv, NEW r \in Requests, InFlight(r),
           job[r].class \notin disturbed
    PROVE  HalfOpen(job[r].class) <=> HalfDone(r)
BY HalfRow DEF HalfOpen, AloneInv, AloneOK

\* An update on a covered class is a step of the gate at the first column of its
\* operation, and none at the second one of a reopening.
LEMMA CommitStep ==
    ASSUME SlotInv, SlotInv', AloneInv, NEW r \in Requests, Commit(r),
           job[r].class \notin disturbed, UNCHANGED <<job, disturbed>>,
           \A q \in Requests \ {r} : HalfDone(q)' <=> HalfDone(q),
           HalfDone(r)' <=> column[r] # LastColumn(job[r].op)
    PROVE  Gate!Next
<1> DEFINE c == job[r].class
           op == job[r].op
           row == sessions[c]
           new == [row EXCEPT ![column[r]] = Wanted(op, column[r])]
<1>1. /\ c \in Classes /\ op \in Operation /\ row \in Row
      /\ pc[r] = "updateRow" /\ InFlight(r)
      /\ column[r] \in {FirstColumn(op), LastColumn(op)}
  BY DEF SlotInv, SlotOK, Commit, Updating, InFlight, Job
<1>2. /\ sessions' = [sessions EXCEPT ![c] = new]
      /\ new \in Row /\ sessions'[c] = new
      /\ \A d \in Classes \ {c} : sessions'[d] = sessions[d]
  BY <1>1, AloneCommit DEF SlotInv, TypeOK
<1>3. \A d \in Classes \ {c} : GateOf(d)' = GateOf(d)
  BY <1>2 DEF GateOf, HalfOpen
<1>4. HalfOpen(c) <=> HalfDone(r)
  BY <1>1, HalfOpenAlone
<1>5. \A q \in Requests \ {r} : HalfDone(q) => job[q].class # c
  BY <1>1, HalfRow DEF AloneInv, AloneOK
<1>6. HalfOpen(c)' <=> column[r] # LastColumn(op)
  BY <1>5 DEF HalfOpen
<1>7. GateOf(c)' = IF column[r] # LastColumn(op)
                   THEN [new EXCEPT !["editingStatus"] = "DISABLED"] ELSE new
  BY <1>2, <1>6 DEF GateOf
<1>8. GateOf(c) = IF HalfDone(r) THEN [row EXCEPT !["editingStatus"] = "DISABLED"]
                                 ELSE row
  BY <1>4 DEF GateOf
<1>9. /\ ~HalfDone(r) => Allows(op, row)
      /\ HalfDone(r) => row["registrationStatus"] = "ENABLED"
  BY <1>1 DEF AloneInv, AloneOK, Updating
<1>10. ASSUME NEW after \in Row, GateOf(c)' = after
       PROVE  /\ [d \in Classes |-> GateOf(d)]' =
                   [[d \in Classes |-> GateOf(d)] EXCEPT ![c] = after]
              /\ [d \in Classes |-> GateOf(d)][c] = GateOf(c)
  BY <1>1, <1>3, <1>10
<1> HIDE DEF c, row, new
<1>11. row # NoRow
  BY <1>1, NoRowAssumption
<1>12. CASE op = "disableRegistration"
  <2>1. ~HalfDone(r) /\ column[r] = "registrationStatus" /\ LastColumn(op) = "registrationStatus"
    BY <1>1, <1>12 DEF HalfDone, FirstColumn, LastColumn, op
  <2>2. /\ GateOf(c) = row /\ GateOf(c)' = new /\ new \in Row
        /\ row["registrationStatus"] = "ENABLED"
        /\ new = [row EXCEPT !["registrationStatus"] = "DISABLED"]
    BY <1>2, <1>7, <1>8, <1>9, <1>12, <2>1 DEF Allows, Wanted, new
  <2>3. Gate!CloseRegistration(c)
    BY <1>10, <1>11, <2>2 DEF Gate!CloseRegistration, Gate!Covered, Gate!Set, c
  <2> QED
    BY <1>1, <2>3 DEF Gate!Next
<1>13. CASE op = "enableEditing"
  <2>1. ~HalfDone(r) /\ column[r] = "editingStatus" /\ LastColumn(op) = "editingStatus"
    BY <1>1, <1>13 DEF HalfDone, FirstColumn, LastColumn, op
  <2>2. /\ GateOf(c) = row /\ GateOf(c)' = new /\ new \in Row
        /\ row["registrationStatus"] = "DISABLED" /\ row["editingStatus"] = "DISABLED"
        /\ new = [row EXCEPT !["editingStatus"] = "ENABLED"]
    BY <1>2, <1>7, <1>8, <1>9, <1>13, <2>1 DEF Allows, Wanted, new
  <2>3. row = Gate!NewRow("DISABLED")
    BY <1>1, <2>2 DEF Gate!NewRow, Gate!Column, Row, Column
  <2>4. Gate!OpenEditing(c)
    BY <1>10, <1>11, <2>2, <2>3 DEF Gate!OpenEditing, Gate!Covered, Gate!Set, c
  <2> QED
    BY <1>1, <2>4 DEF Gate!Next
<1>14. CASE op = "disableEditing"
  <2>1. ~HalfDone(r) /\ column[r] = "editingStatus" /\ LastColumn(op) = "editingStatus"
    BY <1>1, <1>14 DEF HalfDone, FirstColumn, LastColumn, op
  <2>2. /\ GateOf(c) = row /\ GateOf(c)' = new /\ new \in Row
        /\ row["editingStatus"] = "ENABLED"
        /\ new = [row EXCEPT !["editingStatus"] = "DISABLED"]
    BY <1>2, <1>7, <1>8, <1>9, <1>14, <2>1 DEF Allows, Wanted, new
  <2>3. Gate!CloseEditing(c)
    BY <1>10, <1>11, <2>2 DEF Gate!CloseEditing, Gate!Covered, Gate!Set, c
  <2> QED
    BY <1>1, <2>3 DEF Gate!Next
<1>15. CASE op = "enableRegistration" /\ column[r] = "registrationStatus"
  <2>1. ~HalfDone(r) /\ column[r] # LastColumn(op)
    BY <1>15 DEF HalfDone, LastColumn
  <2>2. /\ GateOf(c) = row /\ row["registrationStatus"] = "DISABLED"
        /\ new = [row EXCEPT !["registrationStatus"] = "ENABLED"]
        /\ GateOf(c)' = [new EXCEPT !["editingStatus"] = "DISABLED"]
    BY <1>7, <1>8, <1>9, <1>15, <2>1 DEF Allows, Wanted, new
  <2>3. /\ GateOf(c)' = Gate!NewRow("ENABLED")
        /\ Gate!NewRow("ENABLED") \in Row
    BY <1>1, <2>2 DEF Gate!NewRow, Gate!Column, Row, Column, Status
  <2>4. Gate!ReopenRegistration(c)
    BY <1>10, <1>11, <2>2, <2>3 DEF Gate!ReopenRegistration, Gate!Covered, Gate!Set, c
  <2> QED
    BY <1>1, <2>4 DEF Gate!Next
<1>16. CASE op = "enableRegistration" /\ column[r] = "editingStatus"
  <2>1. HalfDone(r) /\ column[r] = LastColumn(op)
    BY <1>1, <1>16, NoJobAssumption
    DEF HalfDone, LastColumn, SlotInv, SlotOK, Updating, op
  <2>2. GateOf(c)' = GateOf(c)
    BY <1>7, <1>8, <1>16, <2>1 DEF Wanted, new
  <2>3. \A d \in Classes : GateOf(d)' = GateOf(d)
    BY <1>3, <2>2 DEF c
  <2>4. GateRows'
    BY GateType, PTL
  <2>5. Gate!Disturb
    BY <2>3, <2>4 DEF GateRows, Gate!Disturb, Gate!Row, Gate!Status, Gate!Column, Row,
                      Status, Column, SlotInv, TypeOK
  <2> QED
    BY <2>5 DEF Gate!Next
<1> QED
  BY <1>1, <1>12, <1>13, <1>14, <1>15, <1>16 DEF Operation, FirstColumn, LastColumn

LEMMA GateInit == Init => Gate!Init
<1> SUFFICES ASSUME Init PROVE Gate!Init
  OBVIOUS
<1>1. \A c \in Classes : GateOf(c) = sessions[c]
  BY DEF Init, GateOf, HalfOpen, HalfDone, Updating
<1>2. sessions = [c \in Classes |-> GateOf(c)]
  BY <1>1 DEF Init
<1> QED
  BY <1>2 DEF Init, Gate!Init, Gate!NewRow, Gate!Status, Gate!Column,
              NewRow, Status, Column

LEMMA GateStep == SlotInv /\ AloneInv /\ [Next]_vars => [Gate!Next]_(Gate!vars)
<1> SUFFICES ASSUME SlotInv, AloneInv, [Next]_vars PROVE [Gate!Next]_(Gate!vars)
  OBVIOUS
<1>1. SlotInv'
  BY SlotStep
<1>2. ASSUME UNCHANGED <<sessions, disturbed, job, column>>,
             \A r \in Requests : pc'[r] \in Updating <=> pc[r] \in Updating
      PROVE  Gate!Next
  BY <1>1, <1>2, QuietStep DEF HalfDone
<1>3. ASSUME NEW r \in Requests, NEW j \in Job, Begin(r, j) PROVE Gate!Next
  <2>1. /\ ~HalfDone(r) /\ ~HalfDone(r)'
        /\ \A q \in Requests \ {r} : /\ HalfDone(q)' <=> HalfDone(q)
                                     /\ job'[q] = job[q]
    BY <1>3 DEF Begin, GoTo, HalfDone, InFlight, Reading, Updating, SlotInv, TypeOK
  <2> QED
    BY <1>1, <1>3, <2>1, QuietStep DEF Begin
<1>4. ASSUME NEW r \in Requests, FindClass(r) PROVE Gate!Next
  BY <1>2, <1>4 DEF FindClass, Answer, GoTo, Updating, SlotInv, TypeOK
<1>5. ASSUME NEW r \in Requests, FindTeaching(r) PROVE Gate!Next
  <2>1. column[r] = FirstColumn(job[r].op)
    BY <1>5 DEF FindTeaching, SlotInv, SlotOK, Reading
  <2>2. ~HalfDone(r) /\ ~HalfDone(r)'
    BY <1>5, <2>1 DEF FindTeaching, HalfDone, FirstColumn
  <2>3. \A q \in Requests \ {r} : HalfDone(q)' <=> HalfDone(q)
    BY <1>5 DEF FindTeaching, Answer, GoTo, HalfDone, SlotInv, TypeOK
  <2> QED
    BY <1>1, <1>5, <2>2, <2>3, QuietStep DEF FindTeaching
<1>6. ASSUME NEW r \in Requests, FindRow(r) PROVE Gate!Next
  BY <1>2, <1>6 DEF FindRow, GoTo, Updating, SlotInv, TypeOK
<1>7. ASSUME NEW r \in Requests, SelectRow(r) PROVE Gate!Next
  BY <1>2, <1>7 DEF SelectRow, GoTo, Updating, SlotInv, TypeOK
<1>8. ASSUME NEW r \in Requests, Commit(r), job[r].class \in disturbed',
             disturbed \subseteq disturbed', job' = job,
             \A q \in Requests \ {r} : HalfDone(q)' <=> HalfDone(q)
      PROVE  Gate!Next
  <2>1. \A c \in Classes \ {job[r].class} : sessions'[c] = sessions[c]
    BY <1>8 DEF Commit, Store, SlotInv, TypeOK
  <2>2. \A c \in Classes \ disturbed' : HalfOpen(c)' <=> HalfOpen(c)
    BY <1>8 DEF HalfOpen
  <2> QED
    BY <1>1, <1>8, <2>1, <2>2, DisturbStep
<1>9. ASSUME NEW r \in Requests, UpdateRow(r) PROVE Gate!Next
  <2>1. Commit(r) /\ job[r] \in Job /\ UNCHANGED <<job, disturbed>>
    BY <1>9 DEF UpdateRow, Commit, SlotInv, SlotOK
  <2>2. \A q \in Requests \ {r} : HalfDone(q)' <=> HalfDone(q)
    BY <1>9 DEF UpdateRow, Answer, GoTo, HalfDone, SlotInv, TypeOK
  <2>3. HalfDone(r)' <=> column[r] # LastColumn(job[r].op)
    <3>1. CASE column[r] # LastColumn(job[r].op)
      <4>1. /\ column[r] = FirstColumn(job[r].op) /\ job[r].op \in Operation
        BY <2>1, <3>1 DEF Commit, SlotInv, SlotOK, Updating, Job
      <4>2. job[r].op = "enableRegistration" /\ LastColumn(job[r].op) = "editingStatus"
        BY <3>1, <4>1 DEF FirstColumn, LastColumn, Operation
      <4>3. pc'[r] = "findRow" /\ column'[r] = "editingStatus" /\ job'[r] = job[r]
        BY <1>9, <2>1, <3>1, <4>2 DEF UpdateRow, GoTo, SlotInv, TypeOK
      <4> QED
        BY <2>1, <3>1, <4>2, <4>3, NoJobAssumption DEF HalfDone, Updating
    <3>2. CASE column[r] = LastColumn(job[r].op)
      BY <1>9, <3>2 DEF UpdateRow, Answer, GoTo, HalfDone, Updating, SlotInv, TypeOK
    <3> QED
      BY <3>1, <3>2
  <2>4. CASE job[r].class \in disturbed
    BY <1>8, <2>1, <2>2, <2>4
  <2>5. CASE job[r].class \notin disturbed
    BY <1>1, <2>1, <2>2, <2>3, <2>5, CommitStep
  <2> QED
    BY <2>4, <2>5
<1>10. ASSUME NEW r \in Requests, Fail(r) PROVE Gate!Next
  <2>1. /\ ~HalfDone(r)'
        /\ \A q \in Requests \ {r} : HalfDone(q)' <=> HalfDone(q)
    BY <1>10 DEF Fail, Answer, GoTo, HalfDone, Updating, SlotInv, TypeOK
  <2>2. HalfDone(r) => job[r].class \in disturbed'
    BY <1>10 DEF Fail
  <2> QED
    BY <1>1, <1>10, <2>1, <2>2, QuietStep DEF Fail
<1>11. ASSUME NEW r \in Requests, FailAfterCommit(r) PROVE Gate!Next
  <2>1. /\ ~HalfDone(r)'
        /\ \A q \in Requests \ {r} : HalfDone(q)' <=> HalfDone(q)
    BY <1>11 DEF FailAfterCommit, Answer, GoTo, HalfDone, Updating, SlotInv, TypeOK
  <2>2. CASE job[r].class \in disturbed'
    BY <1>8, <1>11, <2>1, <2>2 DEF FailAfterCommit
  <2>3. CASE job[r].class \notin disturbed'
    <3>1. column[r] = LastColumn(job[r].op) /\ disturbed' = disturbed
      BY <1>11, <2>3 DEF FailAfterCommit
    <3> QED
      BY <1>1, <1>11, <2>1, <2>3, <3>1, CommitStep DEF FailAfterCommit
  <2> QED
    BY <2>2, <2>3
<1>12. ASSUME NEW c \in IntranetClasses, SyncClass(c) PROVE Gate!Next
  <2>1. c \in Classes /\ \A d \in Classes \ {c} : sessions'[d] = sessions[d]
    BY <1>12, IntranetAssumption DEF SyncClass, Store, SlotInv, TypeOK
  <2>2. \A r \in Requests : (HalfDone(r)' <=> HalfDone(r)) /\ job'[r] = job[r]
    BY <1>12 DEF SyncClass, HalfDone
  <2>3. CASE sessions[c] = NoRow /\ UNCHANGED disturbed
    <3>1. ~HalfOpen(c) /\ ~HalfOpen(c)'
      BY <2>2, <2>3, HalfRow, NoRowAssumption DEF HalfOpen
    <3>2. sessions'[c] = NewRow("ENABLED")
      BY <1>12, <2>1, <2>3 DEF SyncClass, Store, SlotInv, TypeOK
    <3>3. \A d \in Classes \ {c} : GateOf(d)' = GateOf(d)
      BY <2>1, <2>2, <2>3 DEF GateOf, HalfOpen
    <3>4. GateOf(c) = NoRow /\ GateOf(c)' = Gate!NewRow("ENABLED")
      BY <2>3, <3>1, <3>2 DEF GateOf, NewRow, Gate!NewRow, Column, Gate!Column
    <3>5. Gate!CreateClass(c)
      BY <2>1, <2>3, <3>3, <3>4 DEF Gate!CreateClass, Gate!Set
    <3> QED
      BY <2>1, <3>5 DEF Gate!Next
  <2>4. CASE disturbed' = disturbed \cup {c}
    BY <1>1, <2>1, <2>2, <2>4, QuietStep
  <2> QED
    BY <1>12, <2>3, <2>4 DEF SyncClass
<1>13. CASE Crash
  <2>1. \A r \in Requests : ~HalfDone(r)'
    BY <1>13 DEF Crash, HalfDone, InFlight, Updating, SlotInv, TypeOK
  <2>2. \A r \in Requests : HalfDone(r) => job[r].class \in disturbed'
    BY <1>13, HalfRow DEF Crash
  <2> QED
    BY <1>1, <1>13, <2>1, <2>2, QuietStep DEF Crash
<1>14. CASE UNCHANGED vars
  BY <1>2, <1>14 DEF vars
<1> QED
  BY <1>3, <1>4, <1>5, <1>6, <1>7, <1>9, <1>10, <1>11, <1>12, <1>13, <1>14
  DEF Next, Operations, Step

\* Over PostgreSQL, and for every class that nothing has disturbed, the status
\* operations are steps of the atomic gate: each one a single change of its row,
\* made where the gate allows it, whatever fails or crashes on the way.
THEOREM ImplementsGate == Spec => GateSpec
<1> QED
  BY SlotInit, SlotStep, AloneInit, AloneStep, GateInit, GateStep, PTL
  DEF Spec, GateSpec, Gate!Spec
=============================================================================
