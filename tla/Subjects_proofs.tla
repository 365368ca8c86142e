-------------------------- MODULE Subjects_proofs --------------------------
(***************************************************************************)
(* Theorems about Subjects, for any number of codes, titles and requests.  *)
(***************************************************************************)
EXTENDS Subjects, TLAPS

\* A slot that has been used has a job, and a row that save has read back is there,
\* because no subject ever disappears.
SlotOK == \A r \in Requests :
             /\ pc[r] # "free" => job[r] \in Job
             /\ pc[r] = "writeRow" /\ image[r] # NoRow => subjects[job[r].code] # NoRow

TypeInv == TypeOK /\ SlotOK

\* A registration whose code was taken when it arrived finds it taken still.
TakenOK ==
    \A r \in taken :
        /\ pc[r] = "findByCode" => subjects[job[r].code] # NoRow
        /\ job[r].op = "createSubject" => pc[r] \notin {"selectRow", "writeRow", "saved"}

\* A request that is to save its row has seen what the row holds and what save has
\* read back, whoever has written it.
HeldOK ==
    \A r \in Requests :
        /\ pc[r] \in {"selectRow", "writeRow"} => Cells(subjects[job[r].code]) \subseteq held[r]
        /\ pc[r] = "writeRow" => Cells(image[r]) \subseteq held[r]
        /\ pc[r] = "saved" =>
             \A x \in Given(job[r].op) : <<x, Entity(job[r])[x]>> \in held[r]

\* On an undisturbed code a request is alone, so that what it has checked and read
\* back is still so.
AloneOK ==
    \A r \in Requests : InFlight(r) /\ job[r].code \notin disturbed =>
        /\ \A q \in Requests \ {r} : InFlight(q) => job[q].code # job[r].code
        /\ pc[r] \in {"selectRow", "writeRow"} =>
             Proceeds(job[r], subjects[job[r].code])
        /\ pc[r] = "writeRow" => image[r] = subjects[job[r].code]

USE IntranetAssumption, NoRowAssumption
-----------------------------------------------------------------------------
LEMMA JobType ==
    ASSUME NEW j \in Job
    PROVE  /\ j.code \in Codes /\ j.title \in Titles
           /\ j.op \in {"createSubject", "upsertFromIntranet"}
BY DEF Job

LEMMA EntityType ==
    ASSUME NEW j \in Job
    PROVE  Entity(j) \in Row
BY JobType DEF Entity, LocalRow, IntranetRow, Row, Source

LEMMA UpdatedType ==
    ASSUME NEW j \in Job, NEW row \in Row, NEW img \in Row
    PROVE  Updated(row, j, img) \in Row
<1> DEFINE new == Updated(row, j, img)
<1>1. /\ Entity(j).title \in Titles /\ row.title \in Titles
      /\ Entity(j).source \in Source /\ row.source \in Source
      /\ Entity(j).external \in BOOLEAN /\ row.external \in BOOLEAN
  BY EntityType DEF Row
<1>2. /\ new = [x \in {"title", "source", "external"} |-> new[x]]
      /\ new.title \in Titles /\ new.source \in Source /\ new.external \in BOOLEAN
  BY <1>1 DEF Updated
<1> HIDE DEF new
<1>3. new = [title |-> new.title, source |-> new.source, external |-> new.external]
  BY <1>2
<1> QED
  BY <1>2, <1>3 DEF Row, new

\* A synchronisation that finds its row still as it read it back leaves the
\* subject of the snapshot.
LEMMA UpdatedAlone ==
    ASSUME NEW j \in Job, NEW row \in Row, j.op = "upsertFromIntranet"
    PROVE  Updated(row, j, row) = IntranetRow(j.title)
<1> DEFINE new == Updated(row, j, row)
<1>1. /\ new = [x \in {"title", "source", "external"} |-> new[x]]
      /\ new.title = j.title /\ new.source = "INTRANET" /\ new.external = TRUE
  BY DEF Updated, Entity, Given, IntranetRow
<1> HIDE DEF new
<1>2. new = [title |-> j.title, source |-> "INTRANET", external |-> TRUE]
  BY <1>1
<1> QED
  BY <1>2 DEF new, IntranetRow

LEMMA CellsType == \A row \in Row : Cells(row) \subseteq Cell
<1> SUFFICES ASSUME NEW row \in Row PROVE Cells(row) \subseteq Cell
  OBVIOUS
<1>1. /\ DOMAIN row = {"title", "source", "external"}
      /\ row["title"] \in Titles /\ row["source"] \in Source
      /\ row["external"] \in BOOLEAN
  BY DEF Row
<1> QED
  BY <1>1 DEF Cells, Cell

LEMMA StoreType ==
    ASSUME TypeOK, NEW c \in Codes, NEW row \in Row, Store(c, row)
    PROVE  /\ subjects' \in [Codes -> Row \cup {NoRow}]
           /\ held' \in [Requests -> SUBSET Cell]
BY CellsType DEF TypeOK, Store

\* What a committed statement does: one row is there, the others stay.
LEMMA CommitEffect ==
    ASSUME TypeInv, NEW r \in Requests, Commit(r)
    PROVE  /\ job[r] \in Job /\ job[r].code \in Codes
           /\ subjects' \in [Codes -> Row \cup {NoRow}]
           /\ held' \in [Requests -> SUBSET Cell]
           /\ \/ image[r] = NoRow /\ subjects[job[r].code] = NoRow
              \/ image[r] \in Row
           /\ subjects[job[r].code] # NoRow => subjects'[job[r].code] # NoRow
           /\ \A c \in Codes \ {job[r].code} : subjects'[c] = subjects[c]
<1> DEFINE c == job[r].code
<1>1. job[r] \in Job /\ c \in Codes
  BY JobType DEF TypeInv, SlotOK, Commit
<1>2. CASE image[r] = NoRow /\ subjects[c] = NoRow /\ Store(c, Entity(job[r]))
  <2>1. Entity(job[r]) \in Row
    BY <1>1, EntityType
  <2>2. subjects' = [subjects EXCEPT ![c] = Entity(job[r])]
    BY <1>2 DEF Store
  <2> QED
    BY <1>1, <1>2, <2>1, <2>2, StoreType DEF TypeInv, TypeOK
<1>3. CASE image[r] # NoRow /\ Store(c, Updated(subjects[c], job[r], image[r]))
  <2>1. image[r] \in Row /\ subjects[c] \in Row
    BY <1>1, <1>3 DEF TypeInv, TypeOK, SlotOK, Commit
  <2>2. Updated(subjects[c], job[r], image[r]) \in Row
    BY <1>1, <2>1, UpdatedType
  <2>3. subjects' = [subjects EXCEPT ![c] = Updated(subjects[c], job[r], image[r])]
    BY <1>3 DEF Store
  <2> QED
    BY <1>1, <1>3, <2>1, <2>2, <2>3, StoreType DEF TypeInv, TypeOK
<1> QED
  BY <1>2, <1>3 DEF Commit
-----------------------------------------------------------------------------
LEMMA TypeInit == Init => TypeInv
<1> SUFFICES ASSUME Init PROVE TypeInv
  OBVIOUS
<1>0. \A t \in Titles : LocalRow(t) \in Row
  BY DEF LocalRow, Row, Source
<1>1. TypeOK
  BY <1>0 DEF Init, TypeOK, Awaits, Answers
<1>2. SlotOK
  BY DEF Init, SlotOK
<1> QED
  BY <1>1, <1>2 DEF TypeInv

\* A request is answered, having committed a statement or none.
LEMMA AnswerStep ==
    ASSUME TypeInv, NEW r \in Requests, pc[r] # "free", NEW answer \in Answers,
           Answer(r, answer), UNCHANGED <<subjects, held>> \/ Commit(r),
           UNCHANGED <<job, taken, disturbed>>
    PROVE  /\ TypeInv'
           /\ pc'[r] = answer /\ \A q \in Requests \ {r} : pc'[q] = pc[q]
<1>1. /\ subjects' \in [Codes -> Row \cup {NoRow}]
      /\ held' \in [Requests -> SUBSET Cell]
      /\ \A c \in Codes : subjects[c] # NoRow => subjects'[c] # NoRow
  BY CommitEffect DEF TypeInv, TypeOK
<1>2. /\ pc' = [pc EXCEPT ![r] = answer] /\ image' = [image EXCEPT ![r] = NoRow]
      /\ pc'[r] = answer /\ \A q \in Requests \ {r} : pc'[q] = pc[q]
  BY DEF Answer, GoTo, TypeInv, TypeOK
<1>3. TypeOK'
  BY <1>1, <1>2 DEF TypeInv, TypeOK
<1>4. SlotOK'
  BY <1>1, <1>2, JobType DEF TypeInv, TypeOK, SlotOK, Answers
<1> QED
  BY <1>2, <1>3, <1>4 DEF TypeInv

LEMMA TypeStep == TypeInv /\ [Next]_vars => TypeInv'
<1> SUFFICES ASSUME TypeInv, [Next]_vars PROVE TypeInv'
  OBVIOUS
<1>1. ASSUME NEW r \in Requests, NEW j \in Job, Begin(r, j) PROVE TypeInv'
  <2>1. TypeOK'
    BY <1>1, JobType DEF Begin, GoTo, TypeInv, TypeOK, Awaits
  <2>2. SlotOK'
    BY <1>1 DEF Begin, GoTo, TypeInv, TypeOK, SlotOK
  <2> QED
    BY <2>1, <2>2 DEF TypeInv
<1>2. ASSUME NEW r \in Requests, FindByCode(r) PROVE TypeInv'
  <2>0. held' \in [Requests -> SUBSET Cell]
    <3>1. job[r] \in Job /\ job[r].code \in Codes
      BY <1>2, JobType DEF FindByCode, TypeInv, SlotOK
    <3>2. Cells(subjects[job[r].code]) \subseteq Cell
      BY <3>1, CellsType DEF TypeInv, TypeOK, Cells
    <3> QED
      BY <1>2, <3>2 DEF FindByCode, TypeInv, TypeOK
  <2>1. TypeOK'
    BY <1>2, <2>0 DEF FindByCode, GoTo, TypeInv, TypeOK, Awaits, Answers
  <2>2. SlotOK'
    BY <1>2 DEF FindByCode, GoTo, TypeInv, TypeOK, SlotOK
  <2> QED
    BY <2>1, <2>2 DEF TypeInv
<1>3. ASSUME NEW r \in Requests, SelectRow(r) PROVE TypeInv'
  <2>1. job[r] \in Job /\ job[r].code \in Codes
    BY <1>3, JobType DEF SelectRow, TypeInv, SlotOK
  <2>2. TypeOK'
    BY <1>3, <2>1 DEF SelectRow, GoTo, TypeInv, TypeOK, Awaits
  <2>3. SlotOK'
    BY <1>3, <2>1 DEF SelectRow, GoTo, TypeInv, TypeOK, SlotOK
  <2> QED
    BY <2>2, <2>3 DEF TypeInv
<1>4. ASSUME NEW r \in Requests, WriteRow(r) PROVE TypeInv'
  <2>1. PICK answer \in {"saved", "failed"} : Answer(r, answer)
    BY <1>4 DEF WriteRow
  <2> QED
    BY <1>4, <2>1, AnswerStep DEF WriteRow, Commit, Answers
<1>5. ASSUME NEW r \in Requests, Fail(r) PROVE TypeInv'
  BY <1>5, AnswerStep DEF Fail, InFlight, Awaits, Answers
<1>6. CASE Crash
  <2>1. TypeOK'
    BY <1>6 DEF Crash, TypeInv, TypeOK, Answers
  <2>2. SlotOK'
    BY <1>6 DEF Crash, TypeInv, TypeOK, SlotOK, InFlight, Awaits
  <2> QED
    BY <2>1, <2>2 DEF TypeInv
<1>7. CASE UNCHANGED vars
  BY <1>7 DEF vars, TypeInv, TypeOK, SlotOK
<1> QED
  BY <1>1, <1>2, <1>3, <1>4, <1>5, <1>6, <1>7 DEF Next, Step

\* For any number of codes and requests, subjects, request slots and histories keep
\* their types.
THEOREM TypeCorrect == Spec => []TypeOK
<1>1. TypeInv => TypeOK
  BY DEF TypeInv
<1> QED
  BY <1>1, TypeInit, TypeStep, PTL DEF Spec
-----------------------------------------------------------------------------
\* No step of anybody removes a subject.
LEMMA SubjectsStay ==
    ASSUME TypeInv, [Next]_vars
    PROVE  \A c \in Codes : subjects[c] # NoRow => subjects'[c] # NoRow
<1>1. ASSUME NEW r \in Requests, Commit(r)
      PROVE  \A c \in Codes : subjects[c] # NoRow => subjects'[c] # NoRow
  BY <1>1, CommitEffect
<1> QED
  BY <1>1 DEF Next, Step, Begin, FindByCode, SelectRow, WriteRow, Fail, Crash, vars

LEMMA TakenInit == Init => TakenOK
BY DEF Init, TakenOK

LEMMA TakenStep == TypeInv /\ TakenOK /\ [Next]_vars => TakenOK'
<1> SUFFICES ASSUME TypeInv, TakenOK, [Next]_vars PROVE TakenOK'
  OBVIOUS
\* Slots that take no step, or end without having saved, keep it.
<1>1. ASSUME NEW r \in taken', r \in taken, job'[r] = job[r],
             pc'[r] \in {pc[r], "exists", "kept", "failed"}
      PROVE  /\ pc'[r] = "findByCode" => subjects'[job'[r].code] # NoRow
             /\ job'[r].op = "createSubject" => pc'[r] \notin {"selectRow", "writeRow", "saved"}
  BY <1>1, SubjectsStay, JobType DEF TakenOK, TypeInv, TypeOK, SlotOK
<1>2. ASSUME NEW r \in Requests, NEW j \in Job, Begin(r, j) PROVE TakenOK'
  <2>1. /\ pc'[r] = "findByCode" /\ job'[r] = j
        /\ \A q \in taken' \ {r} : q \in taken /\ pc'[q] = pc[q] /\ job'[q] = job[q]
    BY <1>2 DEF Begin, GoTo, TypeInv, TypeOK
  <2>2. r \in taken' => subjects'[j.code] # NoRow
    BY <1>2 DEF Begin
  <2> QED
    BY <1>1, <2>1, <2>2 DEF TakenOK
<1>3. ASSUME NEW r \in Requests, FindByCode(r) PROVE TakenOK'
  <2>1. r \in taken /\ job[r].op = "createSubject" => pc'[r] = "exists"
    BY <1>3 DEF FindByCode, GoTo, Proceeds, TakenOK, TypeInv, TypeOK
  <2>2. pc'[r] # "findByCode" /\ \A q \in Requests \ {r} : pc'[q] = pc[q]
    BY <1>3 DEF FindByCode, GoTo, TypeInv, TypeOK
  <2> QED
    BY <1>1, <1>3, <2>1, <2>2 DEF FindByCode, TakenOK, TypeInv, TypeOK
<1>4. ASSUME NEW r \in Requests, SelectRow(r) PROVE TakenOK'
  <2>1. r \in taken => job[r].op # "createSubject"
    BY <1>4 DEF SelectRow, TakenOK
  <2>2. pc'[r] = "writeRow" /\ \A q \in Requests \ {r} : pc'[q] = pc[q]
    BY <1>4 DEF SelectRow, GoTo, TypeInv, TypeOK
  <2> QED
    BY <1>1, <1>4, <2>1, <2>2 DEF SelectRow, TakenOK, TypeInv, TypeOK
<1>5. ASSUME NEW r \in Requests, WriteRow(r) PROVE TakenOK'
  <2>1. r \in taken => job[r].op # "createSubject"
    BY <1>5 DEF WriteRow, Commit, TakenOK
  <2>2. pc'[r] # "findByCode" /\ \A q \in Requests \ {r} : pc'[q] = pc[q]
    BY <1>5 DEF WriteRow, Answer, GoTo, TypeInv, TypeOK
  <2> QED
    BY <1>1, <1>5, <2>1, <2>2 DEF WriteRow, TakenOK, TypeInv, TypeOK
<1>6. ASSUME NEW r \in Requests, Fail(r) PROVE TakenOK'
  <2>1. \A q \in Requests : pc'[q] \in {pc[q], "failed"}
    BY <1>6 DEF Fail, Answer, GoTo, TypeInv, TypeOK
  <2> QED
    BY <1>1, <1>6, <2>1 DEF Fail, TakenOK, TypeInv, TypeOK
<1>7. CASE Crash
  BY <1>1, <1>7 DEF Crash, TakenOK, TypeInv, TypeOK
<1>8. CASE UNCHANGED vars
  BY <1>8 DEF vars, TakenOK
<1> QED
  BY <1>2, <1>3, <1>4, <1>5, <1>6, <1>7, <1>8 DEF Next, Step

LEMMA HeldInit == Init => HeldOK
BY DEF Init, HeldOK

\* The row that a statement has left is seen by all who are to save it, and holds what
\* the statement was given: written by it, or found there when save read it back.
LEMMA CommitSeen ==
    ASSUME TypeInv, HeldOK, NEW r \in Requests, Commit(r)
    PROVE  /\ \A q \in Requests : held[q] \subseteq held'[q]
           /\ \A q \in Requests : pc[q] \in {"selectRow", "writeRow"} =>
                Cells(subjects'[job[q].code]) \subseteq held'[q]
           /\ \A x \in Given(job[r].op) : <<x, Entity(job[r])[x]>> \in held'[r]
<1> DEFINE c == job[r].code
<1>1. /\ job[r] \in Job /\ c \in Codes /\ pc[r] = "writeRow"
      /\ job[r].op \in {"createSubject", "upsertFromIntranet"}
      /\ \A d \in Codes \ {c} : subjects'[d] = subjects[d]
  BY CommitEffect, JobType DEF Commit
<1>2. PICK row : /\ Store(c, row)
                 /\ \/ row = Entity(job[r])
                    \/ row = Updated(subjects[c], job[r], image[r]) /\ image[r] \in Row
  BY CommitEffect DEF Commit
<1>3. subjects'[c] = row
  BY <1>1, <1>2 DEF Store, TypeInv, TypeOK
<1>4. \A q \in Requests : held'[q] = IF pc[q] \in {"selectRow", "writeRow"} /\ job[q].code = c
                                      THEN held[q] \cup Cells(row) ELSE held[q]
  BY <1>2 DEF Store
<1>5. \A q \in Requests : pc[q] \in {"selectRow", "writeRow"} =>
        Cells(subjects'[job[q].code]) \subseteq held'[q]
  <2> SUFFICES ASSUME NEW q \in Requests, pc[q] \in {"selectRow", "writeRow"}
               PROVE  Cells(subjects'[job[q].code]) \subseteq held'[q]
    OBVIOUS
  <2>1. job[q].code \in Codes
    BY JobType DEF TypeInv, SlotOK
  <2>2. CASE job[q].code = c
    BY <1>3, <1>4, <2>2
  <2>3. CASE job[q].code # c
    BY <1>1, <1>4, <2>1, <2>3 DEF HeldOK
  <2> QED
    BY <2>2, <2>3
<1>6. ASSUME NEW x \in Given(job[r].op) PROVE <<x, Entity(job[r])[x]>> \in held'[r]
  <2>1. held'[r] = held[r] \cup Cells(row) /\ Cells(image[r]) \subseteq held[r]
    BY <1>1, <1>4 DEF HeldOK
  <2>2. x \in {"title", "source", "external"}
    BY DEF Given
  <2>3. CASE row = Entity(job[r])
    <3>1. row \in Row
      BY <1>1, <2>3, EntityType
    <3>2. row # NoRow /\ x \in DOMAIN row
      BY <2>2, <3>1 DEF Row
    <3> QED
      BY <2>1, <2>3, <3>2 DEF Cells
  <2>4. CASE row = Updated(subjects[c], job[r], image[r]) /\ image[r] \in Row
    <3>1. subjects[c] \in Row
      BY <1>1, <2>4 DEF TypeInv, TypeOK, SlotOK
    <3>2. row \in Row
      BY <1>1, <2>4, <3>1, UpdatedType
    <3>3. row # NoRow /\ x \in DOMAIN row /\ image[r] # NoRow /\ x \in DOMAIN image[r]
      BY <2>2, <2>4, <3>2 DEF Row
    <3>4. row[x] = Entity(job[r])[x] \/ image[r][x] = Entity(job[r])[x]
      BY <2>2, <2>4 DEF Updated
    <3>5. <<x, row[x]>> \in Cells(row) /\ <<x, image[r][x]>> \in Cells(image[r])
      BY <3>3 DEF Cells
    <3> QED
      BY <2>1, <3>4, <3>5
  <2> QED
    BY <1>2, <2>3, <2>4
<1> QED
  BY <1>4, <1>5, <1>6

LEMMA HeldStep == TypeInv /\ HeldOK /\ [Next]_vars => HeldOK'
<1> SUFFICES ASSUME TypeInv, HeldOK, [Next]_vars PROVE HeldOK'
  OBVIOUS
\* A slot that takes no step.
<1>1. ASSUME NEW r \in Requests, UNCHANGED <<subjects, held>> \/ \E q \in Requests : Commit(q),
             pc'[r] = pc[r], job'[r] = job[r], image'[r] = image[r]
      PROVE  /\ pc'[r] \in {"selectRow", "writeRow"} =>
                  Cells(subjects'[job'[r].code]) \subseteq held'[r]
             /\ pc'[r] = "writeRow" => Cells(image'[r]) \subseteq held'[r]
             /\ pc'[r] = "saved" =>
                  \A x \in Given(job'[r].op) : <<x, Entity(job'[r])[x]>> \in held'[r]
  <2>1. CASE UNCHANGED <<subjects, held>>
    BY <1>1, <2>1 DEF HeldOK
  <2>2. CASE \E q \in Requests : Commit(q)
    BY <1>1, <2>2, CommitSeen DEF HeldOK
  <2> QED
    BY <1>1, <2>1, <2>2
<1>2. ASSUME NEW r \in Requests, NEW j \in Job, Begin(r, j) PROVE HeldOK'
  <2>1. /\ pc'[r] = "findByCode" /\ subjects' = subjects /\ image' = image
        /\ \A q \in Requests \ {r} : pc'[q] = pc[q] /\ job'[q] = job[q] /\ held'[q] = held[q]
    BY <1>2 DEF Begin, GoTo, TypeInv, TypeOK
  <2> QED
    BY <2>1 DEF HeldOK
<1>3. ASSUME NEW r \in Requests, FindByCode(r) PROVE HeldOK'
  <2>1. /\ UNCHANGED <<subjects, job, image>>
        /\ pc'[r] \in {"selectRow", "exists", "kept"}
        /\ pc'[r] = "selectRow" => held'[r] = Cells(subjects[job[r].code])
        /\ \A q \in Requests \ {r} : pc'[q] = pc[q] /\ held'[q] = held[q]
    BY <1>3 DEF FindByCode, GoTo, TypeInv, TypeOK
  <2> QED
    BY <2>1 DEF HeldOK
<1>4. ASSUME NEW r \in Requests, SelectRow(r) PROVE HeldOK'
  <2>1. /\ UNCHANGED <<subjects, job, held>>
        /\ pc[r] = "selectRow" /\ pc'[r] = "writeRow"
        /\ image'[r] = subjects[job[r].code]
        /\ \A q \in Requests \ {r} : pc'[q] = pc[q] /\ image'[q] = image[q]
    BY <1>4 DEF SelectRow, GoTo, TypeInv, TypeOK
  <2> QED
    BY <2>1 DEF HeldOK
<1>5. ASSUME NEW r \in Requests, WriteRow(r) PROVE HeldOK'
  <2>1. /\ pc'[r] \in {"saved", "failed"} /\ job' = job
        /\ \A q \in Requests \ {r} : pc'[q] = pc[q] /\ image'[q] = image[q]
        /\ pc'[r] = "saved" => Commit(r)
        /\ UNCHANGED <<subjects, held>> \/ Commit(r)
    BY <1>5 DEF WriteRow, Answer, GoTo, TypeInv, TypeOK
  <2>2. pc'[r] = "saved" =>
          \A x \in Given(job'[r].op) : <<x, Entity(job'[r])[x]>> \in held'[r]
    BY <2>1, CommitSeen
  <2> QED
    BY <1>1, <2>1, <2>2 DEF HeldOK
<1>6. ASSUME NEW r \in Requests, Fail(r) PROVE HeldOK'
  <2>1. /\ pc'[r] = "failed" /\ job' = job
        /\ \A q \in Requests \ {r} : pc'[q] = pc[q] /\ image'[q] = image[q]
        /\ UNCHANGED <<subjects, held>> \/ Commit(r)
    BY <1>6 DEF Fail, Answer, GoTo, TypeInv, TypeOK
  <2> QED
    BY <1>1, <2>1 DEF HeldOK
<1>7. CASE Crash
  <2>1. /\ UNCHANGED <<subjects, job, held>>
        /\ \A q \in Requests : /\ pc'[q] \notin {"selectRow", "writeRow"}
                               /\ pc'[q] = "saved" => pc[q] = "saved"
    BY <1>7 DEF Crash, InFlight, Awaits, TypeInv, TypeOK
  <2> QED
    BY <2>1 DEF HeldOK
<1>8. CASE UNCHANGED vars
  BY <1>1, <1>8 DEF vars, HeldOK
<1> QED
  BY <1>2, <1>3, <1>4, <1>5, <1>6, <1>7, <1>8 DEF Next, Step

\* Only a request that arrived while its code was free registers a subject, and what
\* any request has saved its row has held, however the requests overlap.
THEOREM SavesAreTrue == Spec => []SavedIsTrue
<1>1. TakenOK /\ HeldOK => SavedIsTrue
  <2> SUFFICES ASSUME TakenOK, HeldOK, NEW r \in Requests, pc[r] = "saved"
               PROVE  /\ job[r].op = "createSubject" => r \notin taken
                      /\ \A x \in Given(job[r].op) : <<x, Entity(job[r])[x]>> \in held[r]
    BY DEF SavedIsTrue
  <2> QED
    BY DEF TakenOK, HeldOK
<1> QED
  BY <1>1, TypeInit, TypeStep, TakenInit, TakenStep, HeldInit, HeldStep, PTL DEF Spec
-----------------------------------------------------------------------------
LEMMA AloneInit == Init => AloneOK
BY DEF Init, AloneOK, InFlight, Awaits

LEMMA AloneStep == TypeInv /\ AloneOK /\ [Next]_vars => AloneOK'
<1> SUFFICES ASSUME TypeInv, AloneOK, [Next]_vars PROVE AloneOK'
  OBVIOUS
\* A request that was in flight stays alone, and is still right about its row,
\* if it takes no step and the row is not written.
<1>1. ASSUME NEW r \in Requests, UNCHANGED job, disturbed' = disturbed,
             \A q \in Requests : InFlight(q)' => InFlight(q),
             InFlight(r)' /\ job[r].code \notin disturbed
      PROVE  \A q \in Requests \ {r} : InFlight(q)' => job'[q].code # job'[r].code
  BY <1>1 DEF AloneOK
<1>2. ASSUME NEW r \in Requests, UNCHANGED job, disturbed' = disturbed,
             pc'[r] = pc[r], image'[r] = image[r],
             subjects'[job[r].code] = subjects[job[r].code],
             InFlight(r)', job[r].code \notin disturbed
      PROVE  /\ pc'[r] \in {"selectRow", "writeRow"} =>
                  Proceeds(job'[r], subjects'[job'[r].code])
             /\ pc'[r] = "writeRow" => image'[r] = subjects'[job'[r].code]
  BY <1>2 DEF AloneOK, InFlight
<1>3. ASSUME NEW r \in Requests, NEW j \in Job, Begin(r, j) PROVE AloneOK'
  <2>1. /\ pc'[r] = "findByCode" /\ job'[r] = j /\ subjects' = subjects /\ image' = image
        /\ \A q \in Requests \ {r} : pc'[q] = pc[q] /\ job'[q] = job[q]
        /\ disturbed \subseteq disturbed'
    BY <1>3 DEF Begin, GoTo, TypeInv, TypeOK
  <2>2. ASSUME NEW q \in Requests \ {r}, InFlight(q), job[q].code = j.code
        PROVE  j.code \in disturbed'
    BY <1>3, <2>2 DEF Begin
  <2> QED
    BY <2>1, <2>2 DEF AloneOK, InFlight
<1>4. ASSUME NEW r \in Requests, FindByCode(r) PROVE AloneOK'
  <2>1. /\ UNCHANGED <<subjects, job, image, disturbed>>
        /\ \A q \in Requests \ {r} : pc'[q] = pc[q]
        /\ InFlight(r)
    BY <1>4 DEF FindByCode, GoTo, InFlight, Awaits, TypeInv, TypeOK
  <2>2. InFlight(r)' => pc'[r] = "selectRow" /\ Proceeds(job[r], subjects[job[r].code])
    BY <1>4 DEF FindByCode, GoTo, InFlight, Awaits, TypeInv, TypeOK
  <2>3. \A q \in Requests : InFlight(q)' => InFlight(q)
    BY <2>1 DEF InFlight
  <2> QED
    BY <1>1, <1>2, <2>1, <2>2, <2>3 DEF AloneOK
<1>5. ASSUME NEW r \in Requests, SelectRow(r) PROVE AloneOK'
  <2>1. /\ UNCHANGED <<subjects, job, disturbed>>
        /\ \A q \in Requests \ {r} : pc'[q] = pc[q] /\ image'[q] = image[q]
        /\ InFlight(r) /\ pc[r] = "selectRow"
        /\ pc'[r] = "writeRow" /\ image'[r] = subjects[job[r].code]
    BY <1>5 DEF SelectRow, GoTo, InFlight, Awaits, TypeInv, TypeOK
  <2>2. job[r].code \notin disturbed => Proceeds(job[r], subjects[job[r].code])
    BY <2>1 DEF AloneOK
  <2>3. \A q \in Requests : InFlight(q)' => InFlight(q)
    BY <2>1 DEF InFlight
  <2> QED
    BY <1>1, <1>2, <2>1, <2>2, <2>3 DEF AloneOK
<1>6. ASSUME NEW r \in Requests, NEW answer \in Answers, Answer(r, answer),
             InFlight(r), UNCHANGED <<subjects, held>> \/ Commit(r),
             UNCHANGED <<job, disturbed>>
      PROVE  AloneOK'
  <2>1. /\ ~InFlight(r)'
        /\ \A q \in Requests \ {r} : pc'[q] = pc[q] /\ image'[q] = image[q]
    BY <1>6 DEF Answer, GoTo, InFlight, Awaits, Answers, TypeInv, TypeOK
  <2>2. \A q \in Requests : InFlight(q)' => InFlight(q)
    BY <2>1 DEF InFlight
  <2>3. ASSUME NEW q \in Requests \ {r}, InFlight(q)', job[q].code \notin disturbed
        PROVE  subjects'[job[q].code] = subjects[job[q].code]
    <3>1. job[q].code # job[r].code
      BY <1>6, <2>2, <2>3 DEF AloneOK
    <3>2. job[q].code \in Codes
      BY <2>2, <2>3, JobType DEF InFlight, Awaits, TypeInv, SlotOK
    <3> QED
      BY <1>6, <3>1, <3>2, CommitEffect
  <2> QED
    BY <1>1, <1>2, <1>6, <2>1, <2>2, <2>3 DEF AloneOK
<1>7. ASSUME NEW r \in Requests, WriteRow(r) PROVE AloneOK'
  BY <1>6, <1>7 DEF WriteRow, Commit, InFlight, Awaits, Answers
<1>8. ASSUME NEW r \in Requests, Fail(r) PROVE AloneOK'
  BY <1>6, <1>8 DEF Fail, Answers
<1>9. CASE Crash
  <2>1. \A r \in Requests : ~InFlight(r)'
    BY <1>9 DEF Crash, InFlight, Awaits, TypeInv, TypeOK
  <2> QED
    BY <2>1 DEF AloneOK
<1>10. CASE UNCHANGED vars
  BY <1>10 DEF vars, AloneOK, InFlight
<1> QED
  BY <1>3, <1>4, <1>5, <1>7, <1>8, <1>9, <1>10 DEF Next, Step
-----------------------------------------------------------------------------
LEMMA CatalogueInit == Init => Catalogue!Init
BY DEF Init, Catalogue!Init, Catalogue!LocalRow, LocalRow

\* Codes that leave the promise, or have left it, may get any row.
LEMMA DisturbStep ==
    ASSUME TypeInv, TypeInv', disturbed \subseteq disturbed',
           \A c \in Codes \ disturbed' : subjects'[c] = subjects[c]
    PROVE  Catalogue!Next
BY DEF Catalogue!Next, Catalogue!Disturb, Catalogue!Row, Row, Source, TypeInv, TypeOK

\* A statement committed on an undisturbed code is what the catalogue does at once.
LEMMA CommitStep ==
    ASSUME TypeInv, AloneOK, NEW r \in Requests, Commit(r),
           job[r].code \notin disturbed, UNCHANGED disturbed
    PROVE  Catalogue!Next
<1> DEFINE c == job[r].code
           t == job[r].title
<1>1. /\ job[r] \in Job /\ c \in Codes /\ t \in Titles
      /\ job[r].op \in {"createSubject", "upsertFromIntranet"}
      /\ image[r] = subjects[c] /\ Proceeds(job[r], subjects[c])
  BY CommitEffect, JobType DEF Commit, AloneOK, InFlight, Awaits
<1>2. CASE subjects[c] = NoRow
  <2>1. subjects' = [subjects EXCEPT ![c] = Entity(job[r])]
    BY <1>1, <1>2 DEF Commit, Store
  <2>2. CASE job[r].op = "createSubject"
    <3>1. Catalogue!Create(c, t)
      BY <1>2, <2>1, <2>2
      DEF Catalogue!Create, Catalogue!LocalRow, Entity, LocalRow
    <3> QED
      BY <1>1, <3>1 DEF Catalogue!Next
  <2>3. CASE job[r].op = "upsertFromIntranet"
    <3>1. Catalogue!Upsert(c, t)
      BY <1>2, <2>1, <2>3
      DEF Catalogue!Upsert, Catalogue!IntranetRow, Entity, IntranetRow
    <3> QED
      BY <1>1, <3>1 DEF Catalogue!Next
  <2> QED
    BY <1>1, <2>2, <2>3
<1>3. CASE subjects[c] # NoRow
  <2>1. job[r].op = "upsertFromIntranet" /\ subjects[c].source = "INTRANET"
    BY <1>1, <1>3 DEF Proceeds
  <2>2. subjects[c] \in Row
    BY <1>1, <1>3 DEF TypeInv, TypeOK
  <2>3. subjects' = [subjects EXCEPT ![c] = IntranetRow(t)]
    BY <1>1, <1>3, <2>1, <2>2, UpdatedAlone DEF Commit, Store
  <2>4. Catalogue!Upsert(c, t)
    BY <2>1, <2>3 DEF Catalogue!Upsert, Catalogue!IntranetRow, IntranetRow
  <2> QED
    BY <1>1, <2>4 DEF Catalogue!Next
<1> QED
  BY <1>2, <1>3

LEMMA CatalogueStep ==
    TypeInv /\ AloneOK /\ [Next]_vars => [Catalogue!Next]_(Catalogue!vars)
<1> SUFFICES ASSUME TypeInv, AloneOK, [Next]_vars
             PROVE  [Catalogue!Next]_(Catalogue!vars)
  OBVIOUS
<1>1. TypeInv'
  BY TypeStep
<1>2. CASE UNCHANGED subjects /\ disturbed \subseteq disturbed'
  BY <1>1, <1>2, DisturbStep
<1>3. ASSUME NEW r \in Requests, Commit(r), UNCHANGED disturbed
      PROVE  Catalogue!Next
  <2>1. CASE job[r].code \in disturbed
    BY <1>1, <1>3, <2>1, CommitEffect, DisturbStep
  <2>2. CASE job[r].code \notin disturbed
    BY <1>3, <2>2, CommitStep
  <2> QED
    BY <2>1, <2>2
<1>4. \/ UNCHANGED subjects /\ disturbed \subseteq disturbed'
      \/ \E r \in Requests : Commit(r) /\ UNCHANGED disturbed
  BY DEF Next, Step, Begin, FindByCode, SelectRow, WriteRow, Fail, Crash, vars
<1> QED
  BY <1>2, <1>3, <1>4

\* Over PostgreSQL, and for every code on which no two requests have overlapped,
\* registering and synchronising are steps of the catalogue: a code is registered
\* once and local subjects are preserved, whatever fails or crashes.
THEOREM ImplementsCatalogue == Spec => CatalogueSpec
<1> QED
  BY TypeInit, TypeStep, AloneInit, AloneStep, CatalogueInit, CatalogueStep, PTL
  DEF Spec, CatalogueSpec, Catalogue!Spec

\* For a code on which no two requests have overlapped, a stored subject is wholly
\* local or wholly from the Intranet, never the source of one with the flag of the
\* other: whatever fails or crashes.
THEOREM OriginsAreWhole == Spec => []Catalogue!OneOrigin
<1> DEFINE Whole(row) == row = NoRow \/ (row.source = "INTRANET" <=> row.external)
<1>1. \A t : Whole(LocalRow(t)) /\ Whole(IntranetRow(t))
  BY DEF LocalRow, IntranetRow
<1>2. Catalogue!OneOrigin <=> \A c \in Codes \ disturbed : Whole(subjects[c])
  BY DEF Catalogue!OneOrigin
<1>3. Init => Catalogue!OneOrigin
  <2> SUFFICES ASSUME Init, NEW c \in Codes PROVE Whole(subjects[c])
    BY <1>2
  <2> QED
    BY <1>1 DEF Init
<1>4. ASSUME TypeInv, AloneOK, Catalogue!OneOrigin, [Next]_vars
      PROVE  Catalogue!OneOrigin'
  <2>1. [Catalogue!Next]_(Catalogue!vars)
    BY <1>4, CatalogueStep
  <2>2. \A c \in Codes \ disturbed : Whole(subjects[c])
    BY <1>2, <1>4
  <2>3. ASSUME NEW c \in Codes, NEW row, Whole(row), UNCHANGED disturbed,
               subjects' = [subjects EXCEPT ![c] = row]
        PROVE  \A d \in Codes \ disturbed' : Whole(subjects'[d])
    <3>1. DOMAIN subjects = Codes
      BY <1>4 DEF TypeInv, TypeOK
    <3> HIDE DEF Whole
    <3> QED
      BY <2>2, <2>3, <3>1
  <2> SUFFICES \A d \in Codes \ disturbed' : Whole(subjects'[d])
    BY DEF Catalogue!OneOrigin
  <2>4. CASE \E c \in Codes, t \in Titles : Catalogue!Create(c, t)
    BY <1>1, <2>3, <2>4 DEF Catalogue!Create, Catalogue!LocalRow, LocalRow
  <2>5. CASE \E c \in Codes, t \in Titles : Catalogue!Upsert(c, t)
    BY <1>1, <2>3, <2>5 DEF Catalogue!Upsert, Catalogue!IntranetRow, IntranetRow
  <2>6. CASE Catalogue!Disturb
    BY <2>2, <2>6 DEF Catalogue!Disturb
  <2>7. CASE UNCHANGED Catalogue!vars
    BY <2>2, <2>7 DEF Catalogue!vars
  <2> QED
    BY <2>1, <2>4, <2>5, <2>6, <2>7 DEF Catalogue!Next
<1> QED
  BY <1>3, <1>4, TypeInit, TypeStep, AloneInit, AloneStep, PTL DEF Spec
=============================================================================
