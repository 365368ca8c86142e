-------------------------- MODULE SubjectCatalogue --------------------------
(***************************************************************************)
(* What registering a subject (CU-09) and synchronising it promise when    *)
(* they do not overlap: a code is registered once, and the synchronisation *)
(* leaves local subjects alone.  This is how they run over the in-memory   *)
(* SubjectRepository.  Subjects, which models their steps over PostgreSQL, *)
(* implements it for every code on which no two requests have overlapped.  *)
(***************************************************************************)
CONSTANTS
    Codes,       \* subject codes
    Titles,      \* a title stands for the name and career of a subject
    NoRow        \* there is no subject with this code

VARIABLES
    catalogue,   \* catalogue[c]: the subject with code c, or NoRow
    disturbed    \* the codes the promise no longer covers

vars == <<catalogue, disturbed>>

Row == [title : Titles, source : {"LOCAL", "INTRANET"}, external : BOOLEAN]

LocalRow(t) == [title |-> t, source |-> "LOCAL", external |-> FALSE]
IntranetRow(t) == [title |-> t, source |-> "INTRANET", external |-> TRUE]

Init == /\ catalogue \in [Codes -> {LocalRow(t) : t \in Titles} \cup {NoRow}]
        /\ disturbed = {}

\* createSubject: 409 for a code that is taken.
Create(c, t) == /\ catalogue[c] = NoRow
                /\ catalogue' = [catalogue EXCEPT ![c] = LocalRow(t)]
                /\ UNCHANGED disturbed

\* upsertFromIntranet: a local subject is preserved.
Upsert(c, t) == /\ catalogue[c] # NoRow => catalogue[c].source = "INTRANET"
                /\ catalogue' = [catalogue EXCEPT ![c] = IntranetRow(t)]
                /\ UNCHANGED disturbed

\* Codes leave the promise, and a code outside it may get any row.
Disturb == /\ disturbed \subseteq disturbed'
           /\ disturbed' \subseteq Codes
           /\ catalogue' \in [Codes -> Row \cup {NoRow}]
           /\ \A c \in Codes \ disturbed' : catalogue'[c] = catalogue[c]

Next == \/ \E c \in Codes, t \in Titles : Create(c, t) \/ Upsert(c, t)
        \/ Disturb

Spec == Init /\ [][Next]_vars
-----------------------------------------------------------------------------
\* A subject the promise covers is wholly local or wholly from the Intranet.
OneOrigin == \A c \in Codes \ disturbed :
                catalogue[c] # NoRow =>
                  (catalogue[c].source = "INTRANET" <=> catalogue[c].external)
=============================================================================
