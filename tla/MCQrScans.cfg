CONSTANTS
    outsider = outsider
    Students = {s1, s2, outsider}
    Classes = {c1}
    Enrolled <- MCEnrolled
    Nonces = {n1, n2}
    Readers = {q1, q2}
    Editors = {}
    MaxTime = 2
    Ttl = 1
    Skew = 0
    NoRow = NoRow
    None = None
SPECIFICATION Spec
SYMMETRY Symmetry
INVARIANTS
    TypeOK
    OneRecordPerStudentClass
    NonceSpentOnce
    RecordsMatchTokens
    AnswersAreTrue
PROPERTIES
    LedgerSpec
    InsertionWarranted
