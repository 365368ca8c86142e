CONSTANTS
    teacher = teacher
    Professors = {teacher}
    Taught <- MCTaught
    Students = {s1}
    Enrolled <- MCEnrolled
    Classes = {c1}
    IntranetClasses = {c1}
    Requests = {r1}
    Nonces = {n1}
    Readers = {q1}
    Editors = {e1, e2}
    MaxTime = 0
    Ttl = 1
    Skew = 0
    NoRow = NoRow
    NoJob = NoJob
    None = None
SPECIFICATION SystemSpec
SYMMETRY Symmetry
INVARIANT AckedEditTookEffect
PROPERTIES
    CloseIsFinal
    EditWarranted
