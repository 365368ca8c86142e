CONSTANTS
    outsider = outsider
    Students = {s1}
    Classes = {c1}
    Enrolled <- MCEnrolled
    Nonces = {n1, n2}
    Readers = {q1, q2}
    Editors = {}
    MaxTime = 0
    Ttl = 1
    Skew = 0
    NoRow = NoRow
    None = None
SPECIFICATION Spec
PROPERTY DuplicateIsConflict
