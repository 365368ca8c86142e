CONSTANTS
    s1 = s1  s2 = s2  p1 = p1  p2 = p2  x1 = x1  x2 = x2  c1 = c1  c2 = c2  c3 = c3
    Director = director
    Admin = admin
    Students = {s1, s2}
    Professors = {p1, p2}
    Subjects = {x1, x2}
    Classes = {c1, c2, c3}
    SubjectOf <- MCSubjectOf
    Enrolled <- MCEnrolled
    Teaching <- MCTeaching
    RutOf <- MCRutOf
    Texts <- MCTexts
    Nonces = {n1, n2}
    MaxTime = 1
    Ttl = 1
    Skew = 0
    NoRow = NoRow
    None = None
SPECIFICATION Spec
SYMMETRY Symmetry
INVARIANTS
    TypeOK
    EveryRefusalTranslated
    RouteRutAddsNothing
    ReportsAgree
    MistypedIsRefused
PROPERTIES
    OwnSubjectOnly
    GateSteps
    LedgerSteps
