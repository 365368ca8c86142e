CONSTANTS
    c1 = c1
    c2 = c2
    x = x
    Students = {s1, s2}
    Classes = {c1, c2}
    Subjects = {x, y}
    SubjectOf <- MCSubjectOf
    NoReport = NoReport
SPECIFICATION Spec
SYMMETRY Symmetry
INVARIANTS TypeOK AttendedWithinTotal ExcessIsNewClasses CountsWarranted
