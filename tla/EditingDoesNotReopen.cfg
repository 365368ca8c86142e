CONSTANTS
    teacher = teacher
    stranger = stranger
    Classes = {c1}
    IntranetClasses = {}
    Professors <- MCProfessors
    Taught <- MCTaught
    Requests = {r1, r2}
    NoRow = NoRow
    NoJob = NoJob
SPECIFICATION Spec
SYMMETRY Symmetry
PROPERTY EditingDoesNotReopen
