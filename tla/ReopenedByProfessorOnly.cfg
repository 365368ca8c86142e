CONSTANTS
    teacher = teacher
    stranger = stranger
    Classes = {c1}
    IntranetClasses = {c1}
    Professors <- MCProfessors
    Taught <- MCTaught
    Requests = {r1}
    NoRow = NoRow
    NoJob = NoJob
SPECIFICATION Spec
SYMMETRY Symmetry
PROPERTY ReopenedByProfessorOnly
