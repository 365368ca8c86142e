CONSTANTS
    teacher = teacher
    stranger = stranger
    Classes = {c1}
    IntranetClasses = {c1}
    Professors <- MCProfessors
    Taught <- MCTaught
    Requests = {r1, r2}
    NoRow = NoRow
    NoJob = NoJob
SPECIFICATION FairSpec
INVARIANTS TypeOK AckTookEffect ExclusiveUnlessDisturbed
PROPERTIES GateSpec WindowCloses
