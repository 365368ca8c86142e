CONSTANTS
    s = s  p = p  k = k  k0 = k0  c = c  c0 = c0
    SnapshotUsers <- MCUsers
    SnapshotSubjects <- MCSubjects
    SnapshotEnrollments <- MCEnrollments
    SnapshotTeachings <- MCTeachings
    SnapshotClasses <- MCClasses
    RoleOf <- MCRoleOf
    Roles = {"ESTUDIANTE", "DIRECTOR_CARRERA"}
    SubjectOf <- MCSubjectOf
    SeedBatches <- MCSeedBatches
    SeedValue <- MCSeedValue
    Requests = {r1, r2}
    MaxFailures = 2
    NoRow = NoRow
SPECIFICATION FairSpec
INVARIANTS
    TypeOK
    NothingDangles
    AckedSyncStored
PROPERTIES
    StoredRowsStay
    RetriesComplete
