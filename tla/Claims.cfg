SPECIFICATION Spec
CONSTANTS
    Claims = {c1}
    Sessions = {s1, s2}
    Jobs = {"decay", "lane"}
    FreshRows <- AgeingClaims
    NewSensitivities = {"S2"}
    Operations = {"confirm", "retract", "archive", "lock", "unlock", "sensitivity"}
    MayFail = {s1, s2, "decay"}
    MaxOps = 3
    MaxRuns = 1
    MaxConfidence = 1
    NoRow = NoRow
    NoHash = NoHash
    NoClaim = NoClaim
INVARIANTS
    TypeOK
    VersionChain
    SnapshotsExisted
    AuditedIsVersioned
PROPERTIES
    ArchivedStaysArchived
    JobsKeepUserDecisions
    ImplementsVersionLog
SYMMETRY SessionSymmetry
CHECK_DEADLOCK FALSE
