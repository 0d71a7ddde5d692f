SPECIFICATION FairSpec
CONSTANTS
    a = a
    b = b
    None = None
    Atom = {a, b}
    ReplicatedAt = 1
    CoreAt = 3
    DisagreementThreshold = 50
    MaxReplications <- Five
    MaxRows = 2
    MaxContradictions <- Rows
    DisagreementLevels <- LevelsOfA
    MaxRequests = 2
    MaxCrashes = 1
    MaxFaults = 1
INVARIANTS
    LifecycleBacked
    AuditIsHonest
    AuditIsPath
PROPERTIES
    KeepsPromise
    Crystallises
