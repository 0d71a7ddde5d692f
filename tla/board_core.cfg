SPECIFICATION BoardSpec
CONSTANTS
    o = o
    x1 = x1
    x2 = x2
    b1 = b1
    b2 = b2
    r1 = r1
    r2 = r2
    r3 = r3
    p1 = p1
    d1 = d1
    u1 = u1
    NoProject = none
    Atom <- mcAtom
    Old <- mcOld
    Doomed <- mcDoomed
    Content <- mcContent
    Project <- mcProject
    Wanted <- mcWanted
    Request <- mcRequest
    Batch <- mcBatch
    Single <- mcSingle
    Provenance <- mcProvenance
    Explicit <- mcExplicit
    Deletion <- mcDeletion
    Target <- mcTarget
    Upload <- mcUpload
    Into <- mcInto
    Crowds <- mcCrowds
    MaxFaults = 1
    MaxDepth = 3
INVARIANTS
    SameOnlyInParallel
    AnswersTrue
    DeleteFailsOnlyForRace
    LineageComplete
CHECK_DEADLOCK FALSE
