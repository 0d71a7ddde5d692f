SPECIFICATION FairSpec
\* Requests are finitely many: when all are answered and processed the hub idles.
CHECK_DEADLOCK FALSE
CONSTANTS
    a = a
    b = b
    None = None
    Atom = {a, b}
    Kind <- Findings
    Near <- AllPairs
    Spread <- Warn40
    Comparable <- AllPairs
    Metric <- Band
    HigherBetter = TRUE
    Parents <- BFromA
    Unembeddable <- NoneOrA
    ChannelCap = 1
    PollLimit = 2
    MaxCrashes = 2
    MaxFaults = 1
INVARIANTS
    TypeOK
    ReplicationLag
    ContradictionSignalled
    CacheBacked
    NoveltyNotInflated
    CountedAtMostTwice
PROPERTIES
    ImplementsEvidence
    EventuallyReady
    PublishAnswered
