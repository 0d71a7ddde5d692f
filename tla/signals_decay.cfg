SPECIFICATION Spec
CONSTANTS
    s = s
    f1 = f1
    f2 = f2
    b1 = b1
    b2 = b2
    d = d
    None = none
    Atom <- mcAtom
    Early <- mcEarly
    Finding <- mcFinding
    Synthesis <- mcSynthesis
    Bounty <- mcBounty
    Domain <- mcDomain
    DomainOf <- mcDomainOf
    Cause <- mcCause
    Near <- mcNear
    Metric <- mcMetric
    Links <- mcLinks
    Doomed <- mcDoomed
    Menus <- mcSweeps
    HigherBetter = TRUE
    Cap = 100000
    Unit = 1000
    HalfLife = 1
    Threshold = 1
    Limit = 2
    o1 = o1
    w = w
    Owner = {o1}
    Worker = w
    MaxFaults = 0
INVARIANTS
    ChargedForNews
CHECK_DEADLOCK FALSE
