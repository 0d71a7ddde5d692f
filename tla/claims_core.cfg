SPECIFICATION Spec
CONSTANTS
    a1 = a1
    a2 = a2
    x1 = x1
    h = h
    c1 = c1
    d1 = d1
    s1 = s1
    Agent <- mcAgent
    Atom <- mcAtom
    Old <- mcOld
    Doomed <- mcDoomed
    Weight <- mcWeight
    Unreplicated <- mcFresh
    Request <- mcRequest
    Kind <- mcKind
    By <- mcBy
    On <- mcOn
    Ttl <- mcTtl
    Limit = 2
    Horizon = 1
    MaxFailures = 1
INVARIANTS
    CountsFresh
    OrphansFromFailures
    SurveyServes
PROPERTIES
    EventuallyEnded
CHECK_DEADLOCK FALSE
