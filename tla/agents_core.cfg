SPECIFICATION Spec
CONSTANTS
    g = g
    x = x
    y = y
    z = z
    w = w
    p = p
    q = q
    r = r
    s = s
    None = None
    Agent = {g}
    Atom = {w, x, y, z}
    By <- Authors
    Review = {p, q, r, s}
    Of <- Reviewed
    Decision <- Decisions
    CountAfter = 2
    TrustAfter = 3
    TrustAt = 55
    MaxConfirms = 2
    MaxCrashes = 1
    MaxFaults = 1
INVARIANTS
    StatusFollowsReview
    EarnedUnlessParallel
    ReliabilityWithinReviews
    TrustEarned
CHECK_DEADLOCK FALSE
