SPECIFICATION FairSpec
CONSTANTS
    a = a
    b = b
    x = x
    y = y
    p = p
    q = q
    r = r
    s = s
    None = None
    Upload = {p, q, r, s}
    Hash = {x, y}
    Agent = {a, b}
    By <- Agents
    Named <- Names
    Body <- Bodies
    Inline = {q}
    AsTree = {p}
    Manifest = {x}
    Size <- Sizes
    MaxBlob = 2
    PutQuota = 2
    InlineQuota = 1
    MaxCrashes = 1
    MaxFaults = 1
INVARIANTS
    RowHasFile
    RowWhole
    OneCreated
    OverQuotaOnlyInParallel
PROPERTIES
    EventuallyReadable
CHECK_DEADLOCK FALSE
