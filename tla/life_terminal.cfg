SPECIFICATION Spec
CONSTANTS
    a = a
    b = b
    None = None
    Atom = {a, b}
    ReplicatedAt = 1
    CoreAt = 3
    DisagreementThreshold = 50
    MaxReplications <- Three
    MaxRows = 2
    MaxContradictions <- Rows
    DisagreementLevels <- LevelsOfA
    MaxRequests = 1
    MaxCrashes = 0
    MaxFaults = 0
PROPERTIES
    RetractedTerminal
