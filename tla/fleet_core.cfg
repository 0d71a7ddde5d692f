\* Two runs of the client and a stop, a reset, an up or a down.
SPECIFICATION FleetSpec
CONSTANTS
    c1 = c1
    c2 = c2
    c3 = c3
    Cmd = {c1, c2, c3}
    MaxNumber = 3
    MaxAgents = 3
    Scripts <- mcScripts
    MaxFailures = 1
INVARIANTS
    OwnNumber
    StopStops
