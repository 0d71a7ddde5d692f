SPECIFICATION Spec
CONSTANTS
    s1 = s1
    c1 = c1
    c2 = c2
    a1 = a1
    u1 = u1
    embed = embed
    decay = decay
    Session <- mcSession
    Conn <- mcConn
    Agent <- mcAgent
    Max = 2
    Window = 2
    Ttl = 1
    ChannelSize = 1
    Buffer = 1
    Subscriber <- mcSubscriber
    Worker <- mcWorker
    Embedder = embed
    None = none
    Menus <- mcMenus
    Horizon = 3
    MaxEvents = 1
INVARIANTS
    LimitHolds
PROPERTIES
    GoneForGood
    ShutdownEnds
CHECK_DEADLOCK FALSE
