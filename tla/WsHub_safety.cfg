SPECIFICATION Spec
CONSTANTS
    u1 = u1
    Clients = {c1, c2, c3}
    Users = {u1, u2}
    Token <- Tokens
    Empty = Empty
    Absent = Absent
    Strangers = {c3}
    NotifyCap = 1
    BroadcastCap = 2
    RegisterCap = 1
    UnregisterCap = 2
    SendCap = 1
    MaxNotes = 2
    Pong = Pong
INVARIANTS
    TypeOK
    MapConsistent
    PanicOnlyAtShutdown
    OrderedDelivery
    SweepNeverBlocks
SYMMETRY ConnectionSymmetry
