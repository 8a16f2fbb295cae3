SPECIFICATION Spec
CONSTANTS
    u1 = u1
    Clients = {c1, c2}
    Users = {u1}
    Token <- Tokens
    Empty = Empty
    Absent = Absent
    Strangers = {}
    NotifyCap = 1
    BroadcastCap = 1
    RegisterCap = 1
    UnregisterCap = 2
    SendCap = 1
    MaxNotes = 2
    Pong = Pong
INVARIANT
    FanOutProtected
SYMMETRY ConnectionSymmetry
