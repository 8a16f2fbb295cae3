SPECIFICATION FairSpec
CONSTANTS
    k1 = k1
    g1 = g1
    Senders = {k1, g1}
    Workers = {k1}
    MaxRetries = 2
    PoolSize = 1
    NoConn = NoConn
INVARIANTS
    TypeOK
    OneUserPerConnection
    DrainedBeforeClosed
    PanicOnlyByOrphan
    ReadyBeforeDrain
PROPERTY
    ShutdownEnds
CHECK_DEADLOCK FALSE
