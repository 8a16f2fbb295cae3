SPECIFICATION FairSpec
CONSTANTS
    Partitions = {p1, p2}
    LogEnd = 1
    Workers = {w1, w2}
    Handlers = {h1}
    BufferSize = 1
    Retries = 2
    MaxFaults = 1
    NoJob = NoJob
INVARIANTS
    TypeOK
    CommittedIsAccounted
    OneDelivery
    PanicNeedsEarlyCancel
    ClosedIsQuiet
PROPERTIES
    CloseTerminates
    EventuallyHandled
    KeepsLedger
