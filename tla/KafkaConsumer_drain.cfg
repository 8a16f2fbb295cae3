SPECIFICATION Spec
CONSTANTS
    Partitions = {p1, p2}
    LogEnd = 2
    Workers = {w1, w2}
    Handlers = {h1}
    BufferSize = 1
    Retries = 1
    MaxFaults = 1
    NoJob = NoJob
SYMMETRY Symmetry
INVARIANT
    GracefulCloseDrains
