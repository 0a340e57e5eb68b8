\* Two connections, any number of requests, two cleanups, both signals.  An exited process
\* does nothing.
CONSTANTS
    c1 = c1  c2 = c2
    Conn = {c1, c2}
    MaxQueries = 4
    MaxSweeps = 2
SPECIFICATION FairSpec
CHECK_DEADLOCK FALSE
INVARIANTS
    TypeOK
    PoolOutlivesRequests
    CleanStop
PROPERTIES
    NoSweepDuringShutdown
    ShutdownEnds
