\* Every route, the limiters met by requests of two clients, and a restart.  The run
\* ends when its requests and its clock are spent.
CONSTANTS
    k1 = k1  k2 = k2  r1 = r1
    Clients = {k1, k2}
    Limit <- Limits
    Window = 2
    Req = {r1}
    Calls <- ByClient
    MaxRequests = 4
    MaxNow = 3
    MaxRestarts = 1
SPECIFICATION FairSpec
CHECK_DEADLOCK FALSE
INVARIANTS
    TypeOK
    BurstBound
    RefusalIsEarned
    SessionComesFirst
PROPERTIES
    EveryRequestAnswered
