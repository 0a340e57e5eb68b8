\* A request that Passport or a limiter answers.
CONSTANTS
    k1 = k1  k2 = k2  r1 = r1
    Clients = {k1}
    Limit <- Limits
    Window = 2
    Req = {r1}
    Calls <- Authenticated
    MaxRequests = 2
    MaxNow = 0
    MaxRestarts = 0
SPECIFICATION Spec
CHECK_DEADLOCK FALSE
INVARIANTS
    ErrorsFollowContract
