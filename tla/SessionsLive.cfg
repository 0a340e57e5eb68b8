\* What must eventually happen, with overlapping cleanups and one fault.
CONSTANTS
    u1 = u1  u2 = u2  e1 = e1  e2 = e2  r1 = r1  r2 = r2
    UserIds = {u1}
    Emails = {e1}
    Roles = {"user"}
    Collate <- IdentityCollation
    Backend = "database"
    Req = {r1}
    InitialUsers <- OneUser
    AccessTtl = 1
    RefreshTtl = 1
    Kinds = {"login", "refresh", "logout", "access"}
    Edited = {u1}
    MaxNow = 2
    MaxJti = 4
    MaxFaults = 1
    MaxSweeps = 2
SPECIFICATION FairSpec
PROPERTIES
    EveryRequestAnswered
    ExpiredRevocationsPurged
    ImplementsLedger
