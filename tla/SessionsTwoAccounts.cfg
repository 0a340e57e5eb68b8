\* Two accounts that log in, refresh and log out, mixing their tokens, with one
\* failed database call or restart at any point.
CONSTANTS
    u1 = u1  u2 = u2  e1 = e1  e2 = e2  r1 = r1  r2 = r2
    UserIds = {u1, u2}
    Emails = {e1, e2}
    Roles = {"user"}
    Collate <- IdentityCollation
    Backend = "database"
    Req = {r1, r2}
    InitialUsers <- TwoUsers
    AccessTtl = 1
    RefreshTtl = 2
    Kinds = {"login", "refresh", "logout"}
    Edited = {}
    MaxNow = 1
    MaxJti = 4
    MaxFaults = 1
    MaxSweeps = 1
SPECIFICATION Spec
SYMMETRY ReqSymmetry
INVARIANTS
    SessionInv
    RotationChain
PROPERTIES
    OnlyOwnTokensRevoked
