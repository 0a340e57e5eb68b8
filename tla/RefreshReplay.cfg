\* Two requests exchange the same refresh token.
CONSTANTS
    u1 = u1  u2 = u2  e1 = e1  e2 = e2  r1 = r1  r2 = r2
    UserIds = {u1}
    Emails = {e1}
    Roles = {"user"}
    Collate <- IdentityCollation
    Backend = "database"
    Req = {r1, r2}
    InitialUsers <- OneUser
    AccessTtl = 1
    RefreshTtl = 2
    Kinds = {"login", "refresh"}
    Edited = {}
    MaxNow = 3
    MaxJti = 6
    MaxFaults = 0
    MaxSweeps = 1
SPECIFICATION Spec
SYMMETRY ReqSymmetry
INVARIANTS
    RefreshSingleUse
