\* An account renamed, promoted, demoted and deleted meanwhile, and another that may take
\* its email.
CONSTANTS
    u1 = u1  u2 = u2  e1 = e1  e2 = e2  r1 = r1  r2 = r2
    UserIds = {u1, u2}
    Emails = {e1, e2}
    Roles = {"user", "admin"}
    Collate <- IdentityCollation
    Backend = "database"
    Req = {r1}
    InitialUsers <- OneUser
    AccessTtl = 1
    RefreshTtl = 2
    Kinds = {"login", "refresh", "access"}
    Edited = {u1, u2}
    MaxNow = 1
    MaxJti = 4
    MaxFaults = 0
    MaxSweeps = 0
SPECIFICATION Spec
INVARIANTS
    GrantedIdentityIsCurrent
PROPERTIES
    MintedClaimsAreCurrent
