\* Two calls that register or change accounts, among three spellings of two mailboxes.
CONSTANTS
    admin = admin  u1 = u1  u2 = u2  c1 = c1  c2 = c2
    UserIds = {admin, u1, u2}
    Emails <- Spelling
    Roles = {"admin", "user"}
    Collate <- LowerCase
    Normalize <- LowerCase
    Call = {c1, c2}
    InitialUsers <- Seeded
    Kinds = {"register", "update"}
    MaxFaults = 0
SPECIFICATION Spec
SYMMETRY RegistrationSymmetries
INVARIANTS
    TypeOK
    OneAccountPerMailbox
PROPERTIES
    AnswersWereTrue
    OnlyNamedColumnsChange
