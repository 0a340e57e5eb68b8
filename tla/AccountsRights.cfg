\* Two calls of any kind and one failed database call.
CONSTANTS
    admin = admin  u1 = u1  u2 = u2  c1 = c1  c2 = c2
    UserIds = {admin, u1}
    Emails <- Plain
    Roles = {"admin", "user"}
    Collate <- AsTyped
    Normalize <- AsTyped
    Call = {c1, c2}
    InitialUsers <- PlainAdmin
    Kinds = {"register", "create", "update", "delete", "get", "list"}
    MaxFaults = 1
SPECIFICATION Spec
SYMMETRY Symmetries
INVARIANTS
    NoCallIsStuck
PROPERTIES
    AnswersWereTrue
    AccountChangesAreAuthorised
    ImplementsUserTable
