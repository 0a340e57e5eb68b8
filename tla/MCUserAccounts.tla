--------------------------- MODULE MCUserAccounts ---------------------------
(* Instances of UserAccounts for TLC. *)
EXTENDS UserAccounts, TLC

CONSTANTS admin, u1, u2, c1, c2

\* Three spellings of two mailboxes; lower case is what the code stores.
Spelling == {"ADA@x", "ada@x", "bob@x"}
LowerCase == [e \in Spelling |-> IF e = "ADA@x" THEN "ada@x" ELSE e]

\* Two mailboxes, spelled in one way each.
Plain == {"ada@x", "bob@x"}
AsTyped == [e \in Plain |-> e]

\* The seeder stores ADMIN_EMAIL as the environment spells it.
Seeded == {[id |-> admin, email |-> "ADA@x", role |-> "admin"]}

PlainAdmin == {[id |-> admin, email |-> "ada@x", role |-> "admin"]}

Symmetries == Permutations(Call)

\* Where neither u1 nor u2 is among the initial rows.
RegistrationSymmetries == Permutations(Call) \union Permutations({u1, u2})

=============================================================================
