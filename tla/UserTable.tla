------------------------------ MODULE UserTable ------------------------------
(***************************************************************************)
(* The `users` table as its readers may rely on it: rows with a primary    *)
(* key and a unique email, changed one statement at a time.  This is the   *)
(* abstract specification of everything that writes accounts (registration *)
(* and the CRUD endpoints of /users): TokenSessions takes it as its        *)
(* environment, and UserAccounts is checked to implement it.               *)
(*                                                                         *)
(* A row is [id, email, role]; the password hash and the timestamps never  *)
(* influence what this development states.                                 *)
(***************************************************************************)
EXTENDS FiniteSets

CONSTANTS
    UserIds,    \* primary keys: UUIDs, drawn fresh for every row
    Emails,     \* the email strings a row can hold
    Roles,      \* the values of the ENUM column `role`
    Collate     \* Collate[e]: what the database's collation compares of e

ASSUME CollateAssumption == DOMAIN Collate = Emails

VARIABLES
    users,      \* the rows of the table
    usedIds     \* every id ever given to a row, deleted rows included

tableVars == <<users, usedIds>>

UserRow == [id : UserIds, email : Emails, role : Roles]

\* Two strings the unique index on `email` does not tell apart.
SameEmail(e, f) == Collate[e] = Collate[f]

WithId(id) == {u \in users : u.id = id}

\* SELECT ... WHERE email = e, by the column's collation.
WithEmail(e) == {u \in users : SameEmail(u.email, e)}

\* The unique index accepts email e for the row of id.
EmailFree(id, e) == WithEmail(e) \subseteq WithId(id)

TableTypeOK == users \subseteq UserRow /\ usedIds \subseteq UserIds

TableInit(rows) == users = rows /\ usedIds = {u.id : u \in rows}

------------------------------------------------------------------------------

\* INSERT: a fresh key, an email no other row holds.
InsertUser(row) ==
    /\ row.id \notin usedIds
    /\ EmailFree(row.id, row.email)
    /\ users' = users \union {row}
    /\ usedIds' = usedIds \union {row.id}

\* UPDATE ... WHERE id = row.id, accepted by the unique index.
ChangeUser(old, row) ==
    /\ old \in users
    /\ row.id = old.id
    /\ EmailFree(row.id, row.email)
    /\ users' = (users \ {old}) \union {row}
    /\ UNCHANGED usedIds

\* DELETE ... WHERE id = id.
RemoveUser(id) ==
    /\ WithId(id) # {}
    /\ users' = users \ WithId(id)
    /\ UNCHANGED usedIds

TableNext ==
    \/ \E row \in UserRow : InsertUser(row)
    \/ \E old \in users, row \in UserRow : ChangeUser(old, row)
    \/ \E id \in UserIds : RemoveUser(id)

------------------------------------------------------------------------------

\* One row per key.
OneRowPerId == \A u, v \in users : u.id = v.id => u = v

\* One row per email, as the unique index compares emails.
OneRowPerEmail == \A u, v \in users : SameEmail(u.email, v.email) => u = v

=============================================================================
