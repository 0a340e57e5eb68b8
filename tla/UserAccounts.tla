---------------------------- MODULE UserAccounts ----------------------------
(***************************************************************************)
(* Everything that reads or writes the users table over HTTP: registration *)
(* (RegisterUseCase) and the CRUD endpoints of /users (UserController over *)
(* UserRepository).                                                        *)
(*                                                                         *)
(* As in TokenSessions, an action is what one call does from one await to  *)
(* the next, with the answer of the database taken when the statement      *)
(* executes.  Authentication, validation and authorisation of a protected  *)
(* endpoint end in one synchronous stretch of code, so that a call starts  *)
(* with `actor`, the row the JWT strategy read, which may be stale by the  *)
(* time the call writes.  An optional value is a set of at most one value. *)
(***************************************************************************)
EXTENDS UserTable, Integers

CONSTANTS
    Call,           \* slots for concurrent calls
    InitialUsers,   \* the seeded rows, whose emails are stored as given
    Normalize,      \* Normalize[e]: e trimmed and in lower case
    Kinds,          \* bound: the kinds of call that arrive
    MaxFaults       \* bound: failed database calls

ASSUME AccountsAssumption ==
    /\ Normalize \in [Emails -> Emails]
    /\ \A e \in Emails : Normalize[Normalize[e]] = Normalize[e]
    /\ {"admin", "user"} \subseteq Roles
    /\ InitialUsers \subseteq UserRow
    /\ \A u, v \in InitialUsers : u.id = v.id \/ SameEmail(u.email, v.email) => u = v
    \* The column's collation ignores case, and no seeded email has blanks.
    /\ \A u \in InitialUsers : SameEmail(u.email, Normalize[u.email])
    /\ Kinds \subseteq {"register", "create", "update", "delete", "get", "list"}
    /\ MaxFaults \in Nat

VARIABLES
    call,           \* call[c]: the call in slot c
    faults          \* failed database calls so far

vars == <<users, usedIds, call, faults>>

Optional(S) == {{}} \union {{x} : x \in S}

\* updateUserSchema: an email, a role, or both.
UpdateBody ==
    {b \in [email : Optional(Emails), role : Optional(Roles)] : b.email # {} \/ b.role # {}}

Pc == {"idle", "lookup", "hash", "insert", "load", "write", "delete", "read", "done"}
Status == {0, 200, 201, 204, 401, 403, 404, 409, 500}

\* What a call may witness of its target: it is missing, it has the email asked
\* for, it has the role asked for.
Fact == {"absent", "email", "role"}

\* A free slot.  `saw` is a ghost: what the call has witnessed since it arrived.
Idle == [kind |-> "none", pc |-> "idle", actor |-> {}, target |-> {},
         email |-> {}, role |-> {}, row |-> {}, status |-> 0, saw |-> {}]

Pending(c) == call[c].pc \notin {"idle", "done"}

Init ==
    /\ TableInit(InitialUsers)
    /\ call = [c \in Call |-> Idle]
    /\ faults = 0

------------------------------------------------------------------------------
(* How a call moves.  Nothing of an answered call but its status is kept.  *)

Moved(c, pc) == [call EXCEPT ![c].pc = pc]
Answered(c, status) == [call EXCEPT ![c] = [Idle EXCEPT !.pc = "done", !.status = status]]

OnlyReads == UNCHANGED <<users, usedIds, faults>>
Goto(c, pc) == call' = Moved(c, pc) /\ OnlyReads
Answer(c, status) == call' = Answered(c, status) /\ OnlyReads

HeldByOther(rows, email, target) ==
    \E e \in email, u \in rows : SameEmail(u.email, Normalize[e]) /\ u.id \notin target

Holds(f, rows, q) ==
    CASE f = "absent" -> \E id \in q.target : \A u \in rows : u.id # id
      [] f = "email"  -> \E u \in rows, e \in q.email :
                           u.id \in q.target /\ u.email = Normalize[e]
      [] f = "role"   -> \E u \in rows : u.id \in q.target /\ u.role \in q.role

Facts(rows, q) == {f \in Fact : Holds(f, rows, q)}

\* Every pending call witnesses the rows a statement leaves behind.
Witnessing(calls) ==
    [d \in Call |-> IF calls[d].pc \in {"idle", "done"} THEN calls[d]
                    ELSE [calls[d] EXCEPT !.saw = @ \union Facts(users', calls[d])]]

\* The last statement of the call has executed, and its answer arrives or,
\* the connection failing just then, an error does.
Committed(c, status) ==
    \/ call' = Witnessing(Answered(c, status)) /\ UNCHANGED faults
    \/ /\ faults < MaxFaults /\ faults' = faults + 1
       /\ call' = Witnessing(Answered(c, 500))

\* The call of actor a (if any) is authorised and awaits its first statement,
\* or is refused with 403.
Arrive(c, kind, a, target, email, role, authorised, first) ==
    /\ ~Pending(c) /\ kind \in Kinds
    /\ \/ /\ authorised
          /\ LET q == [Idle EXCEPT !.kind = kind, !.pc = first, !.actor = a,
                                   !.target = target, !.email = email, !.role = role]
             IN  call' = [call EXCEPT ![c] = [q EXCEPT !.saw = Facts(users, q)]]
          /\ OnlyReads
       \/ ~authorised /\ Answer(c, 403)

------------------------------------------------------------------------------
(* Authorisation (auth.middleware) and the arrival of each call.           *)

IsAdmin(a) == a.role = "admin"
AdminOrSelf(a, id) == IsAdmin(a) \/ a.id = id

\* Bound: an id is left for every call that may insert a row.
CanInsert ==
    Cardinality({c \in Call : call[c].kind \in {"register", "create"}})
      < Cardinality(UserIds \ usedIds)

\* Defect: the account asks for a role the ENUM column does not have.
RegisterAsMember(c) ==
    /\ CanInsert
    /\ \E e \in Emails : Arrive(c, "register", {}, {}, {e}, {"member"}, TRUE, "lookup")

RegisterArrive(c) ==
    /\ CanInsert
    /\ \E e \in Emails : Arrive(c, "register", {}, {}, {e}, {"user"}, TRUE, "lookup")

\* A protected endpoint called with a token the JWT strategy does not accept.
UnauthenticatedArrive(c) == ~Pending(c) /\ Answer(c, 401)

CreateArrive(c) ==
    /\ CanInsert
    /\ \E a \in users, e \in Emails, role \in Roles :
         Arrive(c, "create", {a}, {}, {e}, {role}, IsAdmin(a), "lookup")

\* Defect: the role asked for is kept.
AnyRole(a, role) == role

\* A role asked for by somebody who is not an admin is dropped.
KeptRole(a, role) == IF IsAdmin(a) THEN role ELSE {}

UpdateArrive(c) ==
    \E a \in users, id \in UserIds, b \in UpdateBody :
      Arrive(c, "update", {a}, {id}, b.email, KeptRole(a, b.role), AdminOrSelf(a, id),
             IF b.email # {} THEN "lookup" ELSE "load")

DeleteArrive(c) ==
    \E a \in users, id \in UserIds :
      Arrive(c, "delete", {a}, {id}, {}, {}, IsAdmin(a), "delete")

GetArrive(c) ==
    \E a \in users, id \in UserIds :
      Arrive(c, "get", {a}, {id}, {}, {}, AdminOrSelf(a, id), "read")

ListArrive(c) ==
    \E a \in users : Arrive(c, "list", {a}, {}, {}, {}, IsAdmin(a), "read")

------------------------------------------------------------------------------
(* The statements.                                                         *)

\* Defect: any row with the email is a conflict, the row to update included.
TakenByAny(c) == \E e \in call[c].email : WithEmail(Normalize[e]) # {}

\* findByEmail(req.body.email): taken by any row, or by another row than the
\* one to update.
Taken(c) == HeldByOther(users, call[c].email, call[c].target)

LookupEmail(c) ==
    /\ call[c].pc = "lookup"
    /\ IF Taken(c) THEN Answer(c, 409)
       ELSE Goto(c, IF call[c].kind = "update" THEN "load" ELSE "hash")

HashPassword(c) == call[c].pc = "hash" /\ Goto(c, "insert")

\* Defect: no unique index behind the INSERT.
CreateRowUnchecked(c) ==
    /\ call[c].pc = "insert"
    /\ \E e \in call[c].email, role \in call[c].role, id \in UserIds \ usedIds :
         /\ users' = users \union {[id |-> id, email |-> Normalize[e], role |-> role]}
         /\ usedIds' = usedIds \union {id}
         /\ Committed(c, 201)

\* Defect: nobody handles the rejection when the unique index refuses the row.
CreateRowUnhandled(c) ==
    /\ call[c].pc = "insert"
    /\ \E e \in call[c].email, role \in call[c].role, id \in UserIds \ usedIds :
         InsertUser([id |-> id, email |-> Normalize[e], role |-> role]) /\ Committed(c, 201)

\* UserRepository.create: a row under a fresh UUID, unless the unique index
\* refuses it, which mapPersistenceError turns into the same 409.
CreateRow(c) ==
    /\ call[c].pc = "insert"
    /\ \E e \in call[c].email, role \in call[c].role, id \in UserIds \ usedIds :
         LET row == [id |-> id, email |-> Normalize[e], role |-> role]
         IN  \/ InsertUser(row) /\ Committed(c, 201)
             \/ ~EmailFree(id, row.email) /\ Answer(c, 409)

\* UserRepository.updateById, first half: findByPk.
LoadRow(c) ==
    /\ call[c].pc = "load"
    /\ \E id \in call[c].target :
         \/ WithId(id) = {} /\ Answer(c, 404)
         \/ \E u \in WithId(id) :
              /\ call' = [call EXCEPT ![c].pc = "write", ![c].row = {u}]
              /\ OnlyReads

\* Defect: the statement writes every column, as the loaded row had it.
UpdatedWhole(c, loaded, u) ==
    [u EXCEPT
       !.email = IF call[c].email = {} THEN loaded.email
                 ELSE Normalize[CHOOSE e \in call[c].email : TRUE],
       !.role  = IF call[c].role = {} THEN loaded.role
                 ELSE CHOOSE r \in call[c].role : TRUE]

\* Defect: a new email makes the statement forget the role.
UpdatedEmailFirst(c, loaded, u) ==
    IF \E e \in call[c].email : Normalize[e] # loaded.email
    THEN [u EXCEPT !.email = Normalize[CHOOSE e \in call[c].email : TRUE]]
    ELSE [u EXCEPT !.role = IF call[c].role = {} THEN @ ELSE CHOOSE r \in call[c].role : TRUE]

\* What the UPDATE statement makes of row u: the columns whose requested value
\* differs from the loaded row, and no other.
Updated(c, loaded, u) ==
    [u EXCEPT
       !.email = IF \E e \in call[c].email : Normalize[e] # loaded.email
                 THEN Normalize[CHOOSE e \in call[c].email : TRUE] ELSE @,
       !.role  = IF \E r \in call[c].role : r # loaded.role
                 THEN CHOOSE r \in call[c].role : TRUE ELSE @]

\* Second half: user.update.  No statement at all when nothing differs, and
\* nobody looks at the number of rows affected: a row deleted meanwhile is
\* answered 200 too.
WriteRow(c) ==
    /\ call[c].pc = "write"
    /\ \E loaded \in call[c].row :
         \/ /\ Updated(c, loaded, loaded) = loaded \/ WithId(loaded.id) = {}
            /\ Answer(c, 200)
         \/ /\ Updated(c, loaded, loaded) # loaded
            /\ \E u \in WithId(loaded.id) :
                 \/ ChangeUser(u, Updated(c, loaded, u)) /\ Committed(c, 200)
                 \/ /\ ~EmailFree(u.id, Updated(c, loaded, u).email)
                    /\ Answer(c, 409)

DeleteRow(c) ==
    /\ call[c].pc = "delete"
    /\ \E id \in call[c].target :
         \/ RemoveUser(id) /\ Committed(c, 204)
         \/ WithId(id) = {} /\ Answer(c, 404)

ReadRows(c) ==
    /\ call[c].pc = "read"
    /\ Answer(c, IF \E id \in call[c].target : WithId(id) = {} THEN 404 ELSE 200)

\* A statement (or bcrypt) throws anything but a UniqueConstraintError.
Fault(c) ==
    /\ faults < MaxFaults /\ Pending(c)
    /\ call' = Answered(c, 500)
    /\ faults' = faults + 1
    /\ UNCHANGED <<users, usedIds>>

Arrival(c) ==
    \/ UnauthenticatedArrive(c)
    \/ RegisterArrive(c) \/ CreateArrive(c) \/ UpdateArrive(c)
    \/ DeleteArrive(c) \/ GetArrive(c) \/ ListArrive(c)

Step(c) ==
    \/ LookupEmail(c) \/ HashPassword(c) \/ CreateRow(c)
    \/ LoadRow(c) \/ WriteRow(c) \/ DeleteRow(c) \/ ReadRows(c)

Next == \E c \in Call : Arrival(c) \/ Step(c) \/ Fault(c)

Spec == Init /\ [][Next]_vars

------------------------------------------------------------------------------
(* Properties.                                                             *)

CallRecord ==
    [kind : {"none", "register", "create", "update", "delete", "get", "list"},
     pc : Pc, actor : Optional(UserRow), target : Optional(UserIds),
     email : Optional(Emails), role : Optional(Roles),
     row : Optional(UserRow), status : Status, saw : SUBSET Fact]

\* Every variable has its type.
TypeOK ==
    /\ TableTypeOK
    /\ call \in [Call -> CallRecord]
    /\ faults \in 0..MaxFaults

\* However many registrations, creations and email changes race, two accounts
\* never have emails that differ only in case or blanks: the lookup that
\* precedes each write proves nothing, the unique index decides.
OneAccountPerMailbox ==
    \A u, v \in users : Normalize[u.email] = Normalize[v.email] => u = v

\* What a call is told was true of the table at some instant of the call,
\* however stale what it read before it wrote: 409 only if another account holds
\* the email, whether the lookup or the index finds out; 404 only if the row was
\* missing; 200 to an update only if the row was missing meanwhile (the UPDATE
\* affected nothing) or had each column asked for; and after 204 the row is gone.
AskedFor(q) ==
    (IF q.email # {} THEN {"email"} ELSE {}) \union (IF q.role # {} THEN {"role"} ELSE {})

AnswersWereTrue ==
    [][\A c \in Call : Pending(c) /\ call'[c].pc = "done" =>
         LET q == call[c]
             after == Facts(users', q)
         IN  CASE call'[c].status = 409 -> HeldByOther(users, q.email, q.target)
               [] call'[c].status = 404 -> "absent" \in q.saw
               [] call'[c].status = 204 -> "absent" \in after
               [] call'[c].status = 200 /\ q.kind = "update" ->
                    "absent" \in q.saw \/ AskedFor(q) \subseteq q.saw \union after
               [] OTHER -> TRUE]_vars

\* Whatever other calls do to the rows a call has read or looked for (taken, deleted,
\* changed), it has a next step that does not depend on a failure: no race leaves a
\* client without an answer.  A call makes at most three steps.
NoCallIsStuck == \A c \in Call : Pending(c) => ENABLED Step(c)

\* Who may change an account, at the moment the row changes: a row appears by
\* a registration, with role user, or by an admin; it is changed by an admin or
\* its owner, and its role by an admin only; an admin removes it.  The
\* actor is as authentication found it; demoted meanwhile, it still acts.
ByAdmin(c) == \E a \in call[c].actor : IsAdmin(a)
ByOwner(c, id) == \E a \in call[c].actor : a.id = id

Authorised(c, id) ==
    \/ /\ call[c].kind = "register" /\ WithId(id) = {}
       /\ \A new \in WithId(id)' : new.role = "user"
    \/ call[c].kind = "create" /\ WithId(id) = {} /\ ByAdmin(c)
    \/ call[c].kind = "delete" /\ WithId(id)' = {} /\ ByAdmin(c)
    \/ /\ call[c].kind = "update" /\ WithId(id) # {} /\ WithId(id)' # {}
       /\ \/ ByAdmin(c)
          \/ /\ ByOwner(c, id)
             /\ \A old \in WithId(id), new \in WithId(id)' : new.role = old.role

AccountChangesAreAuthorised ==
    [][\A id \in UserIds : WithId(id)' # WithId(id) =>
         \E c \in Call : Pending(c) /\ call'[c].pc = "done" /\ Authorised(c, id)]_vars

\* No lost update: two concurrent PATCH requests never undo each other's
\* columns.  A step that changes a column of a row belongs to a request that
\* named that column and that value.
OnlyNamedColumnsChange ==
    [][\A old \in users, new \in users' : old.id = new.id =>
         \E c \in Call :
           /\ new.email # old.email => \E e \in call[c].email : new.email = Normalize[e]
           /\ new.role # old.role => new.role \in call[c].role]_vars

\* What the rest of the system relies on: whatever the endpoints do, the table
\* changes by the steps of UserTable.
ImplementsUserTable == TableInit(InitialUsers) /\ [][TableNext]_tableVars

=============================================================================
