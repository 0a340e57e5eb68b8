------------------------ MODULE UserAccounts_proofs ------------------------
(***************************************************************************)
(* Theorems about UserAccounts, for every number of calls, accounts, emails *)
(* and failed statements: any two collations and normalisations that agree *)
(* on the seeded rows will do.                                             *)
(***************************************************************************)
EXTENDS UserAccounts, TLAPS

------------------------------------------------------------------------------
(* The inductive invariant behind the safety properties.                   *)

\* What the table's constraints and the code's normalisation keep true of the
\* rows: a key is never given twice, and the index takes a row's email for the
\* normalised one, even where a seeded row is spelled otherwise.
RowsInv ==
    /\ OneRowPerId /\ OneRowPerEmail
    /\ \A u \in users : u.id \in usedIds /\ SameEmail(u.email, Normalize[u.email])

\* The kinds of call that await a statement.
KindsAt(pc) ==
    CASE pc = "lookup" -> {"register", "create", "update"}
      [] pc \in {"hash", "insert"} -> {"register", "create"}
      [] pc \in {"load", "write"} -> {"update"}
      [] pc = "delete" -> {"delete"}
      [] pc = "read" -> {"get", "list"}
      [] OTHER -> {"none"}

\* What the code knows of a call at each await: who may have made it, and that
\* it has witnessed the table as it is, and as it was when its row was loaded.
CallOK(q) ==
    /\ q.kind \in KindsAt(q.pc)
    /\ q.kind \in {"register", "create"} => q.target = {}
    /\ q.kind = "register" => q.role = {"user"}
    /\ q.kind \in {"create", "delete"} => \E a \in q.actor : IsAdmin(a)
    /\ q.kind = "update" =>
         \/ \E a \in q.actor : IsAdmin(a)
         \/ q.role = {} /\ \E a \in q.actor : a.id \in q.target
    /\ q.pc = "write" => \A u \in q.row :
         /\ u.id \in q.target
         /\ (\E e \in q.email : Normalize[e] = u.email) => "email" \in q.saw
         /\ u.role \in q.role => "role" \in q.saw
    /\ q.kind # "none" => Facts(users, q) \subseteq q.saw

\* TypeOK and the rest together are inductive.
AccountsInv == RowsInv /\ \A c \in Call : CallOK(call[c])

------------------------------------------------------------------------------
(* Optional values, and the shape of a call.                               *)

LEMMA AccountsConstants ==
    /\ \A e \in Emails : Normalize[e] \in Emails /\ Normalize[Normalize[e]] = Normalize[e]
    /\ "admin" \in Roles /\ "user" \in Roles
    /\ InitialUsers \subseteq UserRow
    /\ \A u, v \in InitialUsers : u.id = v.id \/ SameEmail(u.email, v.email) => u = v
    /\ \A u \in InitialUsers : SameEmail(u.email, Normalize[u.email])
    /\ MaxFaults \in Nat
BY AccountsAssumption DEF AccountsAssumption

LEMMA OptionalSome == ASSUME NEW S, NEW x \in S PROVE {x} \in Optional(S) /\ {} \in Optional(S)
BY DEF Optional

LEMMA OptionalAtMostOne ==
    ASSUME NEW S, NEW o \in Optional(S)
    PROVE  o \subseteq S /\ \A x, y \in o : x = y
BY DEF Optional

LEMMA IdleIsCall == Idle \in CallRecord
BY DEF Idle, CallRecord, Optional, Pc, Status

\* A call that stands as it is answered.
LEMMA AnsweredType ==
    ASSUME TypeOK, NEW c \in Call, NEW status \in Status
    PROVE  Answered(c, status) \in [Call -> CallRecord]
<1>1. [Idle EXCEPT !.pc = "done", !.status = status] \in CallRecord
  BY DEF Idle, CallRecord, Optional, Pc
<1> QED
  BY <1>1 DEF Answered, TypeOK

LEMMA FactsType == ASSUME NEW rows, NEW q PROVE Facts(rows, q) \subseteq Fact
BY DEF Facts

LEMMA WitnessingType ==
    ASSUME NEW calls \in [Call -> CallRecord]
    PROVE  Witnessing(calls) \in [Call -> CallRecord]
<1>1. \A d \in Call : [calls[d] EXCEPT !.saw = @ \union Facts(users', calls[d])] \in CallRecord
  BY FactsType DEF CallRecord
<1> QED
  BY <1>1 DEF Witnessing

LEMMA CommittedType ==
    ASSUME TypeOK, NEW c \in Call, NEW status \in Status, Committed(c, status)
    PROVE  call' \in [Call -> CallRecord] /\ faults' \in 0..MaxFaults
<1>1. Answered(c, status) \in [Call -> CallRecord] /\ Answered(c, 500) \in [Call -> CallRecord]
  BY AnsweredType DEF Status
<1>2. call' \in [Call -> CallRecord]
  BY <1>1, WitnessingType DEF Committed
<1>3. faults' \in 0..MaxFaults
  BY AccountsConstants DEF Committed, TypeOK
<1> QED
  BY <1>2, <1>3

LEMMA AnswerType ==
    ASSUME TypeOK, NEW c \in Call, NEW status \in Status, Answer(c, status)
    PROVE  TypeOK'
BY AnsweredType DEF Answer, OnlyReads, TypeOK, TableTypeOK

LEMMA GotoType ==
    ASSUME TypeOK, NEW c \in Call, NEW pc \in Pc, Goto(c, pc)
    PROVE  TypeOK'
<1>1. Moved(c, pc) \in [Call -> CallRecord]
  BY DEF Moved, TypeOK, CallRecord
<1> QED
  BY <1>1 DEF Goto, OnlyReads, TypeOK, TableTypeOK

\* What an arrival leaves in its slot.
Entered(kind, pc, a, target, email, role) ==
    LET q == [Idle EXCEPT !.kind = kind, !.pc = pc, !.actor = a,
                          !.target = target, !.email = email, !.role = role]
    IN  [q EXCEPT !.saw = Facts(users, q)]

LEMMA EnteredFields ==
    ASSUME NEW kind, NEW pc, NEW a, NEW target, NEW email, NEW role
    PROVE  LET q == Entered(kind, pc, a, target, email, role)
           IN  /\ q.kind = kind /\ q.pc = pc /\ q.actor = a /\ q.target = target
               /\ q.email = email /\ q.role = role /\ q.row = {} /\ q.status = 0
               /\ q.saw = Facts(users, q)
BY DEF Entered, Idle, Facts, Holds

LEMMA EnteredType ==
    ASSUME NEW kind \in {"register", "create", "update", "delete", "get", "list"},
           NEW pc \in Pc, NEW a \in Optional(UserRow), NEW target \in Optional(UserIds),
           NEW email \in Optional(Emails), NEW role \in Optional(Roles)
    PROVE  Entered(kind, pc, a, target, email, role) \in CallRecord
<1> DEFINE q == [Idle EXCEPT !.kind = kind, !.pc = pc, !.actor = a,
                             !.target = target, !.email = email, !.role = role]
<1>1. Idle \in CallRecord
  BY DEF Idle, CallRecord, Optional, Status, Pc
<1>2. q \in CallRecord
  <2> HIDE DEF Idle
  <2> QED
    BY <1>1 DEF CallRecord
<1>3. Facts(users, q) \in SUBSET Fact
  BY FactsType
<1> HIDE DEF q
<1>4. [q EXCEPT !.saw = Facts(users, q)] \in CallRecord
  BY <1>2, <1>3 DEF CallRecord
<1> QED
  BY <1>4 DEF Entered, q

LEMMA ArriveMoves ==
    ASSUME NEW c \in Call, NEW kind, NEW a, NEW target, NEW email, NEW role,
           NEW authorised, NEW first,
           Arrive(c, kind, a, target, email, role, authorised, first)
    PROVE  \/ /\ authorised /\ OnlyReads
              /\ call' = [call EXCEPT ![c] = Entered(kind, first, a, target, email, role)]
           \/ ~authorised /\ Answer(c, 403)
BY DEF Arrive, Entered

LEMMA ArriveType ==
    ASSUME TypeOK, NEW c \in Call,
           NEW kind \in {"register", "create", "update", "delete", "get", "list"},
           NEW first \in Pc, NEW a \in Optional(UserRow), NEW target \in Optional(UserIds),
           NEW email \in Optional(Emails), NEW role \in Optional(Roles), NEW authorised,
           Arrive(c, kind, a, target, email, role, authorised, first)
    PROVE  TypeOK'
<1>1. CASE Answer(c, 403)
  BY <1>1, AnswerType DEF Status
<1>2. CASE /\ OnlyReads
           /\ call' = [call EXCEPT ![c] = Entered(kind, first, a, target, email, role)]
  BY <1>2, EnteredType DEF TypeOK, TableTypeOK, OnlyReads
<1> QED
  BY <1>1, <1>2, ArriveMoves

LEMMA ArrivalType ==
    ASSUME TypeOK, NEW c \in Call, Arrival(c)
    PROVE  TypeOK'
<1> USE AccountsConstants
<1>0. {} \in Optional(UserRow) /\ {} \in Optional(UserIds) /\ {} \in Optional(Emails)
        /\ {} \in Optional(Roles) /\ \A u \in users : {u} \in Optional(UserRow)
  BY OptionalSome DEF Optional, TypeOK, TableTypeOK
<1>1. CASE UnauthenticatedArrive(c)
  BY <1>1, AnswerType DEF UnauthenticatedArrive, Status
<1>2. CASE RegisterArrive(c)
  <2>1. PICK e \in Emails : Arrive(c, "register", {}, {}, {e}, {"user"}, TRUE, "lookup")
    BY <1>2 DEF RegisterArrive
  <2>2. {e} \in Optional(Emails) /\ {"user"} \in Optional(Roles)
    BY OptionalSome
  <2> QED
    BY <1>0, <2>1, <2>2, ArriveType DEF Pc
<1>3. CASE CreateArrive(c)
  <2>1. PICK a \in users, e \in Emails, role \in Roles :
           Arrive(c, "create", {a}, {}, {e}, {role}, IsAdmin(a), "lookup")
    BY <1>3 DEF CreateArrive
  <2>2. {e} \in Optional(Emails) /\ {role} \in Optional(Roles)
    BY OptionalSome
  <2> QED
    BY <1>0, <2>1, <2>2, ArriveType DEF Pc
<1>4. CASE UpdateArrive(c)
  <2>1. PICK a \in users, id \in UserIds, b \in UpdateBody :
           Arrive(c, "update", {a}, {id}, b.email, KeptRole(a, b.role), AdminOrSelf(a, id),
                  IF b.email # {} THEN "lookup" ELSE "load")
    BY <1>4 DEF UpdateArrive
  <2>2. /\ {id} \in Optional(UserIds) /\ b.email \in Optional(Emails)
        /\ KeptRole(a, b.role) \in Optional(Roles)
    BY OptionalSome, <1>0 DEF UpdateBody, KeptRole
  <2>3. (IF b.email # {} THEN "lookup" ELSE "load") \in Pc
    BY DEF Pc
  <2> QED
    BY <1>0, <2>1, <2>2, <2>3, ArriveType
<1>5. CASE DeleteArrive(c)
  <2>1. PICK a \in users, id \in UserIds :
           Arrive(c, "delete", {a}, {id}, {}, {}, IsAdmin(a), "delete")
    BY <1>5 DEF DeleteArrive
  <2> QED
    BY <1>0, <2>1, OptionalSome, ArriveType DEF Pc
<1>6. CASE GetArrive(c)
  <2>1. PICK a \in users, id \in UserIds :
           Arrive(c, "get", {a}, {id}, {}, {}, AdminOrSelf(a, id), "read")
    BY <1>6 DEF GetArrive
  <2> QED
    BY <1>0, <2>1, OptionalSome, ArriveType DEF Pc
<1>7. CASE ListArrive(c)
  <2>1. PICK a \in users : Arrive(c, "list", {a}, {}, {}, {}, IsAdmin(a), "read")
    BY <1>7 DEF ListArrive
  <2> QED
    BY <1>0, <2>1, ArriveType DEF Pc
<1> QED
  BY <1>1, <1>2, <1>3, <1>4, <1>5, <1>6, <1>7 DEF Arrival

\* The fields of a call, and what an optional one holds.
LEMMA CallFields ==
    ASSUME TypeOK, NEW c \in Call
    PROVE  /\ call[c] \in CallRecord
           /\ call[c].email \subseteq Emails /\ \A e, f \in call[c].email : e = f
           /\ call[c].role \subseteq Roles /\ \A r, s \in call[c].role : r = s
           /\ call[c].target \subseteq UserIds /\ \A i, j \in call[c].target : i = j
           /\ call[c].row \subseteq UserRow /\ call[c].saw \subseteq Fact
           /\ users \subseteq UserRow
BY OptionalAtMostOne DEF TypeOK, TableTypeOK, CallRecord

\* What the UPDATE statement makes of a row: nothing but what was asked for,
\* and all of it that the loaded row did not have.
LEMMA UpdatedFields ==
    ASSUME TypeOK, NEW c \in Call, NEW loaded \in UserRow, NEW u \in UserRow
    PROVE  LET new == Updated(c, loaded, u)
           IN  /\ new \in UserRow /\ new.id = u.id
               /\ new.email # u.email => \E e \in call[c].email : new.email = Normalize[e]
               /\ \A e \in call[c].email : Normalize[e] # loaded.email => new.email = Normalize[e]
               /\ new.role # u.role => new.role \in call[c].role
               /\ \A r \in call[c].role : r # loaded.role => new.role = r
<1> DEFINE E == IF \E e \in call[c].email : Normalize[e] # loaded.email
                THEN Normalize[CHOOSE e \in call[c].email : TRUE] ELSE u.email
           R == IF \E r \in call[c].role : r # loaded.role
                THEN CHOOSE r \in call[c].role : TRUE ELSE u.role
<1>1. /\ E # u.email => \E e \in call[c].email : E = Normalize[e]
      /\ \A e \in call[c].email : Normalize[e] # loaded.email => E = Normalize[e]
      /\ E \in Emails
  BY CallFields, AccountsConstants DEF UserRow
<1>2. /\ R # u.role => R \in call[c].role
      /\ \A r \in call[c].role : r # loaded.role => R = r
      /\ R \in Roles
  BY CallFields DEF UserRow
<1>3. Updated(c, loaded, u) = [u EXCEPT !.email = E, !.role = R]
  BY DEF Updated
<1> HIDE DEF E, R
<1>4. /\ Updated(c, loaded, u) \in UserRow /\ Updated(c, loaded, u).id = u.id
      /\ Updated(c, loaded, u).email = E /\ Updated(c, loaded, u).role = R
  BY <1>1, <1>2, <1>3 DEF UserRow
<1> QED
  BY <1>1, <1>2, <1>4

LEMMA TableStepType ==
    ASSUME TypeOK, NEW c \in Call, NEW status \in Status, Committed(c, status), TableNext
    PROVE  TypeOK'
<1>1. TableTypeOK'
  BY DEF TypeOK, TableTypeOK, TableNext, InsertUser, ChangeUser, RemoveUser, UserRow
<1> QED
  BY <1>1, CommittedType DEF TypeOK

------------------------------------------------------------------------------
(* The steps of a call: three write the table, the others only read it.    *)

Inserts(c) ==
    /\ call[c].pc = "insert"
    /\ \E e \in call[c].email, role \in call[c].role, id \in UserIds \ usedIds :
         InsertUser([id |-> id, email |-> Normalize[e], role |-> role]) /\ Committed(c, 201)

Changes(c) ==
    /\ call[c].pc = "write"
    /\ \E loaded \in call[c].row : \E u \in WithId(loaded.id) :
         ChangeUser(u, Updated(c, loaded, u)) /\ Committed(c, 200)

Removes(c) ==
    /\ call[c].pc = "delete"
    /\ \E id \in call[c].target : RemoveUser(id) /\ Committed(c, 204)

Loads(c, u) ==
    /\ call[c].pc = "load" /\ u.id \in call[c].target /\ u \in users
    /\ call' = [call EXCEPT ![c].pc = "write", ![c].row = {u}]
    /\ OnlyReads

Writes(c) == Inserts(c) \/ Changes(c) \/ Removes(c)

LEMMA StepMoves ==
    ASSUME TypeOK, NEW c \in Call, Step(c)
    PROVE  \/ Writes(c)
           \/ \E u \in users : Loads(c, u)
           \/ call[c].pc = "lookup" /\ call[c].kind = "update" /\ Goto(c, "load")
           \/ call[c].pc = "lookup" /\ call[c].kind # "update" /\ Goto(c, "hash")
           \/ call[c].pc = "hash" /\ Goto(c, "insert")
           \/ Pending(c) /\ \E status \in Status : Answer(c, status)
<1>0. /\ {200, 404, 409} \subseteq Status
      /\ call[c].pc \in {"lookup", "hash", "insert", "load", "write", "delete", "read"}
           => Pending(c)
  BY DEF Status, Pending
<1>1. CASE LookupEmail(c)
  BY <1>0, <1>1 DEF LookupEmail
<1>2. CASE HashPassword(c)
  BY <1>2 DEF HashPassword
<1>3. CASE CreateRow(c)
  BY <1>0, <1>3 DEF CreateRow, Writes, Inserts
<1>4. CASE LoadRow(c)
  BY <1>0, <1>4 DEF LoadRow, Loads, WithId
<1>5. CASE WriteRow(c)
  BY <1>0, <1>5 DEF WriteRow, Writes, Changes
<1>6. CASE DeleteRow(c)
  BY <1>0, <1>6 DEF DeleteRow, Writes, Removes
<1>7. CASE ReadRows(c)
  BY <1>0, <1>7 DEF ReadRows
<1> QED
  BY <1>1, <1>2, <1>3, <1>4, <1>5, <1>6, <1>7 DEF Step

LEMMA WritesTable ==
    ASSUME TypeOK, NEW c \in Call, Writes(c)
    PROVE  /\ TableNext /\ Pending(c)
           /\ \E status \in {200, 201, 204} : Committed(c, status)
<1>1. CASE Inserts(c)
  <2>1. PICK e \in call[c].email, role \in call[c].role, id \in UserIds \ usedIds :
           InsertUser([id |-> id, email |-> Normalize[e], role |-> role]) /\ Committed(c, 201)
    BY <1>1 DEF Inserts
  <2>2. [id |-> id, email |-> Normalize[e], role |-> role] \in UserRow
    BY CallFields, AccountsConstants DEF UserRow
  <2> QED
    BY <1>1, <2>1, <2>2 DEF Inserts, TableNext, Pending
<1>2. CASE Changes(c)
  <2>1. PICK loaded \in call[c].row, u \in users :
           u.id = loaded.id /\ ChangeUser(u, Updated(c, loaded, u)) /\ Committed(c, 200)
    BY <1>2 DEF Changes, WithId
  <2>2. loaded \in UserRow /\ u \in UserRow
    BY CallFields
  <2>3. Updated(c, loaded, u) \in UserRow
    BY <2>2, UpdatedFields
  <2> QED
    BY <1>2, <2>1, <2>2, <2>3 DEF Changes, TableNext, Pending
<1>3. CASE Removes(c)
  BY <1>3, CallFields DEF Removes, TableNext, Pending
<1> QED
  BY <1>1, <1>2, <1>3 DEF Writes

LEMMA StepType ==
    ASSUME TypeOK, NEW c \in Call, Step(c)
    PROVE  TypeOK'
<1>1. CASE Writes(c)
  BY <1>1, WritesTable, TableStepType DEF Status
<1>2. CASE \E u \in users : Loads(c, u)
  <2>1. PICK u \in users : Loads(c, u)
    BY <1>2
  <2>2. {u} \in Optional(UserRow) /\ "write" \in Pc
    BY OptionalSome, CallFields DEF Pc
  <2>3. call' \in [Call -> CallRecord]
    <3>0. call[c] \in CallRecord
      BY DEF TypeOK
    <3>1. [call[c] EXCEPT !.pc = "write", !.row = {u}] \in CallRecord
      BY <2>2, <3>0 DEF CallRecord
    <3>2. call' = [call EXCEPT ![c] = [call[c] EXCEPT !.pc = "write", !.row = {u}]]
      BY <2>1 DEF Loads
    <3> QED
      BY <3>1, <3>2 DEF TypeOK
  <2> QED
    BY <2>1, <2>3 DEF Loads, OnlyReads, TypeOK, TableTypeOK
<1>3. CASE Goto(c, "load") \/ Goto(c, "hash") \/ Goto(c, "insert")
  BY <1>3, GotoType DEF Pc
<1>4. CASE \E status \in Status : Answer(c, status)
  BY <1>4, AnswerType
<1> QED
  BY <1>1, <1>2, <1>3, <1>4, StepMoves

LEMMA TypeStep ==
    ASSUME TypeOK, [Next]_vars
    PROVE  TypeOK'
<1>1. ASSUME NEW c \in Call, Fault(c)
      PROVE  TypeOK'
  <2>1. faults' \in 0..MaxFaults
    BY <1>1, AccountsConstants DEF Fault, TypeOK
  <2>2. call' \in [Call -> CallRecord]
    BY <1>1, AnsweredType DEF Fault, Status
  <2> QED
    BY <1>1, <2>1, <2>2 DEF Fault, TypeOK, TableTypeOK
<1>2. CASE UNCHANGED vars
  BY <1>2 DEF vars, TypeOK, TableTypeOK
<1> QED
  BY <1>1, <1>2, ArrivalType, StepType DEF Next

LEMMA InitType ==
    ASSUME Init
    PROVE  TypeOK
<1>1. TableTypeOK
  BY AccountsConstants DEF Init, TableInit, TableTypeOK, UserRow
<1> QED
  BY <1>1, AccountsConstants, IdleIsCall DEF Init, TypeOK

\* Every variable has its type, whatever calls and failures there are.
THEOREM AccountsTypeCorrect == Spec => []TypeOK
<1>1. Init => TypeOK
  BY InitType
<1>2. TypeOK /\ [Next]_vars => TypeOK'
  BY TypeStep
<1> QED
  BY <1>1, <1>2, PTL DEF Spec

------------------------------------------------------------------------------
(* The rows: what the unique index and the normalisation keep true.        *)

LEMMA NormalizedFields ==
    ASSUME TypeOK, NEW c \in Call, NEW e \in call[c].email
    PROVE  SameEmail(Normalize[e], Normalize[Normalize[e]])
BY CallFields, AccountsConstants DEF SameEmail

\* A step that writes keeps one row per key and per email.
LEMMA RowsWritten ==
    ASSUME TypeOK, RowsInv, NEW c \in Call, Writes(c)
    PROVE  RowsInv'
<1>1. CASE Inserts(c)
  <2>1. PICK e \in call[c].email, role \in call[c].role, id \in UserIds \ usedIds :
           InsertUser([id |-> id, email |-> Normalize[e], role |-> role])
    BY <1>1 DEF Inserts
  <2> DEFINE row == [id |-> id, email |-> Normalize[e], role |-> role]
  <2>2. row.id = id /\ row.email = Normalize[e] /\ InsertUser(row)
    BY <2>1
  <2>3. SameEmail(row.email, Normalize[row.email])
    BY <2>2, NormalizedFields
  <2> HIDE DEF row
  <2>4. \A u \in users : u.id # row.id /\ ~SameEmail(u.email, row.email)
    BY <2>2 DEF InsertUser, EmailFree, WithEmail, WithId, RowsInv
  <2>5. users' = users \union {row} /\ usedIds' = usedIds \union {row.id}
    BY <2>2 DEF InsertUser
  <2> QED
    BY <2>3, <2>4, <2>5 DEF RowsInv, OneRowPerId, OneRowPerEmail, SameEmail
<1>2. CASE Changes(c)
  <2>1. PICK loaded \in call[c].row, u \in users :
           u.id = loaded.id /\ ChangeUser(u, Updated(c, loaded, u))
    BY <1>2 DEF Changes, WithId
  <2> DEFINE row == Updated(c, loaded, u)
  <2>2. u \in UserRow /\ loaded \in UserRow
    BY CallFields
  <2>3. row.id = u.id /\ (row.email = u.email \/ \E e \in call[c].email : row.email = Normalize[e])
    BY <2>2, UpdatedFields
  <2>4. ChangeUser(u, row)
    BY <2>1
  <2> HIDE DEF row
  <2>5. SameEmail(row.email, Normalize[row.email])
    BY <2>3, NormalizedFields DEF RowsInv
  <2>6. \A v \in users \ {u} : v.id # row.id /\ ~SameEmail(v.email, row.email)
    BY <2>3, <2>4 DEF ChangeUser, EmailFree, WithEmail, WithId, RowsInv, OneRowPerId
  <2>7. users' = (users \ {u}) \union {row} /\ usedIds' = usedIds
    BY <2>4 DEF ChangeUser
  <2> QED
    BY <2>3, <2>5, <2>6, <2>7 DEF RowsInv, OneRowPerId, OneRowPerEmail, SameEmail
<1>3. CASE Removes(c)
  <2>1. users' \subseteq users /\ usedIds' = usedIds
    BY <1>3 DEF Removes, RemoveUser
  <2> QED
    BY <2>1 DEF RowsInv, OneRowPerId, OneRowPerEmail, SameEmail
<1> QED
  BY <1>1, <1>2, <1>3 DEF Writes

\* The only steps that touch the table.
LEMMA ReadersLeaveTable ==
    ASSUME TypeOK, [Next]_vars, \A c \in Call : ~Writes(c)
    PROVE  UNCHANGED tableVars
<1>1. ASSUME NEW c \in Call, Step(c)
      PROVE  UNCHANGED tableVars
  BY <1>1, StepMoves DEF Loads, Goto, Answer, OnlyReads, tableVars
<1>2. ASSUME NEW c \in Call, Arrival(c)
      PROVE  UNCHANGED tableVars
  BY <1>2, ZenonT(60) DEF Arrival, UnauthenticatedArrive, RegisterArrive, CreateArrive, UpdateArrive,
              DeleteArrive, GetArrive, ListArrive, Arrive, Answer, OnlyReads, tableVars
<1> QED
  BY <1>1, <1>2 DEF Next, Fault, vars, tableVars

LEMMA RowsStep ==
    ASSUME TypeOK, RowsInv, [Next]_vars
    PROVE  RowsInv'
<1>1. CASE \A c \in Call : ~Writes(c)
  BY <1>1, ReadersLeaveTable DEF tableVars, RowsInv, OneRowPerId, OneRowPerEmail, SameEmail
<1> QED
  BY <1>1, RowsWritten

LEMMA RowsInit ==
    ASSUME Init
    PROVE  RowsInv
BY AccountsConstants DEF Init, TableInit, RowsInv, OneRowPerId, OneRowPerEmail

\* However many registrations, creations and email changes race, no mailbox has
\* two accounts: the unique index and the normalisation suffice, no lookup does.
THEOREM MailboxHasOneAccount == Spec => []OneAccountPerMailbox
<1> DEFINE IInv == TypeOK /\ RowsInv
<1>1. Init => IInv
  BY InitType, RowsInit
<1>2. IInv /\ [Next]_vars => IInv'
  BY TypeStep, RowsStep
<1>3. IInv => OneAccountPerMailbox
  BY DEF RowsInv, OneRowPerEmail, SameEmail, OneAccountPerMailbox
<1> QED
  BY <1>1, <1>2, <1>3, PTL DEF Spec

\* The table that every other part reads changes one accepted statement at a
\* time, under every interleaving of the endpoints that write it.
THEOREM RefinesUserTable == Spec => ImplementsUserTable
<1>1. Init => TableInit(InitialUsers)
  BY DEF Init
<1>2. TypeOK /\ [Next]_vars => [TableNext]_tableVars
  BY ReadersLeaveTable, WritesTable
<1> QED
  BY <1>1, <1>2, AccountsTypeCorrect, PTL DEF Spec, ImplementsUserTable

------------------------------------------------------------------------------
(* The calls: what each knows at each await, and what it has witnessed.    *)

CallsOK == \A c \in Call : CallOK(call[c])

\* Call d is where it was, and has witnessed the rows as they are now.
Watches(d) ==
    /\ call'[d].kind = call[d].kind /\ call'[d].pc = call[d].pc
    /\ call'[d].actor = call[d].actor /\ call'[d].target = call[d].target
    /\ call'[d].email = call[d].email /\ call'[d].role = call[d].role
    /\ call'[d].row = call[d].row
    /\ call[d].saw \subseteq call'[d].saw
    /\ call[d].kind # "none" => Facts(users', call[d]) \subseteq call'[d].saw

\* Facts depend on what the call asked for only.
LEMMA SameFacts ==
    ASSUME NEW rows, NEW p, NEW q, p.target = q.target, p.email = q.email, p.role = q.role
    PROVE  Facts(rows, p) = Facts(rows, q)
BY DEF Facts, Holds

LEMMA WatchingOK ==
    ASSUME NEW d \in Call, CallOK(call[d]), Watches(d)
    PROVE  CallOK(call[d])'
<1>1. Facts(users', call'[d]) = Facts(users', call[d])
  BY SameFacts DEF Watches
<1> QED
  BY <1>1 DEF Watches, CallOK

LEMMA AnsweredFields ==
    ASSUME TypeOK, NEW c \in Call, NEW status
    PROVE  /\ Answered(c, status)[c].kind = "none" /\ Answered(c, status)[c].pc = "done"
           /\ Answered(c, status)[c].status = status
           /\ Answered(c, status)[c].target = {}
           /\ \A d \in Call \ {c} : Answered(c, status)[d] = call[d]
BY DEF Answered, Idle, TypeOK

LEMMA AnsweredOK ==
    ASSUME NEW c \in Call, call'[c].kind = "none", call'[c].pc = "done"
    PROVE  CallOK(call[c])'
BY DEF CallOK, KindsAt

\* No call awaits anything where it is idle or answered.
LEMMA PendingKind ==
    ASSUME TypeOK, NEW c \in Call, CallOK(call[c])
    PROVE  Pending(c) <=> call[c].kind # "none"
<1>1. call[c].pc \in Pc
  BY DEF TypeOK, CallRecord
<1> QED
  BY <1>1 DEF CallOK, KindsAt, Pending, Pc

\* Calls that did not move, when the rows did not change.
LEMMA UnmovedWatches ==
    ASSUME TypeOK, NEW d \in Call, CallOK(call[d]), call'[d] = call[d], users' = users
    PROVE  Watches(d)
BY DEF Watches, CallOK

LEMMA WitnessingWatches ==
    ASSUME NEW calls, NEW d \in Call, calls[d] = call[d], call[d] \in CallRecord,
           CallOK(call[d]), call' = Witnessing(calls)
    PROVE  Watches(d)
<1>1. call[d].pc \in {"idle", "done"} => call[d].kind = "none"
  BY DEF CallOK, KindsAt
<1>2. call'[d] = IF call[d].pc \in {"idle", "done"} THEN call[d]
                 ELSE [call[d] EXCEPT !.saw = @ \union Facts(users', call[d])]
  BY DEF Witnessing
<1>3. CASE call[d].pc \in {"idle", "done"}
  BY <1>1, <1>2, <1>3 DEF Watches
<1>4. CASE call[d].pc \notin {"idle", "done"}
  BY <1>2, <1>4 DEF Watches, CallRecord
<1> QED
  BY <1>3, <1>4

\* The call that wrote is answered, the others have witnessed what it wrote.
LEMMA CommittedMoves ==
    ASSUME TypeOK, CallsOK, NEW c \in Call, NEW status, Committed(c, status)
    PROVE  /\ call'[c].kind = "none" /\ call'[c].pc = "done"
           /\ call'[c].status \in {status, 500}
           /\ \A d \in Call \ {c} : Watches(d)
<1>1. PICK s \in {status, 500} : call' = Witnessing(Answered(c, s))
  BY DEF Committed
<1>2. call'[c] = Answered(c, s)[c]
  BY <1>1, AnsweredFields DEF Witnessing
<1>3. ASSUME NEW d \in Call \ {c}
      PROVE  Watches(d)
  BY <1>1, AnsweredFields, WitnessingWatches DEF CallsOK, TypeOK
<1> QED
  BY <1>2, <1>3, AnsweredFields

LEMMA AnswerOK ==
    ASSUME TypeOK, CallsOK, NEW c \in Call, NEW status, Answer(c, status)
    PROVE  CallsOK'
<1>1. call' = Answered(c, status) /\ users' = users
  BY DEF Answer, OnlyReads
<1>2. CallOK(call[c])'
  BY <1>1, AnsweredFields, AnsweredOK
<1>3. \A d \in Call \ {c} : CallOK(call[d])'
  BY <1>1, AnsweredFields, UnmovedWatches, WatchingOK DEF CallsOK
<1> QED
  BY <1>2, <1>3 DEF CallsOK

\* A step of call c alone, that leaves the table as it was.
LEMMA MovesAlone ==
    ASSUME TypeOK, CallsOK, NEW c \in Call, NEW q,
           call' = [call EXCEPT ![c] = q], OnlyReads,
           CallOK(q)
    PROVE  CallsOK'
<1>1. call'[c] = q /\ users' = users
  BY DEF TypeOK, OnlyReads
<1>2. CallOK(call[c])'
  BY <1>1 DEF CallOK
<1>3. \A d \in Call \ {c} : CallOK(call[d])'
  BY <1>1, UnmovedWatches, WatchingOK DEF CallsOK, TypeOK
<1> QED
  BY <1>2, <1>3 DEF CallsOK

LEMMA GotoOK ==
    ASSUME TypeOK, CallsOK, NEW c \in Call, NEW pc, Goto(c, pc), pc # "write",
           call[c].kind \in KindsAt(pc)
    PROVE  CallsOK'
<1> DEFINE q == [call[c] EXCEPT !.pc = pc]
<1>1. call' = [call EXCEPT ![c] = q] /\ OnlyReads
  BY DEF Goto, Moved
<1>2. call[c] \in CallRecord
  BY DEF TypeOK
<1>3. /\ q.pc = pc /\ q.kind = call[c].kind /\ q.actor = call[c].actor
      /\ q.target = call[c].target /\ q.email = call[c].email /\ q.role = call[c].role
      /\ q.row = call[c].row /\ q.saw = call[c].saw
  BY <1>2 DEF CallRecord
<1> HIDE DEF q
<1>4. Facts(users, q) = Facts(users, call[c])
  BY <1>3, SameFacts
<1>5. CallOK(q)
  BY <1>3, <1>4 DEF CallsOK, CallOK
<1> QED
  BY <1>1, <1>5, MovesAlone

\* The row loaded is the call's target, and what it already has of what the
\* call asks for has been witnessed.
LEMMA LoadsOK ==
    ASSUME TypeOK, CallsOK, NEW c \in Call, NEW u \in users, Loads(c, u)
    PROVE  CallsOK'
<1> DEFINE q == [[call[c] EXCEPT !.pc = "write"] EXCEPT !.row = {u}]
<1>1. call' = [call EXCEPT ![c] = q] /\ OnlyReads
  BY DEF Loads
<1>2. call[c] \in CallRecord
  BY DEF TypeOK
<1>3. /\ q.pc = "write" /\ q.kind = call[c].kind /\ q.actor = call[c].actor
      /\ q.target = call[c].target /\ q.email = call[c].email /\ q.role = call[c].role
      /\ q.row = {u} /\ q.saw = call[c].saw
  BY <1>2 DEF CallRecord
<1> HIDE DEF q
<1>4. Facts(users, q) = Facts(users, call[c])
  BY <1>3, SameFacts
<1>5. call[c].kind = "update" /\ u.id \in call[c].target
        /\ Facts(users, call[c]) \subseteq call[c].saw
  BY DEF Loads, CallsOK, CallOK, KindsAt
<1>6. (\E e \in call[c].email : Normalize[e] = u.email) => "email" \in Facts(users, call[c])
  BY <1>5 DEF Facts, Holds, Fact
<1>7. u.role \in call[c].role => "role" \in Facts(users, call[c])
  BY <1>5 DEF Facts, Holds, Fact
<1>8. CallOK(q)
  BY <1>3, <1>4, <1>5, <1>6, <1>7 DEF CallsOK, CallOK, KindsAt
<1> QED
  BY <1>1, <1>8, MovesAlone

LEMMA EntersOK ==
    ASSUME TypeOK, CallsOK, NEW c \in Call, NEW kind, NEW a, NEW target, NEW email, NEW role,
           NEW authorised, NEW first,
           Arrive(c, kind, a, target, email, role, authorised, first),
           kind \in KindsAt(first), first # "write", kind # "none",
           kind \in {"register", "create"} => target = {},
           kind = "register" => role = {"user"},
           authorised /\ kind \in {"create", "delete"} => \E x \in a : IsAdmin(x),
           authorised /\ kind = "update" => \/ \E x \in a : IsAdmin(x)
                                            \/ role = {} /\ \E x \in a : x.id \in target
    PROVE  CallsOK'
<1>1. CASE ~authorised /\ Answer(c, 403)
  BY <1>1, AnswerOK
<1>2. CASE /\ authorised /\ OnlyReads
           /\ call' = [call EXCEPT ![c] = Entered(kind, first, a, target, email, role)]
  <2> DEFINE q == Entered(kind, first, a, target, email, role)
  <2>1. /\ q.kind = kind /\ q.pc = first /\ q.actor = a /\ q.target = target
        /\ q.email = email /\ q.role = role /\ q.saw = Facts(users, q)
    BY EnteredFields
  <2> HIDE DEF q
  <2>2. CallOK(q)
    BY <1>2, <2>1 DEF CallOK
  <2>3. call' = [call EXCEPT ![c] = q] /\ OnlyReads
    BY <1>2 DEF q
  <2> QED
    BY <2>2, <2>3, MovesAlone
<1> QED
  BY <1>1, <1>2, ArriveMoves

LEMMA ArrivalOK ==
    ASSUME TypeOK, CallsOK, NEW c \in Call, Arrival(c)
    PROVE  CallsOK'
<1>1. CASE UnauthenticatedArrive(c)
  BY <1>1, AnswerOK DEF UnauthenticatedArrive
<1>2. CASE RegisterArrive(c)
  <2>1. PICK e \in Emails : Arrive(c, "register", {}, {}, {e}, {"user"}, TRUE, "lookup")
    BY <1>2 DEF RegisterArrive
  <2>2. "register" \in KindsAt("lookup")
    BY DEF KindsAt
  <2> QED
    BY <2>1, <2>2, EntersOK
<1>3. CASE CreateArrive(c)
  <2>1. PICK a \in users, e \in Emails, role \in Roles :
           Arrive(c, "create", {a}, {}, {e}, {role}, IsAdmin(a), "lookup")
    BY <1>3 DEF CreateArrive
  <2>2. "create" \in KindsAt("lookup")
    BY DEF KindsAt
  <2> QED
    BY <2>1, <2>2, EntersOK
<1>4. CASE UpdateArrive(c)
  <2>1. PICK a \in users, id \in UserIds, b \in UpdateBody :
           Arrive(c, "update", {a}, {id}, b.email, KeptRole(a, b.role), AdminOrSelf(a, id),
                  IF b.email # {} THEN "lookup" ELSE "load")
    BY <1>4 DEF UpdateArrive
  <2> DEFINE first == IF b.email # {} THEN "lookup" ELSE "load"
  <2>2. "update" \in KindsAt(first) /\ first # "write"
    BY DEF KindsAt
  <2>3. AdminOrSelf(a, id) =>
            \/ IsAdmin(a)
            \/ KeptRole(a, b.role) = {} /\ a.id \in {id}
    <3>1. ~IsAdmin(a) => KeptRole(a, b.role) = {}
      BY DEF KeptRole
    <3>2. AdminOrSelf(a, id) => IsAdmin(a) \/ a.id = id
      BY DEF AdminOrSelf
    <3> QED
      BY <3>1, <3>2
  <2> HIDE DEF first
  <2>4. Arrive(c, "update", {a}, {id}, b.email, KeptRole(a, b.role), AdminOrSelf(a, id), first)
    BY <2>1 DEF first
  <2> QED
    BY <2>2, <2>3, <2>4, EntersOK
<1>5. CASE DeleteArrive(c)
  <2>1. PICK a \in users, id \in UserIds :
           Arrive(c, "delete", {a}, {id}, {}, {}, IsAdmin(a), "delete")
    BY <1>5 DEF DeleteArrive
  <2>2. "delete" \in KindsAt("delete")
    BY DEF KindsAt
  <2> QED
    BY <2>1, <2>2, EntersOK
<1>6. "get" \in KindsAt("read") /\ "list" \in KindsAt("read")
  BY DEF KindsAt
<1>7. CASE GetArrive(c)
  <2>1. PICK a \in users, id \in UserIds :
           Arrive(c, "get", {a}, {id}, {}, {}, AdminOrSelf(a, id), "read")
    BY <1>7 DEF GetArrive
  <2> QED
    BY <1>6, <2>1, EntersOK
<1>8. CASE ListArrive(c)
  <2>1. PICK a \in users : Arrive(c, "list", {a}, {}, {}, {}, IsAdmin(a), "read")
    BY <1>8 DEF ListArrive
  <2> QED
    BY <1>6, <2>1, EntersOK
<1> QED
  BY <1>1, <1>2, <1>3, <1>4, <1>5, <1>7, <1>8 DEF Arrival

LEMMA WritesOK ==
    ASSUME TypeOK, CallsOK, NEW c \in Call, Writes(c)
    PROVE  CallsOK'
<1>1. PICK status : Committed(c, status)
  BY WritesTable
<1>2. CallOK(call[c])'
  BY <1>1, CommittedMoves, AnsweredOK
<1>3. \A d \in Call \ {c} : CallOK(call[d])'
  BY <1>1, CommittedMoves, WatchingOK DEF CallsOK
<1> QED
  BY <1>2, <1>3 DEF CallsOK

LEMMA StepOK ==
    ASSUME TypeOK, CallsOK, NEW c \in Call, Step(c)
    PROVE  CallsOK'
<1>1. CASE Writes(c)
  BY <1>1, WritesOK
<1>2. CASE \E u \in users : Loads(c, u)
  BY <1>2, LoadsOK
<1>3. CASE call[c].pc = "lookup" /\ call[c].kind = "update" /\ Goto(c, "load")
  <2>1. call[c].kind \in KindsAt("load")
    BY <1>3 DEF KindsAt
  <2> QED
    BY <1>3, <2>1, GotoOK
<1>4. CASE call[c].pc = "lookup" /\ call[c].kind # "update" /\ Goto(c, "hash")
  <2>1. call[c].kind \in KindsAt("hash")
    BY <1>4 DEF CallsOK, CallOK, KindsAt
  <2> QED
    BY <1>4, <2>1, GotoOK
<1>5. CASE call[c].pc = "hash" /\ Goto(c, "insert")
  <2>1. call[c].kind \in KindsAt("insert")
    BY <1>5 DEF CallsOK, CallOK, KindsAt
  <2> QED
    BY <1>5, <2>1, GotoOK
<1>6. CASE \E status \in Status : Answer(c, status)
  BY <1>6, AnswerOK
<1> QED
  BY <1>1, <1>2, <1>3, <1>4, <1>5, <1>6, StepMoves

LEMMA FaultOK ==
    ASSUME TypeOK, CallsOK, NEW c \in Call, Fault(c)
    PROVE  CallsOK'
<1>1. call' = Answered(c, 500) /\ users' = users
  BY DEF Fault
<1>2. CallOK(call[c])'
  BY <1>1, AnsweredFields, AnsweredOK
<1>3. \A d \in Call \ {c} : CallOK(call[d])'
  BY <1>1, AnsweredFields, UnmovedWatches, WatchingOK DEF CallsOK
<1> QED
  BY <1>2, <1>3 DEF CallsOK

LEMMA CallsStep ==
    ASSUME TypeOK, CallsOK, [Next]_vars
    PROVE  CallsOK'
<1>1. CASE UNCHANGED vars
  BY <1>1, UnmovedWatches, WatchingOK DEF vars, CallsOK
<1> QED
  BY <1>1, ArrivalOK, StepOK, FaultOK DEF Next

LEMMA CallsInit ==
    ASSUME Init
    PROVE  CallsOK
<1>1. \A c \in Call : call[c] = Idle
  BY DEF Init
<1>2. CallOK(Idle)
  BY DEF CallOK, Idle, KindsAt
<1> QED
  BY <1>1, <1>2 DEF CallsOK

\* The invariant of the accounts: TypeOK and AccountsInv together are inductive.
THEOREM AccountsInvariant == Spec => [](TypeOK /\ AccountsInv)
<1> DEFINE IInv == TypeOK /\ RowsInv /\ CallsOK
<1>1. Init => IInv
  BY InitType, RowsInit, CallsInit
<1>2. IInv /\ [Next]_vars => IInv'
  BY TypeStep, RowsStep, CallsStep
<1>3. IInv => TypeOK /\ AccountsInv
  BY DEF CallsOK, AccountsInv
<1> QED
  BY <1>1, <1>2, <1>3, PTL DEF Spec

------------------------------------------------------------------------------
(* Who changes what.                                                       *)

\* One step of AccountChangesAreAuthorised.
ChangesAuthorised ==
    \A id \in UserIds : WithId(id)' # WithId(id) =>
      \E c \in Call : Pending(c) /\ call'[c].pc = "done" /\ Authorised(c, id)

LEMMA WriteAuthorised ==
    ASSUME TypeOK, RowsInv, CallsOK, NEW c \in Call, Writes(c),
           NEW id \in UserIds, WithId(id)' # WithId(id)
    PROVE  Authorised(c, id)
<1>0. CallOK(call[c])
  BY DEF CallsOK
<1>1. CASE Inserts(c)
  <2>1. PICK e \in call[c].email, role \in call[c].role, i \in UserIds \ usedIds :
           InsertUser([id |-> i, email |-> Normalize[e], role |-> role])
    BY <1>1 DEF Inserts
  <2> DEFINE row == [id |-> i, email |-> Normalize[e], role |-> role]
  <2>2. row.id = i /\ row.role = role /\ users' = users \union {row}
    BY <2>1 DEF InsertUser
  <2> HIDE DEF row
  <2>3. id = i
    BY <2>2 DEF WithId
  <2>4. WithId(id) = {}
    BY <2>3 DEF WithId, RowsInv
  <2>5. \A new \in WithId(id)' : new.role \in call[c].role
    BY <2>2, <2>3, <2>4 DEF WithId
  <2>6. call[c].kind \in {"register", "create"}
    BY <1>0, <1>1 DEF Inserts, CallOK, KindsAt
  <2> QED
    BY <1>0, <2>4, <2>5, <2>6 DEF CallOK, Authorised, ByAdmin
<1>2. CASE Changes(c)
  <2>1. PICK loaded \in call[c].row, u \in users :
           u.id = loaded.id /\ ChangeUser(u, Updated(c, loaded, u))
    BY <1>2 DEF Changes, WithId
  <2> DEFINE row == Updated(c, loaded, u)
  <2>2. /\ row.id = u.id /\ users' = (users \ {u}) \union {row}
        /\ row.role # u.role => row.role \in call[c].role
    BY <2>1, CallFields, UpdatedFields DEF ChangeUser
  <2> HIDE DEF row
  <2>3. id = u.id
    BY <2>2 DEF WithId
  <2>4. u \in WithId(id) /\ row \in WithId(id)'
    BY <2>2, <2>3 DEF WithId
  <2>5. \A old \in WithId(id) : old = u
    BY <2>3 DEF WithId, RowsInv, OneRowPerId
  <2>6. \A new \in WithId(id)' : new = row
    BY <2>2, <2>3, <2>5 DEF WithId
  <2>7. call[c].kind = "update"
    BY <1>0, <1>2 DEF Changes, CallOK, KindsAt
  <2>8. id \in call[c].target /\ \A i \in call[c].target : i = id
    BY <1>0, <1>2, <2>1, <2>3, CallFields DEF Changes, CallOK
  <2> QED
    BY <1>0, <2>2, <2>4, <2>5, <2>6, <2>7, <2>8 DEF CallOK, Authorised, ByAdmin, ByOwner
<1>3. CASE Removes(c)
  <2>1. PICK i \in call[c].target : RemoveUser(i)
    BY <1>3 DEF Removes
  <2>2. id = i /\ WithId(id)' = {}
    BY <2>1 DEF RemoveUser, WithId
  <2>3. call[c].kind = "delete"
    BY <1>0, <1>3 DEF Removes, CallOK, KindsAt
  <2> QED
    BY <1>0, <2>2, <2>3 DEF CallOK, Authorised, ByAdmin
<1> QED
  BY <1>1, <1>2, <1>3 DEF Writes

\* Every row that appears, changes or goes does so in a step of a call whose
\* actor had the right, as authentication found it.
THEOREM ChangesAreAuthorised == Spec => AccountChangesAreAuthorised
<1>1. TypeOK /\ AccountsInv /\ [Next]_vars => [ChangesAuthorised]_vars
  <2> SUFFICES ASSUME TypeOK, AccountsInv, [Next]_vars,
                      NEW id \in UserIds, WithId(id)' # WithId(id)
               PROVE  \E c \in Call : Pending(c) /\ call'[c].pc = "done" /\ Authorised(c, id)
    BY DEF ChangesAuthorised
  <2>1. RowsInv /\ CallsOK
    BY DEF AccountsInv, CallsOK
  <2>2. PICK c \in Call : Writes(c)
    BY ReadersLeaveTable DEF tableVars, WithId
  <2>3. PICK status : Committed(c, status)
    BY <2>2, WritesTable
  <2>4. Pending(c) /\ call'[c].pc = "done"
    BY <2>1, <2>2, <2>3, WritesTable, CommittedMoves
  <2> QED
    BY <2>1, <2>2, <2>4, WriteAuthorised
<1> QED
  BY <1>1, AccountsInvariant, PTL DEF Spec, AccountChangesAreAuthorised, ChangesAuthorised

\* One step of OnlyNamedColumnsChange.
NamedColumnsChange ==
    \A old \in users, new \in users' : old.id = new.id =>
      \E c \in Call :
        /\ new.email # old.email => \E e \in call[c].email : new.email = Normalize[e]
        /\ new.role # old.role => new.role \in call[c].role

\* Of two concurrent updates of an account, neither undoes the other's columns:
\* a column changes only to the value some request named for it.
THEOREM NoLostUpdate == Spec => OnlyNamedColumnsChange
<1>1. TypeOK /\ AccountsInv /\ [Next]_vars => [NamedColumnsChange]_vars
  <2> SUFFICES ASSUME TypeOK, RowsInv, Next,
                      NEW old \in users, NEW new \in users', old.id = new.id
               PROVE  \E c \in Call :
                        /\ new.email # old.email =>
                             \E e \in call[c].email : new.email = Normalize[e]
                        /\ new.role # old.role => new.role \in call[c].role
    BY DEF NamedColumnsChange, AccountsInv
  <2>1. PICK d \in Call : TRUE
    BY DEF Next
  <2>2. CASE new \in users
    <3>1. new = old
      BY <2>2 DEF RowsInv, OneRowPerId
    <3> QED
      BY <2>1, <3>1
  <2>3. CASE new \notin users
    <3>1. PICK c \in Call : Writes(c)
      BY <2>3, ReadersLeaveTable DEF tableVars
    <3>2. CASE Inserts(c)
      <4>1. PICK e \in call[c].email, role \in call[c].role, i \in UserIds \ usedIds :
               InsertUser([id |-> i, email |-> Normalize[e], role |-> role])
        BY <3>2 DEF Inserts
      <4>2. new.id = i
        BY <2>3, <4>1 DEF InsertUser
      <4> QED
        BY <4>2 DEF RowsInv
    <3>3. CASE Changes(c)
      <4>1. PICK loaded \in call[c].row, u \in users :
               u.id = loaded.id /\ ChangeUser(u, Updated(c, loaded, u))
        BY <3>3 DEF Changes, WithId
      <4> DEFINE row == Updated(c, loaded, u)
      <4>2. /\ row.id = u.id
            /\ row.email # u.email => \E e \in call[c].email : row.email = Normalize[e]
            /\ row.role # u.role => row.role \in call[c].role
        BY CallFields, UpdatedFields
      <4>3. new = row
        BY <2>3, <4>1 DEF ChangeUser
      <4> HIDE DEF row
      <4>4. old = u
        BY <4>2, <4>3 DEF RowsInv, OneRowPerId
      <4> QED
        BY <4>2, <4>3, <4>4
    <3>4. CASE Removes(c)
      BY <2>3, <3>4 DEF Removes, RemoveUser
    <3> QED
      BY <3>1, <3>2, <3>3, <3>4 DEF Writes
  <2> QED
    BY <2>2, <2>3
<1> QED
  BY <1>1, AccountsInvariant, PTL DEF Spec, OnlyNamedColumnsChange, NamedColumnsChange

------------------------------------------------------------------------------
(* What a call is told.                                                    *)

\* The answer of call c was true of the table at some instant of the call.
AnswerWasTrue(c) ==
    LET q == call[c]
        after == Facts(users', q)
    IN  CASE call'[c].status = 409 -> HeldByOther(users, q.email, q.target)
          [] call'[c].status = 404 -> "absent" \in q.saw
          [] call'[c].status = 204 -> "absent" \in after
          [] call'[c].status = 200 /\ q.kind = "update" ->
               "absent" \in q.saw \/ AskedFor(q) \subseteq q.saw \union after
          [] OTHER -> TRUE

LEMMA SeesAbsent ==
    ASSUME NEW rows, NEW q, NEW id \in q.target, \A u \in rows : u.id # id
    PROVE  "absent" \in Facts(rows, q)
BY DEF Facts, Holds, Fact

LEMMA SeesEmail ==
    ASSUME NEW rows, NEW q, NEW u \in rows, u.id \in q.target,
           NEW e \in q.email, u.email = Normalize[e]
    PROVE  "email" \in Facts(rows, q)
BY DEF Facts, Holds, Fact

LEMMA SeesRole ==
    ASSUME NEW rows, NEW q, NEW u \in rows, u.id \in q.target, u.role \in q.role
    PROVE  "role" \in Facts(rows, q)
BY DEF Facts, Holds, Fact

\* A row the index compares equal to the email asked for, and that is another
\* call's: what either refusal means.
LEMMA TakenIsHeld ==
    ASSUME NEW q, NEW e \in q.email, NEW u \in users, SameEmail(u.email, Normalize[e]),
           u.id \notin q.target
    PROVE  HeldByOther(users, q.email, q.target)
BY DEF HeldByOther

\* The statuses an update can be told after its UPDATE, or instead of it.
LEMMA WriteTrue ==
    ASSUME TypeOK, RowsInv, CallsOK, NEW c \in Call, WriteRow(c)
    PROVE  AnswerWasTrue(c)
<1>1. /\ CallOK(call[c]) /\ call[c].kind = "update"
      /\ Facts(users, call[c]) \subseteq call[c].saw
  BY DEF CallsOK, CallOK, KindsAt, WriteRow
<1>2. PICK loaded \in call[c].row :
        \/ /\ Updated(c, loaded, loaded) = loaded \/ WithId(loaded.id) = {}
           /\ Answer(c, 200)
        \/ /\ Updated(c, loaded, loaded) # loaded
           /\ \E u \in WithId(loaded.id) :
                \/ ChangeUser(u, Updated(c, loaded, u)) /\ Committed(c, 200)
                \/ /\ ~EmailFree(u.id, Updated(c, loaded, u).email)
                   /\ Answer(c, 409)
  BY DEF WriteRow
<1>3. /\ loaded.id \in call[c].target /\ loaded \in UserRow
      /\ (\E e \in call[c].email : Normalize[e] = loaded.email) => "email" \in call[c].saw
      /\ loaded.role \in call[c].role => "role" \in call[c].saw
  BY <1>1, CallFields DEF CallOK, WriteRow
<1>4. \A i \in call[c].target : i = loaded.id
  BY <1>3, CallFields
<1>5. CASE WithId(loaded.id) = {} /\ Answer(c, 200)
  <2>1. \A u \in users : u.id # loaded.id
    BY <1>5 DEF WithId
  <2>2. "absent" \in call[c].saw
    BY <1>1, <1>3, <2>1, SeesAbsent
  <2>3. call'[c].status = 200
    BY <1>5, AnsweredFields DEF Answer
  <2> QED
    BY <1>1, <2>2, <2>3 DEF AnswerWasTrue
<1>6. CASE Updated(c, loaded, loaded) = loaded /\ Answer(c, 200)
  <2>1. /\ \A e \in call[c].email : Normalize[e] = loaded.email
        /\ \A r \in call[c].role : r = loaded.role
    BY <1>3, <1>6, UpdatedFields
  <2>2. AskedFor(call[c]) \subseteq call[c].saw
    BY <1>3, <2>1 DEF AskedFor
  <2>3. call'[c].status = 200
    BY <1>6, AnsweredFields DEF Answer
  <2> QED
    BY <1>1, <2>2, <2>3 DEF AnswerWasTrue
<1>7. ASSUME NEW u \in WithId(loaded.id), ChangeUser(u, Updated(c, loaded, u)),
             Committed(c, 200)
      PROVE  AnswerWasTrue(c)
  <2> DEFINE row == Updated(c, loaded, u)
  <2>1. u \in UserRow /\ u.id = loaded.id
    BY CallFields DEF WithId
  <2>2. /\ row.id = u.id
        /\ \A e \in call[c].email : Normalize[e] # loaded.email => row.email = Normalize[e]
        /\ \A r \in call[c].role : r # loaded.role => row.role = r
    BY <1>3, <2>1, UpdatedFields
  <2>3. row \in users'
    BY <1>7 DEF ChangeUser
  <2> HIDE DEF row
  <2>4. row.id \in call[c].target
    BY <1>3, <2>1, <2>2
  <2>5. call[c].email # {} => "email" \in call[c].saw \union Facts(users', call[c])
    <3> SUFFICES ASSUME NEW e \in call[c].email
                 PROVE  "email" \in call[c].saw \union Facts(users', call[c])
      OBVIOUS
    <3>1. CASE Normalize[e] = loaded.email
      BY <1>3, <3>1
    <3>2. CASE Normalize[e] # loaded.email
      BY <2>2, <2>3, <2>4, <3>2, SeesEmail
    <3> QED
      BY <3>1, <3>2
  <2>6. call[c].role # {} => "role" \in call[c].saw \union Facts(users', call[c])
    <3> SUFFICES ASSUME NEW r \in call[c].role
                 PROVE  "role" \in call[c].saw \union Facts(users', call[c])
      OBVIOUS
    <3>1. CASE r = loaded.role
      BY <1>3, <3>1
    <3>2. CASE r # loaded.role
      BY <2>2, <2>3, <2>4, <3>2, SeesRole
    <3> QED
      BY <3>1, <3>2
  <2>7. AskedFor(call[c]) \subseteq call[c].saw \union Facts(users', call[c])
    BY <2>5, <2>6 DEF AskedFor
  <2>8. call'[c].status \in {200, 500}
    BY <1>7, CommittedMoves
  <2> QED
    BY <1>1, <2>7, <2>8 DEF AnswerWasTrue
<1>8. ASSUME NEW u \in WithId(loaded.id),
             ~EmailFree(u.id, Updated(c, loaded, u).email), Answer(c, 409)
      PROVE  AnswerWasTrue(c)
  <2> DEFINE row == Updated(c, loaded, u)
  <2>1. u \in users /\ u \in UserRow /\ u.id = loaded.id
    BY CallFields DEF WithId
  <2>2. row.email # u.email => \E e \in call[c].email : row.email = Normalize[e]
    BY <1>3, <2>1, UpdatedFields
  <2>3. PICK v \in users : SameEmail(v.email, row.email) /\ v.id # u.id
    BY <1>8 DEF EmailFree, WithEmail, WithId
  <2> HIDE DEF row
  <2>4. row.email # u.email
    BY <2>1, <2>3 DEF RowsInv, OneRowPerEmail
  <2>5. HeldByOther(users, call[c].email, call[c].target)
    BY <1>4, <2>1, <2>2, <2>3, <2>4, TakenIsHeld
  <2>6. call'[c].status = 409
    BY <1>8, AnsweredFields DEF Answer
  <2> QED
    BY <2>5, <2>6 DEF AnswerWasTrue
<1> QED
  BY <1>2, <1>5, <1>6, <1>7, <1>8

LEMMA StepTrue ==
    ASSUME TypeOK, RowsInv, CallsOK, NEW c \in Call, Step(c), call'[c].pc = "done"
    PROVE  AnswerWasTrue(c)
<1> DEFINE q == call[c]
<1>0. /\ CallOK(q) /\ (q.kind # "none" => Facts(users, q) \subseteq q.saw)
      /\ \A status : Answer(c, status) => call'[c].status = status
  BY AnsweredFields DEF CallsOK, CallOK, Answer
<1>1. CASE LookupEmail(c)
  <2>1. CASE Taken(c) /\ Answer(c, 409)
    BY <1>0, <2>1 DEF AnswerWasTrue, Taken
  <2>2. ~Goto(c, "load") /\ ~Goto(c, "hash")
    BY DEF Goto, Moved, TypeOK, CallRecord
  <2> QED
    BY <1>1, <2>1, <2>2 DEF LookupEmail
<1>2. CASE HashPassword(c)
  BY <1>2 DEF HashPassword, Goto, Moved, TypeOK, CallRecord
<1>3. CASE CreateRow(c)
  <2>1. q.kind \in {"register", "create"} /\ q.target = {}
    BY <1>0, <1>3 DEF CreateRow, CallOK, KindsAt
  <2>2. PICK e \in q.email, id \in UserIds \ usedIds :
          \/ Committed(c, 201)
          \/ ~EmailFree(id, Normalize[e]) /\ Answer(c, 409)
    BY <1>3 DEF CreateRow
  <2>3. CASE Committed(c, 201)
    <3>1. call'[c].status \in {201, 500}
      BY <2>3, CommittedMoves
    <3> QED
      BY <3>1 DEF AnswerWasTrue
  <2>4. CASE ~EmailFree(id, Normalize[e]) /\ Answer(c, 409)
    <3>1. PICK u \in users : SameEmail(u.email, Normalize[e])
      BY <2>4 DEF EmailFree, WithEmail
    <3>2. HeldByOther(users, q.email, q.target)
      BY <2>1, <3>1, TakenIsHeld
    <3> QED
      BY <1>0, <2>4, <3>2 DEF AnswerWasTrue
  <2> QED
    BY <2>2, <2>3, <2>4
<1>4. CASE LoadRow(c)
  <2>1. q.kind = "update"
    BY <1>0, <1>4 DEF LoadRow, CallOK, KindsAt
  <2>2. \A u : ~Loads(c, u)
    BY DEF Loads, TypeOK, CallRecord
  <2>3. PICK id \in q.target : WithId(id) = {} /\ Answer(c, 404)
    BY <1>4, <2>2 DEF LoadRow, Loads, WithId
  <2>4. "absent" \in q.saw
    BY <1>0, <2>1, <2>3, SeesAbsent, ZenonT(60) DEF WithId
  <2> QED
    BY <1>0, <2>3, <2>4 DEF AnswerWasTrue
<1>5. CASE WriteRow(c)
  BY <1>5, WriteTrue
<1>6. CASE DeleteRow(c)
  <2>1. q.kind = "delete"
    BY <1>0, <1>6 DEF DeleteRow, CallOK, KindsAt
  <2>2. PICK id \in q.target :
          \/ RemoveUser(id) /\ Committed(c, 204)
          \/ WithId(id) = {} /\ Answer(c, 404)
    BY <1>6 DEF DeleteRow
  <2>3. CASE RemoveUser(id) /\ Committed(c, 204)
    <3>1. "absent" \in Facts(users', q)
      BY <2>3, SeesAbsent DEF RemoveUser, WithId
    <3>2. call'[c].status \in {204, 500}
      BY <2>3, CommittedMoves
    <3> QED
      BY <3>1, <3>2 DEF AnswerWasTrue
  <2>4. CASE WithId(id) = {} /\ Answer(c, 404)
    <3>1. "absent" \in q.saw
      BY <1>0, <2>1, <2>4, SeesAbsent, ZenonT(60) DEF WithId
    <3> QED
      BY <1>0, <2>4, <3>1 DEF AnswerWasTrue
  <2> QED
    BY <2>2, <2>3, <2>4
<1>7. CASE ReadRows(c)
  <2>1. q.kind \in {"get", "list"}
    BY <1>0, <1>7 DEF ReadRows, CallOK, KindsAt
  <2>2. CASE \E id \in q.target : WithId(id) = {}
    <3>1. "absent" \in q.saw
      BY <1>0, <2>1, <2>2, SeesAbsent DEF WithId
    <3> QED
      BY <1>0, <1>7, <2>2, <3>1 DEF AnswerWasTrue, ReadRows
  <2>3. CASE ~\E id \in q.target : WithId(id) = {}
    <3>1. call'[c].status = 200
      BY <1>0, <1>7, <2>3 DEF ReadRows
    <3> QED
      BY <2>1, <3>1 DEF AnswerWasTrue
  <2> QED
    BY <2>2, <2>3
<1> QED
  BY <1>1, <1>2, <1>3, <1>4, <1>5, <1>6, <1>7 DEF Step

\* A call answers in a step of its own.
LEMMA OthersUnanswered ==
    ASSUME TypeOK, CallsOK, NEW c \in Call, Step(c), NEW d \in Call \ {c}
    PROVE  call'[d].pc = call[d].pc
<1>1. CASE Writes(c)
  BY <1>1, WritesTable, CommittedMoves DEF Watches
<1>2. CASE \E u \in users : Loads(c, u)
  BY <1>2 DEF Loads, TypeOK
<1>3. CASE Goto(c, "load") \/ Goto(c, "hash") \/ Goto(c, "insert")
  BY <1>3 DEF Goto, Moved, TypeOK
<1>4. CASE \E status \in Status : Answer(c, status)
  BY <1>4, AnsweredFields DEF Answer
<1> QED
  BY <1>1, <1>2, <1>3, <1>4, StepMoves

\* One step of AnswersWereTrue.
AnswersTrue == \A c \in Call : Pending(c) /\ call'[c].pc = "done" => AnswerWasTrue(c)

\* However stale what a call read before it wrote, what it is told was true of
\* the table at some instant between its arrival and its answer.
THEOREM AnswersAreTrue == Spec => AnswersWereTrue
<1>1. TypeOK /\ AccountsInv /\ [Next]_vars => [AnswersTrue]_vars
  <2> SUFFICES ASSUME TypeOK, RowsInv, CallsOK, Next,
                      NEW d \in Call, Pending(d), call'[d].pc = "done"
               PROVE  AnswerWasTrue(d)
    BY DEF AnswersTrue, AccountsInv, CallsOK
  <2>1. ASSUME NEW c \in Call, Step(c) PROVE AnswerWasTrue(d)
    BY <2>1, StepTrue, OthersUnanswered DEF Pending
  <2>2. ASSUME NEW c \in Call, Fault(c) PROVE AnswerWasTrue(d)
    <3>1. d = c /\ call'[d].status = 500
      BY <2>2, AnsweredFields DEF Fault, Pending
    <3> QED
      BY <3>1 DEF AnswerWasTrue
  <2>3. ASSUME NEW c \in Call, Arrival(c) PROVE FALSE
    <3>1. ~Pending(c)
      BY <2>3 DEF Arrival, UnauthenticatedArrive, RegisterArrive, CreateArrive, UpdateArrive,
                  DeleteArrive, GetArrive, ListArrive, Arrive
    <3>2. \A e \in Call \ {c} : call'[e] = call[e]
      BY <2>3, ZenonT(60) DEF Arrival, UnauthenticatedArrive, RegisterArrive, CreateArrive,
                  UpdateArrive, DeleteArrive, GetArrive, ListArrive, Arrive, Answer,
                  Answered, TypeOK
    <3> QED
      BY <3>1, <3>2 DEF Pending
  <2> QED
    BY <2>1, <2>2, <2>3 DEF Next
<1> QED
  BY <1>1, AccountsInvariant, PTL DEF Spec, AnswersWereTrue, AnswersTrue, AnswerWasTrue

=============================================================================
