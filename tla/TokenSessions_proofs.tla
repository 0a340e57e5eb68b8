------------------------ MODULE TokenSessions_proofs ------------------------
(***************************************************************************)
(* Theorems about TokenSessions, for every number of requests, accounts,   *)
(* tokens, faults and every value of the clock.                            *)
(***************************************************************************)
EXTENDS TokenSessions, TLAPS

------------------------------------------------------------------------------
(* The shape of a request is kept by every way a request can move.         *)

LEMMA TokenConstants ==
    /\ AccessTtl \in Nat /\ RefreshTtl \in Nat
    /\ MaxNow \in Nat /\ MaxJti \in Nat /\ MaxFaults \in Nat /\ MaxSweeps \in Nat
    /\ InitialUsers \subseteq UserRow
BY TokenAssumption DEF TokenAssumption

LEMMA IdleIsRequest == Idle \in Request
BY DEF Idle, Request, Op, Pc, Status

LEMMA GotoType ==
    ASSUME req \in [Req -> Request], NEW r \in Req, NEW pc \in Pc, Goto(r, pc)
    PROVE  req' \in [Req -> Request]
BY DEF Goto, Request

LEMMA GotoWithType ==
    ASSUME req \in [Req -> Request], NEW r \in Req, NEW pc \in Pc, NEW u \in UserRow,
           GotoWith(r, pc, u)
    PROVE  req' \in [Req -> Request]
BY ZenonT(60) DEF GotoWith, Request

LEMMA AnswerType ==
    ASSUME req \in [Req -> Request], NEW r \in Req, NEW status \in Status,
           Answer(r, status)
    PROVE  req' \in [Req -> Request]
<1>1. "done" \in Pc
  BY DEF Pc
<1> QED
  BY <1>1, ZenonT(60) DEF Answer, Request

LEMMA RefuseType ==
    ASSUME req \in [Req -> Request], NEW r \in Req, NEW status \in Status,
           Refuse(r, status)
    PROVE  req' \in [Req -> Request]
<1>1. [Idle EXCEPT !.pc = "done", !.status = status] \in Request
  BY DEF Idle, Request, Op, Pc
<1> QED
  BY <1>1 DEF Refuse

LEMMA ArriveType ==
    ASSUME TypeOK, NEW r \in Req, NEW op \in Op, NEW t \in SUBSET issued,
           NEW body \in SUBSET issued, NEW verified \in BOOLEAN, NEW first \in Pc,
           Arrive(r, op, t, body, verified, first)
    PROVE  req' \in [Req -> Request]
<1>1. CASE Refuse(r, 401)
  BY <1>1, RefuseType DEF TypeOK, Status
<1>2. CASE verified /\ ~Refuse(r, 401)
  <2> DEFINE replay == \E c \in t : c.jti \in everRevoked
             entered == [Idle EXCEPT !.op = op, !.pc = first, !.token = t, !.body = body,
                             !.seen = users, !.replayed = replay]
  <2>0. replay \in BOOLEAN
    OBVIOUS
  <2>1. entered \in Request
    <3> HIDE DEF replay
    <3> QED
      BY <2>0 DEF Idle, Request, Op, Status, TypeOK, TableTypeOK
  <2>2. req' = [req EXCEPT ![r] = entered]
    BY <1>2 DEF Arrive
  <2> QED
    BY <2>1, <2>2 DEF TypeOK
<1> QED
  BY <1>1, <1>2 DEF Arrive

\* A step after which the same requests, over no fewer tokens, are in flight.
LEMMA RequestGrows ==
    ASSUME issued \subseteq issued', req' \in [Req -> Request]
    PROVE  (req \in [Req -> Request])'
BY DEF Request

LEMMA ReadsType ==
    ASSUME TypeOK, OnlyReads, req' \in [Req -> Request]
    PROVE  TypeOK'
BY RequestGrows DEF TypeOK, TableTypeOK, OnlyReads

LEMMA RevokeType ==
    ASSUME TypeOK, NEW t \in issued, Revoke(t),
           UNCHANGED <<users, usedIds, issued, nextJti, now, sweeps>>,
           faults' \in Nat, req' \in [Req -> Request]
    PROVE  TypeOK'
<1>1. t \in Token
  BY DEF TypeOK
<1>2. revoked' \subseteq RevokedRow
  BY <1>1 DEF TypeOK, Revoke, AddToBlacklist, RevokedRow, Token, TokenType, RowsOf
<1>3. everRevoked' \subseteq Nat
  BY <1>1 DEF TypeOK, Revoke, Token
<1> QED
  BY <1>2, <1>3, RequestGrows DEF TypeOK, TableTypeOK

LEMMA MintType ==
    ASSUME TypeOK, NEW u \in UserRow, NEW parent \in Nat, MintPair(u, parent),
           req' \in [Req -> Request]
    PROVE  TypeOK'
<1>1. /\ SignedToken(u, "access", nextJti, AccessTtl, parent) \in Token
      /\ SignedToken(u, "refresh", nextJti + 1, RefreshTtl, parent) \in Token
  BY TokenConstants DEF TypeOK, SignedToken, Token, TokenType, UserRow
<1>2. issued' = issued \union
                  {SignedToken(u, "access", nextJti, AccessTtl, parent),
                   SignedToken(u, "refresh", nextJti + 1, RefreshTtl, parent)}
  BY DEF MintPair
<1>3. issued \subseteq issued' /\ issued' \subseteq Token
  BY <1>1, <1>2 DEF TypeOK
<1>4. (req \in [Req -> Request])'
  BY <1>3, RequestGrows
<1> QED
  BY <1>3, <1>4 DEF TypeOK, TableTypeOK, MintPair

\* The environment's and the cleanup job's steps.
LEMMA TableType ==
    ASSUME TableTypeOK, TableNext
    PROVE  TableTypeOK'
<1>1. CASE \E row \in UserRow : InsertUser(row)
  BY <1>1 DEF TableTypeOK, InsertUser, UserRow
<1>2. CASE \E old \in users, row \in UserRow : ChangeUser(old, row)
  BY <1>2 DEF TableTypeOK, ChangeUser
<1>3. CASE \E id \in UserIds : RemoveUser(id)
  BY <1>3 DEF TableTypeOK, RemoveUser
<1> QED
  BY <1>1, <1>2, <1>3 DEF TableNext

LEMMA AccountsChangeType ==
    ASSUME TypeOK, AccountsChange
    PROVE  TypeOK'
<1>1. TableTypeOK'
  BY TableType DEF TypeOK, AccountsChange
<1>2. \A r \in Req : [req[r] EXCEPT !.seen = @ \union users'] \in Request
  BY <1>1 DEF TypeOK, TableTypeOK, Request
<1>3. req' \in [Req -> Request]
  BY <1>2 DEF AccountsChange, TypeOK
<1> QED
  BY <1>1, <1>3, RequestGrows DEF AccountsChange, TypeOK

LEMMA InitType ==
    ASSUME Init
    PROVE  TypeOK
<1>1. TableTypeOK
  BY TokenConstants DEF Init, TableInit, TableTypeOK, UserRow
<1> QED
  BY <1>1, IdleIsRequest DEF Init, TypeOK

LEMMA RequestFields ==
    ASSUME TypeOK, NEW r \in Req
    PROVE  /\ req[r] \in Request
           /\ req[r].token \subseteq issued /\ req[r].body \subseteq issued
           /\ req[r].user \subseteq UserRow /\ req[r].seen \subseteq UserRow
BY DEF TypeOK, Request

LEMMA GrantType ==
    ASSUME req \in [Req -> Request], NEW r \in Req, NEW u \in UserRow, Grant(r, u)
    PROVE  req' \in [Req -> Request]
<1>1. req[r] \in Request
  OBVIOUS
<1>2. "done" \in Pc /\ 200 \in Status
  BY DEF Pc, Status
<1>3. [req[r] EXCEPT !.pc = "done", !.status = 200, !.user = {u}] \in Request
  BY <1>1, <1>2, ZenonT(60) DEF Request
<1> QED
  BY <1>3 DEF Grant

LEMMA ArrivalType ==
    ASSUME TypeOK, NEW r \in Req, Arrival(r)
    PROVE  TypeOK'
<1>1. OnlyReads
  BY DEF Arrival, LoginArrive, RefreshArrive, AccessArrive, LogoutArrive, Arrive
<1>2. req' \in [Req -> Request]
  <2>1. CASE LoginArrive(r)
    BY <2>1, ArriveType DEF LoginArrive, Op, Pc
  <2>2. CASE RefreshArrive(r)
    <3>1. PICK t \in issued : Arrive(r, "refresh", {t}, {}, Verifies(t, "refresh"), "check")
      BY <2>2 DEF RefreshArrive
    <3>2. Verifies(t, "refresh") \in BOOLEAN
      BY DEF Verifies
    <3> QED
      BY <3>1, <3>2, ArriveType DEF Op, Pc
  <2>3. CASE AccessArrive(r)
    <3>1. PICK t \in issued : Arrive(r, "access", {t}, {}, Verifies(t, "access"), "check")
      BY <2>3 DEF AccessArrive
    <3>2. Verifies(t, "access") \in BOOLEAN
      BY DEF Verifies
    <3> QED
      BY <3>1, <3>2, ArriveType DEF Op, Pc
  <2>4. CASE LogoutArrive(r)
    <3>1. PICK t \in issued, body \in SUBSET issued :
             Arrive(r, "logout", {t}, body, Verifies(t, "access"), "check")
      BY <2>4 DEF LogoutArrive
    <3>2. Verifies(t, "access") \in BOOLEAN
      BY DEF Verifies
    <3> QED
      BY <3>1, <3>2, ArriveType DEF Op, Pc
  <2> QED
    BY <2>1, <2>2, <2>3, <2>4 DEF Arrival
<1> QED
  BY <1>1, <1>2, ReadsType

LEMMA StepType ==
    ASSUME TypeOK, NEW r \in Req, Step(r)
    PROVE  TypeOK'
<1> USE RequestFields
<1>1. CASE LookupUser(r)
  <2>1. req' \in [Req -> Request]
    <3>1. CASE Refuse(r, 401)
      BY <3>1, RefuseType DEF TypeOK, Status
    <3>2. CASE \E u \in users : GotoWith(r, "compare", u)
      BY <3>2, GotoWithType DEF TypeOK, TableTypeOK, Pc
    <3> QED
      BY <1>1, <3>1, <3>2 DEF LookupUser
  <2> QED
    BY <1>1, <2>1, ReadsType DEF LookupUser
<1>2. CASE ComparePassword(r)
  <2>1. req' \in [Req -> Request]
    <3>1. CASE Refuse(r, 401)
      BY <3>1, RefuseType DEF TypeOK, Status
    <3>2. CASE Goto(r, "mint")
      BY <3>2, GotoType DEF TypeOK, Pc
    <3> QED
      BY <1>2, <3>1, <3>2 DEF ComparePassword
  <2> QED
    BY <1>2, <2>1, ReadsType DEF ComparePassword
<1>3. CASE LoginMint(r)
  <2>1. req' \in [Req -> Request]
    BY <1>3, AnswerType DEF LoginMint, TypeOK, Status
  <2> QED
    BY <1>3, <2>1, MintType DEF LoginMint
<1>4. CASE CheckRevoked(r)
  <2>1. req' \in [Req -> Request]
    <3>1. CASE Refuse(r, 401)
      BY <3>1, RefuseType DEF TypeOK, Status
    <3>2. CASE Goto(r, "find")
      BY <3>2, GotoType DEF TypeOK, Pc
    <3> QED
      BY <1>4, <3>1, <3>2 DEF CheckRevoked
  <2> QED
    BY <1>4, <2>1, ReadsType DEF CheckRevoked
<1>5. CASE FindRefreshUser(r)
  <2>1. req' \in [Req -> Request]
    <3>1. CASE Refuse(r, 401)
      BY <3>1, RefuseType DEF TypeOK, Status
    <3>2. CASE \E u \in users : GotoWith(r, "revoke", u)
      BY <3>2, GotoWithType DEF TypeOK, TableTypeOK, Pc
    <3> QED
      BY <1>5, <3>1, <3>2 DEF FindRefreshUser, WithId
  <2> QED
    BY <1>5, <2>1, ReadsType DEF FindRefreshUser
<1>6. CASE RevokeUsed(r)
  <2>1. req' \in [Req -> Request]
    BY <1>6, GotoType DEF RevokeUsed, TypeOK, Pc
  <2> QED
    BY <1>6, <2>1, RevokeType DEF RevokeUsed, OnlyRevokes, TypeOK
<1>7. CASE RefreshMint(r)
  <2>1. req' \in [Req -> Request]
    BY <1>7, AnswerType DEF RefreshMint, TypeOK, Status
  <2>2. PICK t \in req[r].token, u \in req[r].user : MintPair(u, t.jti)
    BY <1>7 DEF RefreshMint
  <2>3. t.jti \in Nat
    BY DEF TypeOK, Token
  <2> QED
    BY <2>1, <2>2, <2>3, MintType
<1>8. CASE FindBearer(r)
  <2>1. req' \in [Req -> Request]
    <3>1. CASE Refuse(r, 401)
      BY <3>1, RefuseType DEF TypeOK, Status
    <3>2. CASE \E u \in users : GotoWith(r, "begin", u)
      BY <3>2, GotoWithType DEF TypeOK, TableTypeOK, Pc
    <3>3. CASE \E u \in users : Grant(r, u)
      BY <3>3, GrantType DEF TypeOK, TableTypeOK
    <3> QED
      BY <1>8, <3>1, <3>2, <3>3 DEF FindBearer, Owner, WithId
  <2> QED
    BY <1>8, <2>1, ReadsType DEF FindBearer
<1>9. CASE LogoutBegin(r)
  <2>1. req' \in [Req -> Request]
    <3>1. CASE Refuse(r, 400) \/ Refuse(r, 401)
      BY <3>1, RefuseType DEF TypeOK, Status
    <3>2. CASE Goto(r, "revokeAccess")
      BY <3>2, GotoType DEF TypeOK, Pc
    <3> QED
      BY <1>9, <3>1, <3>2 DEF LogoutBegin
  <2> QED
    BY <1>9, <2>1, ReadsType DEF LogoutBegin
<1>10. CASE RevokeAccess(r)
  <2>1. req' \in [Req -> Request]
    BY <1>10, GotoType, AnswerType DEF RevokeAccess, TypeOK, Pc, Status
  <2> QED
    BY <1>10, <2>1, RevokeType DEF RevokeAccess, OnlyRevokes, TypeOK
<1>11. CASE VerifyLogoutRefresh(r)
  <2>1. req' \in [Req -> Request]
    <3>1. CASE Refuse(r, 401)
      BY <3>1, RefuseType DEF TypeOK, Status
    <3>2. CASE Answer(r, 204)
      BY <3>2, AnswerType DEF TypeOK, Status
    <3>3. CASE Goto(r, "revokeRefresh")
      BY <3>3, GotoType DEF TypeOK, Pc
    <3> QED
      BY <1>11, <3>1, <3>2, <3>3 DEF VerifyLogoutRefresh
  <2> QED
    BY <1>11, <2>1, ReadsType DEF VerifyLogoutRefresh
<1>12. CASE RevokeLogoutRefresh(r)
  <2>1. req' \in [Req -> Request]
    BY <1>12, AnswerType DEF RevokeLogoutRefresh, TypeOK, Status
  <2> QED
    BY <1>12, <2>1, RevokeType DEF RevokeLogoutRefresh, OnlyRevokes, TypeOK
<1> QED
  BY <1>1, <1>2, <1>3, <1>4, <1>5, <1>6, <1>7, <1>8, <1>9, <1>10, <1>11, <1>12 DEF Step

LEMMA FailType ==
    ASSUME TypeOK, NEW r \in Req, Fail(r)
    PROVE  req' \in [Req -> Request]
<1>1. Answer(r, 204) \/ Refuse(r, 401) \/ Refuse(r, 500)
  BY DEF Fail
<1> QED
  BY <1>1, AnswerType, RefuseType DEF TypeOK, Status

LEMMA FaultType ==
    ASSUME TypeOK, NEW r \in Req, DatabaseFault(r) \/ LostAcknowledgement(r)
    PROVE  TypeOK'
<1>1. req' \in [Req -> Request]
  BY FailType DEF DatabaseFault, LostAcknowledgement
<1>2. faults' \in Nat
  BY DEF DatabaseFault, LostAcknowledgement, TypeOK
<1>3. CASE DatabaseFault(r)
  BY <1>1, <1>2, <1>3, RequestGrows DEF DatabaseFault, TypeOK, TableTypeOK
<1>4. CASE LostAcknowledgement(r)
  <2>1. PICK t \in issued : Revoke(t)
    BY <1>4, RequestFields DEF LostAcknowledgement
  <2> QED
    BY <1>1, <1>2, <1>4, <2>1, RevokeType DEF LostAcknowledgement
<1> QED
  BY <1>3, <1>4

LEMMA SystemType ==
    ASSUME TypeOK, Restart \/ CleanupStart \/ CleanupRun \/ CleanupFail \/ Tick
    PROVE  TypeOK'
<1>1. CASE Restart
  <2>1. req' \in [Req -> Request]
    BY <1>1, IdleIsRequest DEF Restart
  <2> QED
    BY <1>1, <2>1, RequestGrows DEF Restart, Reload, TypeOK, TableTypeOK
<1>2. CASE CleanupStart
  BY <1>2, RequestGrows DEF CleanupStart, TypeOK, TableTypeOK
<1>3. CASE CleanupRun
  BY <1>3, RequestGrows DEF CleanupRun, CleanupExpired, TypeOK, TableTypeOK
<1>4. CASE CleanupFail
  BY <1>4, RequestGrows DEF CleanupFail, TypeOK, TableTypeOK
<1>5. CASE Tick
  BY <1>5, RequestGrows DEF Tick, TypeOK, TableTypeOK
<1> QED
  BY <1>1, <1>2, <1>3, <1>4, <1>5

LEMMA StutterType ==
    ASSUME TypeOK, UNCHANGED vars
    PROVE  TypeOK'
BY RequestGrows DEF vars, TypeOK, TableTypeOK

\* Every variable has its type, and requests only hold signed tokens, in every
\* state of the sessions.
THEOREM TypeCorrect == Spec => []TypeOK
<1>1. Init => TypeOK
  BY InitType
<1>2. TypeOK /\ [Next]_vars => TypeOK'
  <2> SUFFICES ASSUME TypeOK, [Next]_vars
               PROVE  TypeOK'
    OBVIOUS
  <2>1. CASE \E r \in Req : Arrival(r)
    BY <2>1, ArrivalType
  <2>2. CASE \E r \in Req : Step(r)
    BY <2>2, StepType
  <2>3. CASE \E r \in Req : DatabaseFault(r) \/ LostAcknowledgement(r)
    BY <2>3, FaultType
  <2>4. CASE Restart \/ CleanupStart \/ CleanupRun \/ CleanupFail \/ Tick
    BY <2>4, SystemType
  <2>5. CASE AccountsChange
    BY <2>5, AccountsChangeType
  <2>6. CASE UNCHANGED vars
    BY <2>6, StutterType
  <2> QED
    BY <2>1, <2>2, <2>3, <2>4, <2>5, <2>6 DEF Next
<1> QED
  BY <1>1, <1>2, PTL DEF Spec

------------------------------------------------------------------------------
(* The revocation store and the tokens: what every statement preserves.    *)

WorldInv ==
    /\ JtisAreUnique /\ RowsMatchTokens /\ CutoffsArePast
    /\ Backend = "database" => RevocationOutlivesToken

\* No token is signed or revoked, and the database keeps its rows.
LEMMA WorldQuiet ==
    ASSUME WorldInv, UNCHANGED <<issued, nextJti, now, everRevoked>>,
           revoked' \subseteq revoked, Backend = "database" => revoked' = revoked,
           \A c \in sweeps' : c \in sweeps \/ c <= now
    PROVE  WorldInv'
BY DEF WorldInv, JtisAreUnique, RowsMatchTokens, CutoffsArePast,
       RevocationOutlivesToken, IsBlacklisted, RowsOf

\* A revocation puts the row of t, and replaces no other.
LEMMA WorldRevoke ==
    ASSUME TypeOK, WorldInv, NEW t \in issued, Revoke(t),
           UNCHANGED <<issued, nextJti, now, sweeps>>
    PROVE  WorldInv'
<1> DEFINE row == [jti |-> t.jti, tokenType |-> t.tokenType, expiresAt |-> t.exp]
<1>1. row \in revoked' /\ revoked' = {x \in revoked : x.jti # t.jti} \union {row}
  BY DEF Revoke, AddToBlacklist, RowsOf
<1>2. row.jti = t.jti /\ row.expiresAt = t.exp
  OBVIOUS
<1> HIDE DEF row
<1>3. JtisAreUnique' /\ CutoffsArePast'
  BY DEF WorldInv, JtisAreUnique, CutoffsArePast, Revoke
<1>4. RowsMatchTokens'
  BY <1>1, <1>2 DEF WorldInv, JtisAreUnique, RowsMatchTokens
<1>5. ASSUME Backend = "database" PROVE RevocationOutlivesToken'
  <2> SUFFICES ASSUME NEW s \in issued, s.jti \in everRevoked',
                      ~(now >= s.exp)
               PROVE  \E x \in revoked' : x.jti = s.jti
    BY DEF RevocationOutlivesToken, IsBlacklisted, RowsOf
  <2>1. CASE s.jti = t.jti
    BY <1>1, <1>2, <2>1
  <2>2. CASE s.jti # t.jti
    <3>1. s.jti \in everRevoked
      BY <2>2 DEF Revoke
    <3>2. \E x \in revoked : x.jti = s.jti
      BY <1>5, <3>1 DEF WorldInv, RevocationOutlivesToken, IsBlacklisted, RowsOf
    <3> QED
      BY <1>1, <2>2, <3>2
  <2> QED
    BY <2>1, <2>2
<1> QED
  BY <1>3, <1>4, <1>5 DEF WorldInv

\* The two new tokens take the next jtis, which nothing refers to yet.
LEMMA WorldMint ==
    ASSUME TypeOK, WorldInv, NEW u, NEW parent, MintPair(u, parent)
    PROVE  WorldInv'
<1> DEFINE access == SignedToken(u, "access", nextJti, AccessTtl, parent)
           refresh == SignedToken(u, "refresh", nextJti + 1, RefreshTtl, parent)
<1>1. issued' = issued \union {access, refresh} /\ nextJti' = nextJti + 2
  BY DEF MintPair
<1>2. access.jti = nextJti /\ refresh.jti = nextJti + 1
  BY DEF SignedToken
<1> HIDE DEF access, refresh
<1>3. UNCHANGED <<revoked, now, sweeps, everRevoked>> /\ nextJti \in Nat
  BY DEF MintPair, TypeOK
<1>4. \A t \in issued : t.jti \in Nat /\ t.jti < nextJti
  BY DEF WorldInv, JtisAreUnique, TypeOK, Token
<1>5. \A j \in everRevoked : j \in Nat /\ j < nextJti
  BY DEF WorldInv, JtisAreUnique, TypeOK
<1>6. \A row \in revoked : row.jti \in Nat /\ row.jti < nextJti
  BY DEF WorldInv, RowsMatchTokens, TypeOK, RevokedRow
<1>7. JtisAreUnique'
  BY <1>1, <1>2, <1>3, <1>4, <1>5 DEF WorldInv, JtisAreUnique
<1>8. RowsMatchTokens'
  BY <1>1, <1>2, <1>3, <1>6 DEF WorldInv, RowsMatchTokens
<1>9. CutoffsArePast'
  BY <1>3 DEF WorldInv, CutoffsArePast
<1>10. ASSUME Backend = "database" PROVE RevocationOutlivesToken'
  BY <1>1, <1>2, <1>3, <1>5, <1>10
     DEF WorldInv, RevocationOutlivesToken, IsBlacklisted, RowsOf
<1> QED
  BY <1>7, <1>8, <1>9, <1>10 DEF WorldInv

\* A DELETE takes rows whose tokens have expired, its cutoff being past.
LEMMA WorldCleanup ==
    ASSUME TypeOK, WorldInv, CleanupRun
    PROVE  WorldInv'
<1>1. PICK cutoff \in sweeps : CleanupExpired(cutoff) /\ sweeps' = sweeps \ {cutoff}
  BY DEF CleanupRun
<1>2. UNCHANGED <<issued, nextJti, now, everRevoked>> /\ now \in Nat
  BY DEF CleanupRun, TypeOK
<1>3. revoked' \subseteq revoked
  BY <1>1 DEF CleanupExpired
<1>4. JtisAreUnique' /\ RowsMatchTokens' /\ CutoffsArePast'
  BY <1>1, <1>2, <1>3 DEF WorldInv, JtisAreUnique, RowsMatchTokens, CutoffsArePast
<1>5. ASSUME Backend = "database" PROVE RevocationOutlivesToken'
  <2> SUFFICES ASSUME NEW t \in issued, t.jti \in everRevoked, ~(now >= t.exp)
               PROVE  \E x \in revoked' : x.jti = t.jti
    BY <1>2 DEF RevocationOutlivesToken, IsBlacklisted, RowsOf
  <2>1. PICK x \in revoked : x.jti = t.jti
    BY <1>5 DEF WorldInv, RevocationOutlivesToken, IsBlacklisted, RowsOf
  <2>2. x.expiresAt = t.exp /\ t.exp \in Nat
    BY <2>1 DEF WorldInv, RowsMatchTokens, TypeOK, Token
  <2>3. cutoff \in Nat /\ cutoff <= now
    BY DEF WorldInv, CutoffsArePast, TypeOK
  <2>4. ~(x.expiresAt < cutoff)
    BY <1>2, <2>2, <2>3
  <2> QED
    BY <1>1, <1>5, <2>1, <2>4 DEF CleanupExpired, ExpiredRows
<1> QED
  BY <1>4, <1>5 DEF WorldInv

LEMMA WorldTick ==
    ASSUME TypeOK, WorldInv, Tick
    PROVE  WorldInv'
<1>1. now \in Nat /\ now' = now + 1
  BY DEF Tick, TypeOK
<1>2. UNCHANGED <<revoked, issued, nextJti, sweeps, everRevoked>>
  BY DEF Tick
<1>3. \A t \in issued : t.exp \in Nat
  BY DEF TypeOK, Token
<1>4. \A c \in sweeps : c \in Nat
  BY DEF TypeOK
<1> QED
  BY <1>1, <1>2, <1>3, <1>4
     DEF WorldInv, JtisAreUnique, RowsMatchTokens, CutoffsArePast,
         RevocationOutlivesToken, IsBlacklisted, RowsOf

\* Every step but those that mint or revoke leaves tokens and revocations alone.
LEMMA WorldStep ==
    ASSUME TypeOK, WorldInv, [Next]_vars
    PROVE  WorldInv'
<1>1. ASSUME NEW r \in Req, Arrival(r)
      PROVE  WorldInv'
  BY <1>1, WorldQuiet
     DEF Arrival, LoginArrive, RefreshArrive, AccessArrive, LogoutArrive, Arrive, OnlyReads
<1>2. ASSUME NEW r \in Req, Step(r)
      PROVE  WorldInv'
  <2>1. CASE LookupUser(r) \/ ComparePassword(r) \/ CheckRevoked(r) \/ FindRefreshUser(r)
             \/ FindBearer(r) \/ LogoutBegin(r) \/ VerifyLogoutRefresh(r)
    <3>1. OnlyReads
      BY <2>1 DEF LookupUser, ComparePassword, CheckRevoked, FindRefreshUser, FindBearer,
                  LogoutBegin, VerifyLogoutRefresh
    <3> QED
      BY <3>1, WorldQuiet DEF OnlyReads
  <2>2. CASE LoginMint(r) \/ RefreshMint(r)
    BY <2>2, WorldMint DEF LoginMint, RefreshMint
  <2>3. CASE RevokeUsed(r) \/ RevokeAccess(r) \/ RevokeLogoutRefresh(r)
    <3>1. PICK t \in issued : Revoke(t)
      BY <2>3, RequestFields DEF RevokeUsed, RevokeAccess, RevokeLogoutRefresh
    <3> QED
      BY <2>3, <3>1, WorldRevoke
         DEF RevokeUsed, RevokeAccess, RevokeLogoutRefresh, OnlyRevokes
  <2> QED
    BY <1>2, <2>1, <2>2, <2>3 DEF Step
<1>3. ASSUME NEW r \in Req, DatabaseFault(r)
      PROVE  WorldInv'
  BY <1>3, WorldQuiet DEF DatabaseFault
<1>4. ASSUME NEW r \in Req, LostAcknowledgement(r)
      PROVE  WorldInv'
  <2>1. PICK t \in issued : Revoke(t)
    BY <1>4, RequestFields DEF LostAcknowledgement
  <2> QED
    BY <1>4, <2>1, WorldRevoke DEF LostAcknowledgement
<1>5. CASE Restart
  BY <1>5, WorldQuiet DEF Restart, Reload
<1>6. CASE CleanupStart
  <2>1. now <= now
    BY DEF TypeOK
  <2> QED
    BY <1>6, <2>1, WorldQuiet DEF CleanupStart
<1>7. CASE CleanupFail
  BY <1>7, WorldQuiet DEF CleanupFail
<1>8. CASE AccountsChange \/ UNCHANGED vars
  BY <1>8, WorldQuiet DEF AccountsChange, vars
<1> QED
  BY <1>1, <1>2, <1>3, <1>4, <1>5, <1>6, <1>7, <1>8, WorldCleanup, WorldTick DEF Next

------------------------------------------------------------------------------
(* What each request knows at its awaits.                                  *)

StaleOK(r) ==
    Backend = "database" /\ req[r].replayed /\ Accepted(r) =>
      \A t \in req[r].token : now >= t.exp

RequestSafe(r) == RequestOK(req[r]) /\ StaleOK(r)

RequestsSafe == \A r \in Req : RequestSafe(r)

\* The clock and the set of revocations only grow, so that a request a step does
\* not move stays safe.
LEMMA UnmovedSafe ==
    ASSUME TypeOK, NEW r \in Req, RequestSafe(r), UNCHANGED req[r],
           everRevoked \subseteq everRevoked', now' \in Nat, now <= now'
    PROVE  RequestSafe(r)'
<1>1. \A t \in req[r].token : t.exp \in Nat
  BY RequestFields DEF TypeOK, Token
<1>2. RequestOK(req[r])'
  BY DEF RequestSafe, RequestOK, SameSubject
<1>3. StaleOK(r)'
  BY <1>1 DEF RequestSafe, StaleOK, Accepted, TypeOK
<1> QED
  BY <1>2, <1>3 DEF RequestSafe

\* The fields of a request after each way to move it.
MovedOnly(r) ==
    /\ \A s \in Req \ {r} : req'[s] = req[s]
    /\ req'[r].op = req[r].op /\ req'[r].token = req[r].token
    /\ req'[r].body = req[r].body /\ req'[r].replayed = req[r].replayed

LEMMA GotoFields ==
    ASSUME TypeOK, NEW r \in Req, NEW pc, Goto(r, pc)
    PROVE  MovedOnly(r) /\ req'[r].pc = pc /\ req'[r].user = req[r].user
           /\ req'[r].status = req[r].status
BY DEF Goto, MovedOnly, TypeOK, Request

LEMMA GotoWithFields ==
    ASSUME TypeOK, NEW r \in Req, NEW pc, NEW u, GotoWith(r, pc, u)
    PROVE  MovedOnly(r) /\ req'[r].pc = pc /\ req'[r].user = {u}
BY DEF GotoWith, MovedOnly, TypeOK, Request

LEMMA AnswerFields ==
    ASSUME TypeOK, NEW r \in Req, NEW status, Answer(r, status)
    PROVE  MovedOnly(r) /\ req'[r].pc = "done" /\ req'[r].status = status
BY DEF Answer, MovedOnly, TypeOK, Request

LEMMA GrantFields ==
    ASSUME TypeOK, NEW r \in Req, NEW u, Grant(r, u)
    PROVE  MovedOnly(r) /\ req'[r].pc = "done" /\ req'[r].status = 200
<1>1. req[r] \in Request
  BY DEF TypeOK
<1> QED
  BY <1>1 DEF Grant, MovedOnly, TypeOK, Request

LEMMA RefuseFields ==
    ASSUME TypeOK, NEW r \in Req, NEW status, Refuse(r, status)
    PROVE  /\ \A s \in Req \ {r} : req'[s] = req[s]
           /\ req'[r].op = "none" /\ req'[r].pc = "done" /\ req'[r].token = {}
           /\ req'[r].body = {} /\ req'[r].replayed = FALSE
BY DEF Refuse, Idle, TypeOK

LEMMA RefuseSafe ==
    ASSUME TypeOK, NEW r \in Req, NEW status, Refuse(r, status)
    PROVE  RequestSafe(r)'
BY RefuseFields DEF RequestSafe, RequestOK, StaleOK, AwaitsOverToken

\* Past the revocation check, a request stays as acceptable as it was.
LEMMA AdvanceSafe ==
    ASSUME NEW r \in Req, RequestSafe(r), Accepted(r), MovedOnly(r),
           UNCHANGED now, RequestOK(req[r])'
    PROVE  RequestSafe(r)'
BY DEF RequestSafe, StaleOK, MovedOnly

LEMMA FinishSafe ==
    ASSUME NEW r \in Req, RequestSafe(r), Accepted(r), MovedOnly(r),
           UNCHANGED now, everRevoked \subseteq everRevoked', req'[r].pc = "done"
    PROVE  RequestSafe(r)'
<1>1. RequestOK(req[r])'
  BY DEF RequestSafe, RequestOK, MovedOnly, AwaitsOverToken
<1> QED
  BY <1>1, AdvanceSafe

LEMMA ArrivalSafe ==
    ASSUME TypeOK, NEW r \in Req, Arrival(r)
    PROVE  RequestSafe(r)'
<1> DEFINE entered(op, t, body, first) ==
             [Idle EXCEPT !.op = op, !.pc = first, !.token = t, !.body = body,
                          !.seen = users, !.replayed = \E c \in t : c.jti \in everRevoked]
<1>1. ASSUME NEW op, NEW t, NEW body, NEW verified, NEW first,
             Arrive(r, op, t, body, verified, first),
             \A x, y \in t : x = y, \A x, y \in body : x = y,
             first \in {"lookup", "check"},
             first = "check" => t # {}, first = "lookup" => op = "login",
             op = "login" => t = {},
             verified /\ op = "refresh" => \A x \in t : x.tokenType = "refresh"
      PROVE  RequestSafe(r)'
  <2>1. CASE Refuse(r, 401)
    BY <2>1, RefuseSafe
  <2>2. CASE verified /\ req' = [req EXCEPT ![r] = entered(op, t, body, first)]
    <3>1. req'[r] = entered(op, t, body, first)
      BY <2>2 DEF TypeOK
    <3>2. /\ req'[r].op = op /\ req'[r].pc = first /\ req'[r].token = t
          /\ req'[r].body = body
          /\ req'[r].replayed = \E c \in t : c.jti \in everRevoked
      BY <3>1 DEF Idle
    <3>3. everRevoked' = everRevoked
      BY <1>1 DEF Arrive, OnlyReads
    <3>4. RequestOK(req[r])'
      BY <1>1, <2>2, <3>2, <3>3 DEF RequestOK, AwaitsOverToken
    <3>5. ~Accepted(r)'
      BY <1>1, <3>2 DEF Accepted
    <3> QED
      BY <3>4, <3>5 DEF RequestSafe, StaleOK
  <2> QED
    BY <1>1, <2>1, <2>2 DEF Arrive
<1>2. CASE LoginArrive(r)
  <2>1. PICK verified \in BOOLEAN : Arrive(r, "login", {}, {}, verified, "lookup")
    BY <1>2 DEF LoginArrive
  <2>2. \A x, y \in {} : x = y
    OBVIOUS
  <2>3. "lookup" # "check" /\ "login" # "refresh"
    OBVIOUS
  <2> QED
    BY <1>1, <2>1, <2>2, <2>3
<1>3. CASE RefreshArrive(r)
  <2>1. PICK t \in issued :
          Arrive(r, "refresh", {t}, {}, Verifies(t, "refresh"), "check")
    BY <1>3 DEF RefreshArrive
  <2>2. /\ \A x, y \in {t} : x = y /\ {t} # {}
        /\ \A x, y \in {} : x = y
    OBVIOUS
  <2>3. Verifies(t, "refresh") => t.tokenType = "refresh"
    BY DEF Verifies
  <2> QED
    BY <1>1, <2>1, <2>2, <2>3
<1>4. CASE AccessArrive(r)
  <2>1. PICK t \in issued :
          Arrive(r, "access", {t}, {}, Verifies(t, "access"), "check")
    BY <1>4 DEF AccessArrive
  <2>2. /\ \A x, y \in {t} : x = y /\ {t} # {}
        /\ \A x, y \in {} : x = y
    OBVIOUS
  <2>3. Verifies(t, "access") => t.tokenType = "access"
    BY DEF Verifies
  <2> QED
    BY <1>1, <2>1, <2>2, <2>3
<1>5. CASE LogoutArrive(r)
  BY <1>1, <1>5 DEF LogoutArrive
<1> QED
  BY <1>2, <1>3, <1>4, <1>5 DEF Arrival

LEMMA LoginSafe ==
    ASSUME TypeOK, NEW r \in Req, RequestSafe(r),
           LookupUser(r) \/ ComparePassword(r) \/ LoginMint(r)
    PROVE  RequestSafe(r)'
<1>1. CASE \E status : Refuse(r, status)
  BY <1>1, RefuseSafe
<1>2. CASE MovedOnly(r) /\ req[r].op = "login" /\ req'[r].pc \in {"compare", "mint", "done"}
           /\ UNCHANGED everRevoked
  <2>1. req'[r].op = "login" /\ req'[r].token = {} /\ req'[r].op # "refresh"
    BY <1>2 DEF MovedOnly, RequestSafe, RequestOK
  <2>2. RequestOK(req[r])'
    BY <1>2, <2>1 DEF MovedOnly, RequestSafe, RequestOK, AwaitsOverToken
  <2> QED
    BY <2>1, <2>2 DEF RequestSafe, StaleOK
<1>3. CASE LookupUser(r)
  <2>1. req[r].op = "login" /\ UNCHANGED everRevoked
    BY <1>3 DEF LookupUser, OnlyReads, RequestSafe, RequestOK
  <2> QED
    BY <1>1, <1>2, <1>3, <2>1, GotoWithFields DEF LookupUser
<1>4. CASE ComparePassword(r)
  <2>1. req[r].op = "login" /\ UNCHANGED everRevoked
    BY <1>4 DEF ComparePassword, OnlyReads, RequestSafe, RequestOK
  <2> QED
    BY <1>1, <1>2, <1>4, <2>1, GotoFields DEF ComparePassword
<1>5. CASE LoginMint(r)
  BY <1>2, <1>5, AnswerFields DEF LoginMint, MintPair
<1> QED
  BY <1>3, <1>4, <1>5

\* The store answers for every token that can still verify, so that a replayed
\* one passes the check only if it has expired.
LEMMA CheckSafe ==
    ASSUME TypeOK, WorldInv, NEW r \in Req, RequestSafe(r), CheckRevoked(r)
    PROVE  RequestSafe(r)'
<1>1. PICK t \in req[r].token :
        IF IsBlacklisted(t.jti) THEN Refuse(r, 401) ELSE Goto(r, "find")
  BY DEF CheckRevoked
<1>2. CASE IsBlacklisted(t.jti)
  BY <1>1, <1>2, RefuseSafe
<1>3. CASE ~IsBlacklisted(t.jti)
  <2>1. MovedOnly(r) /\ req'[r].pc = "find"
    BY <1>1, <1>3, GotoFields
  <2>2. UNCHANGED <<everRevoked, now>>
    BY DEF CheckRevoked, OnlyReads
  <2>3. RequestOK(req[r])'
    BY <2>1, <2>2 DEF MovedOnly, RequestSafe, RequestOK, AwaitsOverToken, CheckRevoked
  <2>4. \A x \in req[r].token : x = t
    BY DEF RequestSafe, RequestOK
  <2>5. Backend = "database" /\ req[r].replayed => now >= t.exp
    <3>1. t \in issued
      BY RequestFields
    <3>2. req[r].replayed => t.jti \in everRevoked
      BY DEF RequestSafe, RequestOK
    <3> QED
      BY <1>3, <3>1, <3>2 DEF WorldInv, RevocationOutlivesToken
  <2>6. StaleOK(r)'
    BY <2>1, <2>2, <2>4, <2>5 DEF StaleOK, MovedOnly
  <2> QED
    BY <2>3, <2>6 DEF RequestSafe
<1> QED
  BY <1>2, <1>3

LEMMA RefreshSafe ==
    ASSUME TypeOK, NEW r \in Req, RequestSafe(r),
           FindRefreshUser(r) \/ RevokeUsed(r) \/ RefreshMint(r)
    PROVE  RequestSafe(r)'
<1>1. CASE FindRefreshUser(r)
  <2>1. CASE Refuse(r, 401)
    BY <2>1, RefuseSafe
  <2>2. CASE ~Refuse(r, 401)
    <3>1. PICK t \in req[r].token, u \in users :
            u \in WithId(t.sub) /\ GotoWith(r, "revoke", u)
      BY <1>1, <2>2 DEF FindRefreshUser, WithId
    <3>2. MovedOnly(r) /\ req'[r].pc = "revoke" /\ req'[r].user = {u} /\ u.id = t.sub
      BY <3>1, GotoWithFields DEF WithId
    <3>3. UNCHANGED <<everRevoked, now>> /\ Accepted(r)
      BY <1>1 DEF FindRefreshUser, OnlyReads, Accepted
    <3>4. RequestOK(req[r])'
      BY <1>1, <3>1, <3>2, <3>3
         DEF MovedOnly, RequestSafe, RequestOK, AwaitsOverToken, FindRefreshUser
    <3> QED
      BY <3>2, <3>3, <3>4, AdvanceSafe
  <2> QED
    BY <2>1, <2>2
<1>2. CASE RevokeUsed(r)
  <2>1. PICK t \in req[r].token : Revoke(t)
    BY <1>2 DEF RevokeUsed
  <2>2. everRevoked' = everRevoked \union {t.jti} /\ UNCHANGED now /\ Accepted(r)
    BY <1>2, <2>1 DEF RevokeUsed, Revoke, OnlyRevokes, Accepted
  <2>3. MovedOnly(r) /\ req'[r].pc = "mint" /\ req'[r].user = req[r].user
    BY <1>2, GotoFields DEF RevokeUsed
  <2>4. RequestOK(req[r])'
    BY <1>2, <2>1, <2>2, <2>3
       DEF MovedOnly, RequestSafe, RequestOK, AwaitsOverToken, RevokeUsed
  <2> QED
    BY <2>2, <2>3, <2>4, AdvanceSafe
<1>3. CASE RefreshMint(r)
  <2>1. UNCHANGED <<now, everRevoked>> /\ Accepted(r)
    BY <1>3 DEF RefreshMint, MintPair, Accepted
  <2> QED
    BY <1>3, <2>1, AnswerFields, FinishSafe DEF RefreshMint
<1> QED
  BY <1>1, <1>2, <1>3

LEMMA BearerSafe ==
    ASSUME TypeOK, NEW r \in Req, RequestSafe(r), FindBearer(r)
    PROVE  RequestSafe(r)'
<1>1. UNCHANGED <<now, everRevoked>> /\ Accepted(r)
  BY DEF FindBearer, OnlyReads, Accepted
<1>2. CASE Refuse(r, 401)
  BY <1>2, RefuseSafe
<1>3. CASE \E u \in users : GotoWith(r, "begin", u)
  <2>1. MovedOnly(r) /\ req'[r].pc = "begin"
    BY <1>3, GotoWithFields
  <2>2. RequestOK(req[r])'
    BY <1>1, <2>1 DEF MovedOnly, RequestSafe, RequestOK, AwaitsOverToken, FindBearer
  <2> QED
    BY <1>1, <2>1, <2>2, AdvanceSafe
<1>4. CASE \E u \in users : Grant(r, u)
  BY <1>1, <1>4, GrantFields, FinishSafe
<1> QED
  BY <1>2, <1>3, <1>4 DEF FindBearer, Owner, WithId

LEMMA LogoutSafe ==
    ASSUME TypeOK, NEW r \in Req, RequestSafe(r),
           LogoutBegin(r) \/ RevokeAccess(r) \/ VerifyLogoutRefresh(r)
             \/ RevokeLogoutRefresh(r)
    PROVE  RequestSafe(r)'
<1>1. UNCHANGED now /\ everRevoked \subseteq everRevoked' /\ Accepted(r)
  BY DEF LogoutBegin, RevokeAccess, VerifyLogoutRefresh, RevokeLogoutRefresh,
         OnlyReads, OnlyRevokes, Revoke, Accepted
<1>2. CASE Refuse(r, 400) \/ Refuse(r, 401)
  BY <1>2, RefuseSafe
<1>3. CASE Answer(r, 204)
  BY <1>1, <1>3, AnswerFields, FinishSafe
<1>4. CASE Goto(r, "revokeAccess") \/ Goto(r, "verifyRefresh")
  <2>1. MovedOnly(r) /\ req'[r].pc \in {"revokeAccess", "verifyRefresh"}
    BY <1>4, GotoFields
  <2>2. req[r].token # {}
    BY DEF RequestSafe, RequestOK, AwaitsOverToken, LogoutBegin, RevokeAccess,
           VerifyLogoutRefresh, RevokeLogoutRefresh
  <2>3. RequestOK(req[r])'
    BY <1>1, <2>1, <2>2 DEF MovedOnly, RequestSafe, RequestOK, AwaitsOverToken
  <2> QED
    BY <1>1, <2>1, <2>3, AdvanceSafe
<1>5. CASE VerifyLogoutRefresh(r) /\ Goto(r, "revokeRefresh")
  <2>1. MovedOnly(r) /\ req'[r].pc = "revokeRefresh"
    BY <1>5, GotoFields
  <2>2. req[r].token # {} /\ \A s, t \in req[r].token : s = t
    BY <1>5 DEF RequestSafe, RequestOK, AwaitsOverToken, VerifyLogoutRefresh
  <2>3. \A t \in req[r].token, b \in req[r].body : SameSubject(t, b)
    <3>1. ~Answer(r, 204) /\ ~Refuse(r, 401)
      BY <2>1, AnswerFields, RefuseFields
    <3>2. PICK t \in req[r].token, b \in req[r].body : SameSubject(t, b)
      BY <1>5, <3>1 DEF VerifyLogoutRefresh
    <3>3. \A c \in req[r].body : c = b
      BY DEF RequestSafe, RequestOK
    <3> QED
      BY <2>2, <3>2, <3>3
  <2>4. RequestOK(req[r])'
    BY <1>1, <2>1, <2>2, <2>3
       DEF MovedOnly, RequestSafe, RequestOK, AwaitsOverToken, SameSubject
  <2> QED
    BY <1>1, <2>1, <2>4, AdvanceSafe
<1> QED
  BY <1>2, <1>3, <1>4, <1>5
     DEF LogoutBegin, RevokeAccess, VerifyLogoutRefresh, RevokeLogoutRefresh

LEMMA FaultSafe ==
    ASSUME TypeOK, NEW r \in Req, RequestSafe(r),
           DatabaseFault(r) \/ LostAcknowledgement(r)
    PROVE  RequestSafe(r)'
<1>1. UNCHANGED now /\ everRevoked \subseteq everRevoked' /\ Fail(r)
  BY DEF DatabaseFault, LostAcknowledgement, Revoke
<1>2. CASE Refuse(r, 401) \/ Refuse(r, 500)
  BY <1>2, RefuseSafe
<1>3. CASE req[r].pc = "revokeRefresh" /\ Answer(r, 204)
  <2>1. Accepted(r)
    BY <1>3 DEF Accepted
  <2> QED
    BY <1>1, <1>3, <2>1, AnswerFields, FinishSafe
<1> QED
  BY <1>1, <1>2, <1>3 DEF Fail

LEMMA OthersUnmoved ==
    ASSUME TypeOK, NEW r \in Req,
           Arrival(r) \/ Step(r) \/ DatabaseFault(r) \/ LostAcknowledgement(r)
    PROVE  /\ \A s \in Req \ {r} : req'[s] = req[s]
           /\ now' = now /\ everRevoked \subseteq everRevoked'
<1> USE DEF Goto, GotoWith, Answer, Refuse, Grant, TypeOK
<1>1. CASE Arrival(r)
  BY <1>1 DEF Arrival, LoginArrive, RefreshArrive, AccessArrive, LogoutArrive, Arrive,
              OnlyReads
<1>2. CASE LookupUser(r) \/ ComparePassword(r) \/ CheckRevoked(r) \/ FindRefreshUser(r)
  BY <1>2 DEF LookupUser, ComparePassword, CheckRevoked, FindRefreshUser, OnlyReads
<1>3. CASE FindBearer(r) \/ LogoutBegin(r) \/ VerifyLogoutRefresh(r)
  BY <1>3 DEF FindBearer, LogoutBegin, VerifyLogoutRefresh, OnlyReads
<1>4. CASE LoginMint(r) \/ RefreshMint(r)
  BY <1>4 DEF LoginMint, RefreshMint, MintPair
<1>5. CASE RevokeUsed(r) \/ RevokeAccess(r) \/ RevokeLogoutRefresh(r)
  BY <1>5 DEF RevokeUsed, RevokeAccess, RevokeLogoutRefresh, Revoke, OnlyRevokes
<1>6. CASE DatabaseFault(r) \/ LostAcknowledgement(r)
  BY <1>6 DEF DatabaseFault, LostAcknowledgement, Revoke, Fail
<1> QED
  BY <1>1, <1>2, <1>3, <1>4, <1>5, <1>6 DEF Step

\* A change of the accounts is only witnessed.
LEMMA WitnessSafe ==
    ASSUME TypeOK, AccountsChange, NEW r \in Req, RequestSafe(r)
    PROVE  RequestSafe(r)'
<1>1. req[r] \in Request /\ now' = now /\ everRevoked' = everRevoked
  BY DEF TypeOK, AccountsChange
<1>2. req'[r] = IF Pending(r) THEN [req[r] EXCEPT !.seen = @ \union users'] ELSE req[r]
  BY DEF AccountsChange
<1>3. /\ req'[r].pc = req[r].pc /\ req'[r].op = req[r].op
      /\ req'[r].token = req[r].token /\ req'[r].body = req[r].body
      /\ req'[r].user = req[r].user /\ req'[r].status = req[r].status
      /\ req'[r].replayed = req[r].replayed
  BY <1>1, <1>2 DEF Request
<1> QED
  BY <1>1, <1>3 DEF RequestSafe, RequestOK, StaleOK, Accepted, SameSubject

LEMMA RequestsStep ==
    ASSUME TypeOK, WorldInv, RequestsSafe, [Next]_vars
    PROVE  RequestsSafe'
<1>1. ASSUME NEW r \in Req,
             Arrival(r) \/ Step(r) \/ DatabaseFault(r) \/ LostAcknowledgement(r)
      PROVE  RequestsSafe'
  <2>1. RequestSafe(r)
    BY DEF RequestsSafe
  <2>2. RequestSafe(r)'
    BY <1>1, <2>1, ArrivalSafe, FaultSafe, LoginSafe, CheckSafe, RefreshSafe, BearerSafe,
       LogoutSafe DEF Step
  <2>3. now' \in Nat /\ now <= now' /\ everRevoked \subseteq everRevoked'
    BY <1>1, OthersUnmoved DEF TypeOK
  <2>4. ASSUME NEW s \in Req \ {r} PROVE RequestSafe(s)'
    <3>1. req'[s] = req[s] /\ RequestSafe(s)
      BY <1>1, OthersUnmoved DEF RequestsSafe
    <3> QED
      BY <2>3, <3>1, UnmovedSafe
  <2> QED
    BY <2>2, <2>4 DEF RequestsSafe
<1>2. CASE Restart
  <2>1. \A r \in Req : req'[r] = Idle
    BY <1>2 DEF Restart
  <2> QED
    BY <2>1 DEF RequestsSafe, RequestSafe, RequestOK, StaleOK, Idle, AwaitsOverToken
<1>3. CASE AccountsChange
  BY <1>3, WitnessSafe DEF RequestsSafe
<1>4. CASE CleanupStart \/ CleanupRun \/ CleanupFail \/ Tick \/ UNCHANGED vars
  <2>1. UNCHANGED <<req, everRevoked>> /\ now' \in Nat /\ now <= now'
    BY <1>4 DEF CleanupStart, CleanupRun, CleanupFail, Tick, vars, TypeOK
  <2> QED
    BY <2>1, UnmovedSafe DEF RequestsSafe
<1> QED
  BY <1>1, <1>2, <1>3, <1>4 DEF Next

------------------------------------------------------------------------------
(* Rotation, and who revokes.                                              *)

LEMMA RotationKept ==
    ASSUME RotationChain, UNCHANGED issued, everRevoked \subseteq everRevoked'
    PROVE  RotationChain'
BY DEF RotationChain

LEMMA RotationStep ==
    ASSUME TypeOK, RequestsSafe, RotationChain, [Next]_vars
    PROVE  RotationChain'
<1>1. ASSUME NEW r \in Req, LoginMint(r) \/ RefreshMint(r)
      PROVE  RotationChain'
  <2>1. PICK u, parent :
          /\ MintPair(u, parent)
          /\ parent # 0 => \E p \in issued : /\ p.jti = parent /\ p.jti \in everRevoked
                                            /\ p.tokenType = "refresh" /\ p.sub = u.id
    <3>1. CASE LoginMint(r)
      BY <3>1 DEF LoginMint
    <3>2. CASE RefreshMint(r)
      <4>1. PICK t \in req[r].token, u \in req[r].user : MintPair(u, t.jti)
        BY <3>2 DEF RefreshMint
      <4>2. /\ t \in issued /\ t.tokenType = "refresh"
            /\ t.jti \in everRevoked /\ u.id = t.sub
        BY <3>2, RequestFields DEF RefreshMint, RequestsSafe, RequestSafe, RequestOK
      <4> QED
        BY <4>1, <4>2
    <3> QED
      BY <1>1, <3>1, <3>2
  <2>2. UNCHANGED everRevoked /\ issued \subseteq issued'
    BY <2>1 DEF MintPair
  <2>3. \A t \in issued' \ issued : t.parent = parent /\ t.sub = u.id
    BY <2>1 DEF MintPair, SignedToken
  <2> QED
    BY <2>1, <2>2, <2>3 DEF RotationChain
<1>2. ASSUME NEW r \in Req, Step(r), ~LoginMint(r), ~RefreshMint(r)
      PROVE  UNCHANGED issued
  BY <1>2 DEF Step, LookupUser, ComparePassword, CheckRevoked, FindRefreshUser, RevokeUsed,
              FindBearer, LogoutBegin, RevokeAccess, VerifyLogoutRefresh,
              RevokeLogoutRefresh, OnlyReads, OnlyRevokes
<1>3. ASSUME NEW r \in Req, Arrival(r) \/ DatabaseFault(r) \/ LostAcknowledgement(r)
      PROVE  UNCHANGED issued
  BY <1>3 DEF Arrival, LoginArrive, RefreshArrive, AccessArrive, LogoutArrive, Arrive,
              OnlyReads, DatabaseFault, LostAcknowledgement
<1>4. CASE \E r \in Req : Arrival(r) \/ Step(r) \/ DatabaseFault(r) \/ LostAcknowledgement(r)
  BY <1>1, <1>2, <1>3, <1>4, OthersUnmoved, RotationKept
<1>5. CASE \/ Restart \/ CleanupStart \/ CleanupRun \/ CleanupFail \/ Tick
           \/ AccountsChange \/ UNCHANGED vars
  BY <1>5, RotationKept
     DEF Restart, CleanupStart, CleanupRun, CleanupFail, Tick, AccountsChange, vars
<1> QED
  BY <1>4, <1>5 DEF Next

\* One step of OnlyOwnTokensRevoked.
RevokesOwn ==
    \A t \in issued : t.jti \in everRevoked' \ everRevoked =>
      \E r \in Req : /\ req'[r].pc # req[r].pc
                     /\ \E c \in req[r].token : c.sub = t.sub

LEMMA RevokesOwnStep ==
    ASSUME TypeOK, JtisAreUnique, RequestsSafe, [Next]_vars
    PROVE  RevokesOwn
<1>1. ASSUME NEW r \in Req, NEW c \in issued, Revoke(c), req'[r].pc # req[r].pc,
             \E x \in req[r].token : x.sub = c.sub
      PROVE  RevokesOwn
  <2>1. \A t \in issued : t.jti \in everRevoked' \ everRevoked => t = c
    BY <1>1 DEF Revoke, JtisAreUnique
  <2> QED
    BY <1>1, <2>1 DEF RevokesOwn
<1>2. ASSUME NEW r \in Req, RevokeUsed(r) \/ RevokeAccess(r) \/ RevokeLogoutRefresh(r)
                             \/ LostAcknowledgement(r)
      PROVE  RevokesOwn
  <2>1. req'[r].pc # req[r].pc
    <3>1. req'[r].pc \in {"mint", "verifyRefresh", "done"}
      BY <1>2, GotoFields, AnswerFields, RefuseFields, ZenonT(60)
         DEF RevokeUsed, RevokeAccess, RevokeLogoutRefresh, LostAcknowledgement, Fail
    <3>2. req[r].pc \in {"revoke", "revokeAccess", "revokeRefresh"}
      BY <1>2 DEF RevokeUsed, RevokeAccess, RevokeLogoutRefresh, LostAcknowledgement
    <3> QED
      BY <3>1, <3>2
  <2>2. PICK c \in issued :
          /\ Revoke(c)
          /\ \/ c \in req[r].token
             \/ req[r].pc = "revokeRefresh" /\ c \in req[r].body
    BY <1>2, RequestFields
       DEF RevokeUsed, RevokeAccess, RevokeLogoutRefresh, LostAcknowledgement
  <2>3. \E x \in req[r].token : x.sub = c.sub
    BY <2>2 DEF RequestsSafe, RequestSafe, RequestOK, AwaitsOverToken, SameSubject
  <2> QED
    BY <1>1, <2>1, <2>2, <2>3
<1>3. CASE UNCHANGED everRevoked
  BY <1>3 DEF RevokesOwn
<1>4. ASSUME NEW r \in Req, Step(r), ~RevokeUsed(r), ~RevokeAccess(r),
             ~RevokeLogoutRefresh(r)
      PROVE  UNCHANGED everRevoked
  BY <1>4 DEF Step, LookupUser, ComparePassword, LoginMint, CheckRevoked, FindRefreshUser,
              RefreshMint, FindBearer, LogoutBegin, VerifyLogoutRefresh, OnlyReads, MintPair
<1>5. ASSUME NEW r \in Req, Arrival(r) \/ DatabaseFault(r)
      PROVE  UNCHANGED everRevoked
  BY <1>5 DEF Arrival, LoginArrive, RefreshArrive, AccessArrive, LogoutArrive, Arrive,
              OnlyReads, DatabaseFault
<1>6. CASE \E r \in Req : Arrival(r) \/ Step(r) \/ DatabaseFault(r) \/ LostAcknowledgement(r)
  BY <1>2, <1>3, <1>4, <1>5, <1>6
<1>7. CASE \/ Restart \/ CleanupStart \/ CleanupRun \/ CleanupFail \/ Tick
           \/ AccountsChange \/ UNCHANGED vars
  BY <1>3, <1>7
     DEF Restart, CleanupStart, CleanupRun, CleanupFail, Tick, AccountsChange, vars
<1> QED
  BY <1>6, <1>7 DEF Next

------------------------------------------------------------------------------
(* The theorems.                                                           *)

\* The invariant of the sessions: TypeOK and SessionInv together are inductive.
THEOREM SessionInvariant == Spec => [](TypeOK /\ SessionInv)
<1> DEFINE IInv == TypeOK /\ WorldInv /\ RequestsSafe /\ RotationChain
<1>1. Init => IInv
  <2> SUFFICES ASSUME Init PROVE IInv
    OBVIOUS
  <2>1. TypeOK
    BY InitType
  <2>2. WorldInv /\ RotationChain
    BY DEF Init, WorldInv, JtisAreUnique, RowsMatchTokens, CutoffsArePast,
           RevocationOutlivesToken, RotationChain
  <2>3. RequestsSafe
    BY DEF Init, RequestsSafe, RequestSafe, RequestOK, StaleOK, Idle, AwaitsOverToken
  <2> QED
    BY <2>1, <2>2, <2>3
<1>2. IInv /\ [Next]_vars => IInv'
  <2> SUFFICES ASSUME IInv, [Next]_vars PROVE IInv'
    OBVIOUS
  <2>1. TypeOK'
    BY ArrivalType, StepType, FaultType, SystemType, AccountsChangeType, StutterType DEF Next
  <2> QED
    BY <2>1, WorldStep, RequestsStep, RotationStep
<1>3. IInv => TypeOK /\ SessionInv
  BY DEF WorldInv, RequestsSafe, RequestSafe, StaleOK, SessionInv, RequestInv,
         StaleCredentialRejected
<1> QED
  BY <1>1, <1>2, <1>3, PTL DEF Spec

\* With the revocations in the database, a revoked token stays revoked until it
\* expires, whatever cleanups, restarts and failed calls happen.
THEOREM RevocationsLast == Spec => [](Backend = "database" => RevocationOutlivesToken)
<1>1. SessionInv => (Backend = "database" => RevocationOutlivesToken)
  BY DEF SessionInv
<1> QED
  BY <1>1, SessionInvariant, PTL

\* A request that arrives with a revoked token passes the check only once the
\* token has expired.
THEOREM StaleRejected == Spec => [](Backend = "database" => StaleCredentialRejected)
<1>1. SessionInv => (Backend = "database" => StaleCredentialRejected)
  BY DEF SessionInv
<1> QED
  BY <1>1, SessionInvariant, PTL

\* A pair obtained by refresh belongs to the account of the token exchanged,
\* which was revoked first, failures and restarts included.
THEOREM Rotation == Spec => []RotationChain
<1>1. SessionInv => RotationChain
  BY DEF SessionInv
<1> QED
  BY <1>1, SessionInvariant, PTL

\* No step revokes a token of an account other than its request's.
THEOREM OwnTokensOnly == Spec => OnlyOwnTokensRevoked
<1>1. TypeOK /\ SessionInv /\ [Next]_vars => [RevokesOwn]_vars
  <2> SUFFICES ASSUME TypeOK, SessionInv, [Next]_vars PROVE RevokesOwn
    OBVIOUS
  <2>1. JtisAreUnique /\ RequestsSafe
    BY DEF SessionInv, RequestInv, RequestsSafe, RequestSafe, StaleOK, StaleCredentialRejected
  <2> QED
    BY <2>1, RevokesOwnStep
<1> QED
  BY <1>1, SessionInvariant, PTL DEF Spec, OnlyOwnTokensRevoked, RevokesOwn

=============================================================================
