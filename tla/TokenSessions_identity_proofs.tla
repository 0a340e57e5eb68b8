--------------------- MODULE TokenSessions_identity_proofs ---------------------
(***************************************************************************)
(* Theorems about TokenSessions: under which identity a request acts and   *)
(* mints tokens while accounts change, and what a logout has done when it  *)
(* answers.                                                                *)
(***************************************************************************)
EXTENDS TokenSessions_proofs

------------------------------------------------------------------------------
(* The inductive invariant behind the answers.                             *)

\* What stands behind an identity: while a request is under way it witnesses every
\* row of the table, and past the lookup of its subject it acts as a row it has
\* seen, the one its credential names.
OwnerFound(q) ==
    \/ q.pc \in {"compare", "revoke", "mint", "begin", "revokeAccess", "verifyRefresh",
                 "revokeRefresh"}
    \/ q.pc = "done" /\ q.status \in {200, 204}

\* The row u is the one the credentials of q name.
Names(q, u) == \A t \in q.token : u.id = t.sub /\ (q.op # "refresh" => u.email = t.email)

IdentityOK(q) ==
    /\ q.pc \notin {"idle", "done"} => users \subseteq q.seen
    /\ q.user \subseteq q.seen
    /\ OwnerFound(q) => q.user # {} /\ \A u \in q.user : Names(q, u)

\* Whatever fails, logout revokes the access token before it answers 204; the
\* refresh token it may leave alone only because a call of the database failed.
LogoutOK(q) ==
    /\ q.pc \in {"verifyRefresh", "revokeRefresh"} \/ (q.pc = "done" /\ q.status = 204) =>
         \A t \in q.token : t.jti \in everRevoked
    /\ q.pc = "done" /\ q.status = 204 /\ faults = 0 =>
         \A b \in q.body : Verifies(b, "refresh") => b.jti \in everRevoked

AnswersInv == \A r \in Req : IdentityOK(req[r]) /\ LogoutOK(req[r])

AnswerOK(r) == IdentityOK(req[r]) /\ LogoutOK(req[r])

------------------------------------------------------------------------------
(* What a move keeps of the request.                                       *)

\* No move forgets a row witnessed, and only a lookup changes the identity.
LEMMA SeenKept ==
    ASSUME TypeOK, NEW r \in Req
    PROVE  /\ \A pc : Goto(r, pc) =>
                req'[r].seen = req[r].seen /\ req'[r].user = req[r].user
           /\ \A pc, u : GotoWith(r, pc, u) =>
                req'[r].seen = req[r].seen /\ req'[r].user = {u}
           /\ \A status : Answer(r, status) =>
                req'[r].seen = req[r].seen /\ req'[r].user = req[r].user
           /\ \A u : Grant(r, u) =>
                req'[r].seen = req[r].seen /\ req'[r].user = {u}
<1>1. req \in [Req -> Request] /\ req[r] \in Request
  BY DEF TypeOK
<1>2. ASSUME NEW pc, Goto(r, pc)
      PROVE  req'[r].seen = req[r].seen /\ req'[r].user = req[r].user
  BY <1>1, <1>2 DEF Goto, Request
<1>3. ASSUME NEW pc, NEW u, GotoWith(r, pc, u)
      PROVE  req'[r].seen = req[r].seen /\ req'[r].user = {u}
  BY <1>1, <1>3 DEF GotoWith, Request
<1>4. ASSUME NEW status, Answer(r, status)
      PROVE  req'[r].seen = req[r].seen /\ req'[r].user = req[r].user
  BY <1>1, <1>4 DEF Answer, Request
<1>5. ASSUME NEW u, Grant(r, u)
      PROVE  req'[r].seen = req[r].seen /\ req'[r].user = {u}
  BY <1>1, <1>5 DEF Grant, Request
<1> QED
  BY <1>2, <1>3, <1>4, <1>5

\* A refused request keeps neither a credential nor an identity.
LEMMA RefusalOK ==
    ASSUME TypeOK, NEW r \in Req, NEW status \in {400, 401, 500}, Refuse(r, status)
    PROVE  AnswerOK(r)'
<1>1. /\ req'[r].pc = "done" /\ req'[r].token = {} /\ req'[r].body = {}
      /\ req'[r].user = {} /\ req'[r].status = status
  BY DEF Refuse, Idle, TypeOK
<1> QED
  BY <1>1 DEF AnswerOK, IdentityOK, OwnerFound, LogoutOK

\* A request that a step leaves alone: the table is the same, nothing revoked
\* is forgotten, and the clock does not run back.
LEMMA UnmovedAnswer ==
    ASSUME TypeOK, NEW r \in Req, AnswerOK(r), UNCHANGED <<req[r], users>>,
           everRevoked \subseteq everRevoked', now' \in Nat, now <= now',
           faults' = 0 => faults = 0
    PROVE  AnswerOK(r)'
<1>1. IdentityOK(req[r])'
  BY DEF AnswerOK, IdentityOK, OwnerFound, Names
<1>2. \A b \in req[r].body : b.exp \in Nat
  BY RequestFields DEF TypeOK, Token
<1>3. \A b \in req[r].body : Verifies(b, "refresh")' => Verifies(b, "refresh")
  BY <1>2 DEF Verifies, TypeOK
<1>4. LogoutOK(req[r])'
  BY <1>3 DEF AnswerOK, LogoutOK
<1> QED
  BY <1>1, <1>4 DEF AnswerOK

\* Before the subject is looked up there is only the table to witness.
LEMMA EarlyAnswer ==
    ASSUME NEW r \in Req, AnswerOK(r), Pending(r), MovedOnly(r), UNCHANGED users,
           req'[r].seen = req[r].seen, req'[r].user \subseteq req[r].seen,
           req'[r].pc = "find"
    PROVE  AnswerOK(r)'
BY DEF AnswerOK, IdentityOK, OwnerFound, LogoutOK, Pending, MovedOnly

\* From the lookup on, the request carries its owner along.
LEMMA LaterAnswer ==
    ASSUME NEW r \in Req, AnswerOK(r), Pending(r), MovedOnly(r), UNCHANGED users,
           req'[r].seen = req[r].seen, req'[r].user \subseteq req[r].seen,
           req'[r].user # {}, \A u \in req'[r].user : Names(req[r], u), LogoutOK(req[r])'
    PROVE  AnswerOK(r)'
BY DEF AnswerOK, IdentityOK, Names, Pending, MovedOnly

\* A move to a point where logout has promised nothing yet.
LEMMA NoPromise ==
    ASSUME NEW r \in Req,
           \/ req'[r].pc \in {"compare", "find", "revoke", "mint", "begin", "revokeAccess"}
           \/ req'[r].pc = "done" /\ req'[r].status = 200
    PROVE  LogoutOK(req[r])'
BY DEF LogoutOK

------------------------------------------------------------------------------
(* The steps of a request.                                                 *)

LEMMA ArrivalAnswers ==
    ASSUME TypeOK, NEW r \in Req, Arrival(r)
    PROVE  AnswerOK(r)'
<1>1. PICK op, t, body, verified, first :
        Arrive(r, op, t, body, verified, first) /\ first \in {"lookup", "check"}
  BY DEF Arrival, LoginArrive, RefreshArrive, AccessArrive, LogoutArrive
<1>2. CASE Refuse(r, 401)
  BY <1>2, RefusalOK
<1>3. CASE ~Refuse(r, 401)
  <2> DEFINE replay == \E c \in t : c.jti \in everRevoked
             entered == [Idle EXCEPT !.op = op, !.pc = first, !.token = t, !.body = body,
                             !.seen = users, !.replayed = replay]
  <2>1. req' = [req EXCEPT ![r] = entered] /\ UNCHANGED users
    BY <1>1, <1>3 DEF Arrive, OnlyReads
  <2>2. req'[r] = entered
    BY <2>1 DEF TypeOK
  <2>3. req'[r].pc = first /\ req'[r].user = {} /\ req'[r].seen = users
    <3> HIDE DEF replay
    <3> QED
      BY <2>2 DEF Idle
  <2> QED
    BY <1>1, <2>1, <2>3 DEF AnswerOK, IdentityOK, OwnerFound, LogoutOK
<1> QED
  BY <1>2, <1>3

LEMMA LoginAnswers ==
    ASSUME TypeOK, NEW r \in Req, RequestOK(req[r]), AnswerOK(r),
           LookupUser(r) \/ ComparePassword(r) \/ LoginMint(r)
    PROVE  AnswerOK(r)'
<1>1. Pending(r) /\ UNCHANGED users /\ users \subseteq req[r].seen
      /\ req[r].user \subseteq req[r].seen
  BY DEF LookupUser, ComparePassword, LoginMint, OnlyReads, MintPair, Pending, AnswerOK,
         IdentityOK
<1>2. CASE LookupUser(r)
  <2>1. CASE Refuse(r, 401)
    BY <2>1, RefusalOK
  <2>2. CASE \E u \in users : GotoWith(r, "compare", u)
    <3>1. PICK u \in users : GotoWith(r, "compare", u)
      BY <2>2
    <3>2. req[r].token = {}
      BY <1>2 DEF LookupUser, RequestOK
    <3>3. MovedOnly(r) /\ req'[r].seen = req[r].seen /\ req'[r].user = {u}
      BY <3>1, GotoWithFields, SeenKept
    <3>4. LogoutOK(req[r])'
      BY <3>1, GotoWithFields, NoPromise
    <3> QED
      BY <1>1, <3>2, <3>3, <3>4, LaterAnswer DEF Names
  <2> QED
    BY <1>2, <2>1, <2>2 DEF LookupUser
<1>3. CASE ComparePassword(r) \/ LoginMint(r)
  <2>1. CASE Refuse(r, 401)
    BY <2>1, RefusalOK
  <2>2. CASE Goto(r, "mint") \/ Answer(r, 200)
    <3>1. OwnerFound(req[r])
      BY <1>3 DEF ComparePassword, LoginMint, OwnerFound
    <3>2. MovedOnly(r) /\ req'[r].seen = req[r].seen /\ req'[r].user = req[r].user
      BY <2>2, GotoFields, AnswerFields, SeenKept
    <3>3. LogoutOK(req[r])'
      BY <2>2, GotoFields, AnswerFields, NoPromise
    <3> QED
      BY <1>1, <3>1, <3>2, <3>3, LaterAnswer DEF AnswerOK, IdentityOK
  <2> QED
    BY <1>3, <2>1, <2>2 DEF ComparePassword, LoginMint
<1> QED
  BY <1>2, <1>3

LEMMA CheckAnswers ==
    ASSUME TypeOK, NEW r \in Req, AnswerOK(r), CheckRevoked(r)
    PROVE  AnswerOK(r)'
<1>1. Pending(r) /\ UNCHANGED users /\ req[r].user \subseteq req[r].seen
  BY DEF CheckRevoked, OnlyReads, Pending, AnswerOK, IdentityOK
<1>2. Refuse(r, 401) \/ Goto(r, "find")
  BY DEF CheckRevoked
<1>3. CASE Goto(r, "find")
  BY <1>1, <1>3, GotoFields, SeenKept, EarlyAnswer
<1> QED
  BY <1>2, <1>3, RefusalOK

\* The row found is one of the table, which the request has witnessed.
LEMMA FindAnswers ==
    ASSUME TypeOK, NEW r \in Req, RequestOK(req[r]), AnswerOK(r),
           FindRefreshUser(r) \/ FindBearer(r)
    PROVE  AnswerOK(r)'
<1>1. Pending(r) /\ UNCHANGED users /\ users \subseteq req[r].seen
  BY DEF FindRefreshUser, FindBearer, OnlyReads, Pending, AnswerOK, IdentityOK
<1>2. \A s, t \in req[r].token : s = t
  BY DEF RequestOK
<1>3. ASSUME NEW t \in req[r].token, NEW u \in users, u.id = t.sub,
             req[r].op # "refresh" => u.email = t.email,
             GotoWith(r, "revoke", u) \/ GotoWith(r, "begin", u) \/ Grant(r, u)
      PROVE  AnswerOK(r)'
  <2>1. MovedOnly(r) /\ req'[r].seen = req[r].seen /\ req'[r].user = {u}
    BY <1>3, GotoWithFields, GrantFields, SeenKept
  <2>2. LogoutOK(req[r])'
    BY <1>3, GotoWithFields, GrantFields, NoPromise
  <2> QED
    BY <1>1, <1>2, <1>3, <2>1, <2>2, LaterAnswer DEF Names
<1>4. CASE Refuse(r, 401)
  BY <1>4, RefusalOK
<1>5. CASE FindRefreshUser(r) /\ ~Refuse(r, 401)
  <2>1. PICK t \in req[r].token : \E u \in WithId(t.sub) : GotoWith(r, "revoke", u)
    BY <1>5 DEF FindRefreshUser
  <2> QED
    BY <1>3, <1>5, <2>1 DEF FindRefreshUser, WithId
<1>6. CASE FindBearer(r) /\ ~Refuse(r, 401)
  <2>1. PICK t \in req[r].token :
          \E u \in Owner(t) : GotoWith(r, "begin", u) \/ Grant(r, u)
    BY <1>6 DEF FindBearer
  <2> QED
    BY <1>3, <2>1 DEF Owner, WithId
<1> QED
  BY <1>4, <1>5, <1>6

LEMMA RefreshAnswers ==
    ASSUME TypeOK, NEW r \in Req, AnswerOK(r), RevokeUsed(r) \/ RefreshMint(r)
    PROVE  AnswerOK(r)'
<1>1. Pending(r) /\ UNCHANGED users /\ OwnerFound(req[r])
  BY DEF RevokeUsed, RefreshMint, OnlyRevokes, MintPair, Pending, OwnerFound
<1>2. Goto(r, "mint") \/ Answer(r, 200)
  BY DEF RevokeUsed, RefreshMint
<1>3. MovedOnly(r) /\ req'[r].seen = req[r].seen /\ req'[r].user = req[r].user
  BY <1>2, GotoFields, AnswerFields, SeenKept
<1>4. LogoutOK(req[r])'
  BY <1>2, GotoFields, AnswerFields, NoPromise
<1> QED
  BY <1>1, <1>3, <1>4, LaterAnswer DEF AnswerOK, IdentityOK

LEMMA LogoutAnswers ==
    ASSUME TypeOK, NEW r \in Req, RequestOK(req[r]), AnswerOK(r),
           LogoutBegin(r) \/ RevokeAccess(r) \/ VerifyLogoutRefresh(r)
             \/ RevokeLogoutRefresh(r)
    PROVE  AnswerOK(r)'
<1>1. Pending(r) /\ UNCHANGED users /\ OwnerFound(req[r])
  BY DEF LogoutBegin, RevokeAccess, VerifyLogoutRefresh, RevokeLogoutRefresh, OnlyReads,
         OnlyRevokes, Pending, OwnerFound
<1>2. \A s, t \in req[r].token : s = t
  BY DEF RequestOK
<1>3. \A a, b \in req[r].body : a = b
  BY DEF RequestOK
<1>4. ASSUME NEW pc \in Pc, Goto(r, pc) \/ Answer(r, 204), LogoutOK(req[r])'
      PROVE  AnswerOK(r)'
  <2>1. MovedOnly(r) /\ req'[r].seen = req[r].seen /\ req'[r].user = req[r].user
    BY <1>4, GotoFields, AnswerFields, SeenKept
  <2> QED
    BY <1>1, <1>4, <2>1, LaterAnswer DEF AnswerOK, IdentityOK
<1>5. CASE Refuse(r, 400) \/ Refuse(r, 401)
  BY <1>5, RefusalOK
<1>6. CASE Goto(r, "revokeAccess")
  <2>1. LogoutOK(req[r])'
    BY <1>6, GotoFields, NoPromise
  <2> QED
    BY <1>4, <1>6, <2>1 DEF Pc
<1>7. CASE RevokeAccess(r)
  <2>1. PICK t \in req[r].token : Revoke(t)
    BY <1>7 DEF RevokeAccess
  <2>2. \A c \in req[r].token : c.jti \in everRevoked'
    BY <1>2, <2>1 DEF Revoke
  <2>3. \/ Goto(r, "verifyRefresh")
        \/ Answer(r, 204) /\ req[r].body = {}
    BY <1>7 DEF RevokeAccess
  <2>4. LogoutOK(req[r])'
    BY <2>2, <2>3, GotoFields, AnswerFields DEF LogoutOK, MovedOnly
  <2> QED
    BY <1>4, <2>3, <2>4 DEF Pc
<1>8. CASE VerifyLogoutRefresh(r) /\ ~Refuse(r, 401)
  <2>1. \A t \in req[r].token : t.jti \in everRevoked
    BY <1>8 DEF VerifyLogoutRefresh, AnswerOK, LogoutOK
  <2>2. UNCHANGED <<everRevoked, now>>
    BY <1>8 DEF VerifyLogoutRefresh, OnlyReads
  <2>3. \/ Goto(r, "revokeRefresh")
        \/ Answer(r, 204) /\ \A b \in req[r].body : ~Verifies(b, "refresh")
    BY <1>3, <1>8 DEF VerifyLogoutRefresh
  <2>4. LogoutOK(req[r])'
    BY <2>1, <2>2, <2>3, GotoFields, AnswerFields DEF LogoutOK, MovedOnly, Verifies
  <2> QED
    BY <1>4, <2>3, <2>4 DEF Pc
<1>9. CASE RevokeLogoutRefresh(r)
  <2>1. \A t \in req[r].token : t.jti \in everRevoked
    BY <1>9 DEF RevokeLogoutRefresh, AnswerOK, LogoutOK
  <2>2. PICK b \in req[r].body : Revoke(b)
    BY <1>9 DEF RevokeLogoutRefresh
  <2>3. /\ \A t \in req[r].token : t.jti \in everRevoked'
        /\ \A c \in req[r].body : c.jti \in everRevoked'
    BY <1>3, <2>1, <2>2 DEF Revoke
  <2>4. Answer(r, 204)
    BY <1>9 DEF RevokeLogoutRefresh
  <2>5. LogoutOK(req[r])'
    BY <2>3, <2>4, AnswerFields DEF LogoutOK, MovedOnly
  <2> QED
    BY <1>4, <2>4, <2>5 DEF Pc
<1> QED
  BY <1>5, <1>6, <1>7, <1>8, <1>9 DEF LogoutBegin

\* The only failure answered as a success is the one of the second revocation of
\* logout, and it is counted.
LEMMA FaultAnswers ==
    ASSUME TypeOK, NEW r \in Req, AnswerOK(r),
           DatabaseFault(r) \/ LostAcknowledgement(r)
    PROVE  AnswerOK(r)'
<1>1. UNCHANGED users /\ faults' = faults + 1 /\ Fail(r) /\ everRevoked \subseteq everRevoked'
  BY DEF DatabaseFault, LostAcknowledgement, Revoke
<1>2. CASE Refuse(r, 401) \/ Refuse(r, 500)
  BY <1>2, RefusalOK
<1>3. CASE req[r].pc = "revokeRefresh" /\ Answer(r, 204)
  <2>1. Pending(r) /\ OwnerFound(req[r])
    BY <1>3 DEF Pending, OwnerFound
  <2>2. faults' # 0
    BY <1>1 DEF TypeOK
  <2>3. \A t \in req[r].token : t.jti \in everRevoked'
    BY <1>1, <1>3 DEF AnswerOK, LogoutOK
  <2>4. MovedOnly(r) /\ req'[r].seen = req[r].seen /\ req'[r].user = req[r].user
    BY <1>3, AnswerFields, SeenKept
  <2>5. LogoutOK(req[r])'
    BY <2>2, <2>3, <2>4, <1>3, AnswerFields DEF LogoutOK, MovedOnly
  <2> QED
    BY <1>1, <2>1, <2>4, <2>5, LaterAnswer DEF AnswerOK, IdentityOK
<1> QED
  BY <1>1, <1>2, <1>3 DEF Fail

------------------------------------------------------------------------------
(* The invariant.                                                          *)

\* The table and the count of failures under a step of some request.
LEMMA QuietTable ==
    ASSUME TypeOK, NEW r \in Req,
           Arrival(r) \/ Step(r) \/ DatabaseFault(r) \/ LostAcknowledgement(r)
    PROVE  UNCHANGED users /\ (faults' = 0 => faults = 0)
<1>1. CASE Arrival(r)
  BY <1>1 DEF Arrival, LoginArrive, RefreshArrive, AccessArrive, LogoutArrive, Arrive,
              OnlyReads
<1>2. CASE Step(r)
  BY <1>2 DEF Step, LookupUser, ComparePassword, LoginMint, CheckRevoked, FindRefreshUser,
              RevokeUsed, RefreshMint, FindBearer, LogoutBegin, RevokeAccess,
              VerifyLogoutRefresh, RevokeLogoutRefresh, OnlyReads, OnlyRevokes, MintPair
<1>3. CASE DatabaseFault(r) \/ LostAcknowledgement(r)
  BY <1>3 DEF DatabaseFault, LostAcknowledgement, TypeOK
<1> QED
  BY <1>1, <1>2, <1>3

\* A request under way witnesses the change of an account; one that is over
\* keeps what it has seen.
LEMMA WitnessAnswers ==
    ASSUME TypeOK, AccountsChange, NEW r \in Req, AnswerOK(r)
    PROVE  AnswerOK(r)'
<1>1. req[r] \in Request /\ UNCHANGED <<now, everRevoked, faults>>
  BY DEF TypeOK, AccountsChange
<1>2. req'[r] = IF Pending(r) THEN [req[r] EXCEPT !.seen = @ \union users'] ELSE req[r]
  BY DEF AccountsChange
<1>3. /\ req'[r].pc = req[r].pc /\ req'[r].op = req[r].op
      /\ req'[r].token = req[r].token /\ req'[r].body = req[r].body
      /\ req'[r].user = req[r].user /\ req'[r].status = req[r].status
  BY <1>1, <1>2 DEF Request
<1>4. req[r].seen \subseteq req'[r].seen /\ (Pending(r) => users' \subseteq req'[r].seen)
  BY <1>1, <1>2 DEF Request
<1>5. IdentityOK(req[r])'
  BY <1>3, <1>4 DEF AnswerOK, IdentityOK, OwnerFound, Names, Pending
<1>6. LogoutOK(req[r])'
  BY <1>1, <1>3 DEF AnswerOK, LogoutOK, Verifies
<1> QED
  BY <1>5, <1>6 DEF AnswerOK

LEMMA AnswersStep ==
    ASSUME TypeOK, RequestInv, AnswersInv, [Next]_vars
    PROVE  AnswersInv'
<1>1. ASSUME NEW r \in Req,
             Arrival(r) \/ Step(r) \/ DatabaseFault(r) \/ LostAcknowledgement(r)
      PROVE  AnswersInv'
  <2>1. RequestOK(req[r]) /\ AnswerOK(r)
    BY DEF RequestInv, AnswersInv, AnswerOK
  <2>2. AnswerOK(r)'
    BY <1>1, <2>1, ArrivalAnswers, LoginAnswers, CheckAnswers, FindAnswers, RefreshAnswers,
       LogoutAnswers, FaultAnswers DEF Step
  <2>3. ASSUME NEW s \in Req \ {r} PROVE AnswerOK(s)'
    <3>1. UNCHANGED req[s] /\ now' = now /\ everRevoked \subseteq everRevoked'
      BY <1>1, OthersUnmoved
    <3>2. now' \in Nat /\ now <= now'
      BY <3>1 DEF TypeOK
    <3>3. UNCHANGED users /\ (faults' = 0 => faults = 0)
      BY <1>1, QuietTable
    <3>4. AnswerOK(s)
      BY DEF AnswersInv, AnswerOK
    <3> QED
      BY <3>1, <3>2, <3>3, <3>4, UnmovedAnswer
  <2> QED
    BY <2>2, <2>3 DEF AnswersInv, AnswerOK
<1>2. CASE Restart
  <2>1. \A r \in Req : req'[r] = Idle
    BY <1>2 DEF Restart
  <2> QED
    BY <2>1 DEF AnswersInv, IdentityOK, OwnerFound, LogoutOK, Idle
<1>3. CASE AccountsChange
  BY <1>3, WitnessAnswers DEF AnswersInv, AnswerOK
<1>4. CASE CleanupStart \/ CleanupRun \/ CleanupFail \/ Tick \/ UNCHANGED vars
  <2>1. UNCHANGED <<req, users, everRevoked>> /\ now' \in Nat /\ now <= now'
        /\ (faults' = 0 => faults = 0)
    BY <1>4 DEF CleanupStart, CleanupRun, CleanupFail, Tick, vars, TypeOK
  <2> QED
    BY <2>1, UnmovedAnswer DEF AnswersInv, AnswerOK
<1> QED
  BY <1>1, <1>2, <1>3, <1>4 DEF Next

LEMMA AnswersInvariant == Spec => [](TypeOK /\ SessionInv /\ AnswersInv)
<1>1. Init => AnswersInv
  BY DEF Init, AnswersInv, IdentityOK, OwnerFound, LogoutOK, Idle
<1>2. TypeOK /\ SessionInv /\ AnswersInv /\ [Next]_vars => AnswersInv'
  BY AnswersStep DEF SessionInv
<1> QED
  BY <1>1, <1>2, SessionInvariant, PTL DEF Spec

------------------------------------------------------------------------------
(* The theorems.                                                           *)

\* The account a request acts as, or mints tokens for, is a row the table had since
\* the request arrived, and the row its credential names: the lookup that every
\* bearer request repeats makes deletions, renames and demotions take effect.
THEOREM IdentityIsCurrent == Spec => []GrantedIdentityIsCurrent
<1>1. AnswersInv => GrantedIdentityIsCurrent
  BY DEF AnswersInv, IdentityOK, OwnerFound, Names, Accepted, GrantedIdentityIsCurrent
<1> QED
  BY <1>1, AnswersInvariant, PTL

\* A logout answered 204 has revoked both tokens unless a call of the database
\* failed meanwhile, for any number of failures the service meets elsewhere.
THEOREM LogoutRevokes == Spec => [](faults = 0 => LogoutRevokesBoth)
<1>1. AnswersInv => (faults = 0 => LogoutRevokesBoth)
  BY DEF AnswersInv, LogoutOK, LogoutRevokesBoth
<1> QED
  BY <1>1, AnswersInvariant, PTL

\* One step of MintedClaimsAreCurrent.
MintsCurrent ==
    \A t \in issued' \ issued :
      \E r \in Req :
        /\ req[r].pc = "mint" /\ req'[r].pc = "done"
        /\ [id |-> t.sub, email |-> t.email, role |-> t.role] \in req[r].seen
        /\ \A c \in req[r].token : c.sub = t.sub

LEMMA MintsCurrentStep ==
    ASSUME TypeOK, RequestInv, AnswersInv, [Next]_vars
    PROVE  MintsCurrent
<1>1. ASSUME NEW r \in Req, LoginMint(r) \/ RefreshMint(r)
      PROVE  MintsCurrent
  <2>1. PICK u, parent : u \in req[r].user /\ MintPair(u, parent)
    BY <1>1 DEF LoginMint, RefreshMint
  <2>2. u \in req[r].seen /\ u \in UserRow
    BY <2>1, RequestFields DEF AnswersInv, IdentityOK
  <2>3. req[r].pc = "mint" /\ req'[r].pc = "done"
    BY <1>1, AnswerFields DEF LoginMint, RefreshMint
  <2>4. \A c \in req[r].token : c.sub = u.id
    BY <1>1, <2>1 DEF RequestInv, RequestOK, LoginMint, RefreshMint
  <2>5. \A t \in issued' \ issued : t.sub = u.id /\ t.email = u.email /\ t.role = u.role
    BY <2>1 DEF MintPair, SignedToken
  <2>6. u = [id |-> u.id, email |-> u.email, role |-> u.role]
    BY <2>2 DEF UserRow
  <2> QED
    BY <2>2, <2>3, <2>4, <2>5, <2>6 DEF MintsCurrent
<1>2. CASE UNCHANGED issued
  BY <1>2 DEF MintsCurrent
<1>3. ASSUME NEW r \in Req, Step(r), ~LoginMint(r), ~RefreshMint(r)
      PROVE  UNCHANGED issued
  BY <1>3 DEF Step, LookupUser, ComparePassword, CheckRevoked, FindRefreshUser, RevokeUsed,
              FindBearer, LogoutBegin, RevokeAccess, VerifyLogoutRefresh,
              RevokeLogoutRefresh, OnlyReads, OnlyRevokes
<1>4. ASSUME NEW r \in Req, Arrival(r) \/ DatabaseFault(r) \/ LostAcknowledgement(r)
      PROVE  UNCHANGED issued
  BY <1>4 DEF Arrival, LoginArrive, RefreshArrive, AccessArrive, LogoutArrive, Arrive,
              OnlyReads, DatabaseFault, LostAcknowledgement
<1>5. CASE \/ Restart \/ CleanupStart \/ CleanupRun \/ CleanupFail \/ Tick
           \/ AccountsChange \/ UNCHANGED vars
  BY <1>2, <1>5
     DEF Restart, CleanupStart, CleanupRun, CleanupFail, Tick, AccountsChange, vars
<1> QED
  BY <1>1, <1>2, <1>3, <1>4, <1>5 DEF Next

\* Every token is signed, by a request that has been asked for it, over the very
\* row its account had during that request: login and refresh mint fresh claims,
\* and a refresh those of the same account.
THEOREM ClaimsAreCurrent == Spec => MintedClaimsAreCurrent
<1>1. TypeOK /\ SessionInv /\ AnswersInv /\ [Next]_vars => [MintsCurrent]_vars
  BY MintsCurrentStep DEF SessionInv
<1> QED
  BY <1>1, AnswersInvariant, PTL DEF Spec, MintedClaimsAreCurrent, MintsCurrent

=============================================================================
