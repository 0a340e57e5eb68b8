-------------------- MODULE TokenSessions_ledger_proofs --------------------
(***************************************************************************)
(* With the revocations in the database, the sessions implement            *)
(* SessionLedger: a store that forgets expired rows, statements that fail  *)
(* before or after they take effect, restarts and overlapping cleanups are *)
(* together no different from a ledger that forgets nothing.               *)
(***************************************************************************)
EXTENDS TokenSessions_proofs

------------------------------------------------------------------------------
(* Where a request stands in the ledger.                                   *)

LEMMA StandingFree ==
    ASSUME NEW q, q.token = {} \/ q.pc = "idle"
    PROVE  Standing(q) = Ledger!Free
BY DEF Standing, Ledger!Free

LEMMA StandingAt ==
    ASSUME NEW q, NEW t, q.token = {t}, q.pc # "idle"
    PROVE  /\ q.pc = "check" => Standing(q) = Ledger!At("presented", t)
           /\ q.pc = "done" => Standing(q) = Ledger!At("granted", t)
           /\ q.pc \notin {"check", "done"} => Standing(q) = Ledger!At("accepted", t)
BY DEF Standing, Ledger!At

\* Requests that await something hold one token, or none while they log in.
LEMMA TokenOrLogin ==
    ASSUME TypeOK, NEW r \in Req, RequestOK(req[r]), NEW t \in req[r].token
    PROVE  req[r].token = {t}
BY DEF RequestOK

\* The requests as the ledger has them.
LEMMA StandingIs ==
    ASSUME NEW r \in Req, NEW phase, NEW t, Standing(req[r]) = Ledger!At(phase, t)
    PROVE  Ledger!Is(r, phase, t)
BY DEF Ledger!Is

LEMMA MovesTo ==
    ASSUME NEW r \in Req, NEW s, \A x \in Req \ {r} : req'[x] = req[x],
           Standing(req'[r]) = s
    PROVE  Ledger!Move(r, s)
BY DEF Ledger!Move

LEMMA Drops ==
    ASSUME UNCHANGED <<now, issued, everRevoked>>,
           \A x \in Req : Standing(req'[x]) \in {Standing(req[x]), Ledger!Free}
    PROVE  Ledger!Drop
BY DEF Ledger!Drop

LEMMA OneDrops ==
    ASSUME UNCHANGED <<now, issued, everRevoked>>, NEW r \in Req,
           \A x \in Req \ {r} : req'[x] = req[x],
           Standing(req'[r]) \in {Standing(req[r]), Ledger!Free}
    PROVE  Ledger!Drop
BY Drops

LEMMA RefuseDrops ==
    ASSUME TypeOK, UNCHANGED <<now, issued, everRevoked>>, NEW r \in Req, NEW status,
           Refuse(r, status)
    PROVE  Ledger!Drop
BY RefuseFields, StandingFree, OneDrops

------------------------------------------------------------------------------
(* Each step of a request is a step of the ledger.                         *)

LEMMA ArrivalPresents ==
    ASSUME TypeOK, NEW r \in Req, RequestOK(req[r]), Arrival(r)
    PROVE  Ledger!LedgerNext
<1>1. UNCHANGED <<now, issued, everRevoked>> /\ ~Pending(r)
  BY DEF Arrival, LoginArrive, RefreshArrive, AccessArrive, LogoutArrive, Arrive, OnlyReads
<1>2. \A x \in Req \ {r} : req'[x] = req[x]
  BY OthersUnmoved
<1>3. Standing(req[r]).phase \in {"free", "granted"}
  <2>1. req[r].pc \in {"idle", "done"}
    BY <1>1 DEF Pending
  <2> QED
    BY <2>1 DEF Standing
<1>4. ASSUME NEW op, NEW t \in issued, NEW body, NEW type, NEW first,
             Arrive(r, op, {t}, body, Verifies(t, type), "check")
      PROVE  Ledger!LedgerNext
  <2>1. CASE Refuse(r, 401)
    BY <1>1, <2>1, RefuseDrops DEF Ledger!LedgerNext
  <2>2. CASE ~Refuse(r, 401)
    <3>1. Verifies(t, type) /\ req'[r].pc = "check" /\ req'[r].token = {t}
      BY <1>4, <2>2, ZenonT(60) DEF Arrive, Idle, TypeOK
    <3>2. Ledger!Move(r, Ledger!At("presented", t))
      BY <1>2, <3>1, StandingAt, MovesTo
    <3>3. Ledger!Present(r, t)
      BY <1>1, <1>3, <3>1, <3>2 DEF Ledger!Present, Ledger!Expired, Verifies, TypeOK, Token
    <3> QED
      BY <3>3 DEF Ledger!LedgerNext
  <2> QED
    BY <2>1, <2>2
<1>5. CASE LoginArrive(r)
  <2>1. req'[r].token = {}
    <3>1. CASE Refuse(r, 401)
      BY <3>1, RefuseFields
    <3>2. CASE ~Refuse(r, 401)
      BY <1>5, <3>2, ZenonT(60) DEF LoginArrive, Arrive, Idle, TypeOK
    <3> QED
      BY <3>1, <3>2
  <2> QED
    BY <1>1, <1>2, <2>1, StandingFree, OneDrops DEF Ledger!LedgerNext
<1> QED
  BY <1>4, <1>5 DEF Arrival, RefreshArrive, AccessArrive, LogoutArrive

\* The check takes effect at the instant the store answers.
LEMMA CheckAccepts ==
    ASSUME TypeOK, WorldInv, Backend = "database", NEW r \in Req, RequestOK(req[r]),
           CheckRevoked(r)
    PROVE  Ledger!LedgerNext
<1>1. PICK t \in req[r].token :
        IF IsBlacklisted(t.jti) THEN Refuse(r, 401) ELSE Goto(r, "find")
  BY DEF CheckRevoked
<1>2. UNCHANGED <<now, issued, everRevoked>> /\ req[r].token = {t}
  BY TokenOrLogin DEF CheckRevoked, OnlyReads
<1>3. CASE IsBlacklisted(t.jti)
  BY <1>1, <1>2, <1>3, RefuseDrops DEF Ledger!LedgerNext
<1>4. CASE ~IsBlacklisted(t.jti)
  <2>1. MovedOnly(r) /\ req'[r].pc = "find"
    BY <1>1, <1>4, GotoFields
  <2>2. t.jti \notin everRevoked \/ now >= t.exp
    BY <1>4, RequestFields DEF WorldInv, RevocationOutlivesToken
  <2>3. Standing(req[r]) = Ledger!At("presented", t)
    BY <1>2, StandingAt DEF CheckRevoked
  <2>4. Ledger!Move(r, Ledger!At("accepted", t))
    BY <1>2, <2>1, StandingAt, MovesTo DEF MovedOnly
  <2>5. Ledger!Accept(r, t)
    BY <1>2, <2>2, <2>3, <2>4, StandingIs DEF Ledger!Accept, Ledger!Expired
  <2> QED
    BY <2>3, <2>5 DEF Ledger!LedgerNext, Ledger!At
<1> QED
  BY <1>3, <1>4

\* A request accepted, that moves on, is refused, or is granted.
LEMMA AcceptedMoves ==
    ASSUME TypeOK, NEW r \in Req, NEW t, req[r].token = {t},
           req[r].pc \notin {"idle", "check", "done"}, MovedOnly(r), req'[r].pc \notin {"idle", "check"},
           UNCHANGED <<now, issued, everRevoked>>
    PROVE  Ledger!LedgerNext
<1>1. Standing(req[r]) = Ledger!At("accepted", t)
  BY StandingAt
<1>2. CASE req'[r].pc = "done"
  <2>1. Ledger!Move(r, Ledger!At("granted", t))
    BY <1>2, StandingAt, MovesTo DEF MovedOnly
  <2>2. Ledger!Grant(r, t)
    BY <1>1, <2>1, StandingIs DEF Ledger!Grant
  <2> QED
    BY <1>1, <2>2 DEF Ledger!LedgerNext, Ledger!At
<1>3. CASE req'[r].pc # "done"
  <2>1. Standing(req'[r]) = Ledger!At("accepted", t)
    BY <1>3, StandingAt DEF MovedOnly
  <2> QED
    BY <1>1, <2>1, OneDrops DEF MovedOnly, Ledger!LedgerNext
<1> QED
  BY <1>2, <1>3

\* A revocation, whatever becomes of its request.
LEMMA RevokeEnds ==
    ASSUME TypeOK, NEW r \in Req, NEW t, req[r].token = {t},
           req[r].pc \notin {"idle", "check", "done"}, NEW u \in issued, u.sub = t.sub, Revoke(u),
           UNCHANGED <<now, issued>>,
           \/ MovedOnly(r) /\ req'[r].pc \notin {"idle", "check"}
           \/ \E status : Refuse(r, status)
    PROVE  Ledger!LedgerNext
<1>1. Standing(req[r]) = Ledger!At("accepted", t)
  BY StandingAt
<1>2. \E s \in {Ledger!At("accepted", t), Ledger!At("granted", t), Ledger!Free} :
        Ledger!Move(r, s)
  <2>1. CASE MovedOnly(r) /\ req'[r].pc \notin {"idle", "check"}
    <3>1. Standing(req'[r]) \in {Ledger!At("accepted", t), Ledger!At("granted", t)}
      BY <2>1, StandingAt DEF MovedOnly
    <3> QED
      BY <2>1, <3>1, MovesTo DEF MovedOnly
  <2>2. CASE \E status : Refuse(r, status)
    <3>1. Standing(req'[r]) = Ledger!Free /\ \A x \in Req \ {r} : req'[x] = req[x]
      BY <2>2, RefuseFields, StandingFree
    <3> QED
      BY <3>1, MovesTo
  <2> QED
    BY <2>1, <2>2
<1>3. everRevoked' = everRevoked \union {u.jti}
  BY DEF Revoke
<1>4. Ledger!End(r, t, u)
  BY <1>1, <1>2, <1>3, StandingIs DEF Ledger!End
<1> QED
  BY <1>1, <1>4 DEF Ledger!LedgerNext, Ledger!At

\* The tokens minted are new, of one subject and of one parent.
LEMMA MintSigns ==
    ASSUME TypeOK, WorldInv, NEW u, NEW parent, MintPair(u, parent)
    PROVE  Ledger!Sign(issued' \ issued, u.id, parent) /\ issued' \ issued # {}
<1> DEFINE access == SignedToken(u, "access", nextJti, AccessTtl, parent)
           refresh == SignedToken(u, "refresh", nextJti + 1, RefreshTtl, parent)
<1>1. issued' = issued \union {access, refresh} /\ UNCHANGED <<now, everRevoked>>
  BY DEF MintPair
<1>2. /\ access.jti = nextJti /\ refresh.jti = nextJti + 1
      /\ access.sub = u.id /\ refresh.sub = u.id
      /\ access.parent = parent /\ refresh.parent = parent
  BY DEF SignedToken
<1> HIDE DEF access, refresh
<1>3. nextJti \in Nat /\ \A t \in issued : t.jti \in Nat /\ t.jti < nextJti
  BY DEF WorldInv, JtisAreUnique, TypeOK, Token
<1>4. \A t \in issued : t.jti # access.jti /\ t.jti # refresh.jti
  BY <1>2, <1>3
<1>5. issued' \ issued = {access, refresh}
  BY <1>1, <1>4
<1> QED
  BY <1>1, <1>2, <1>4, <1>5 DEF Ledger!Sign

LEMMA LoginSteps ==
    ASSUME TypeOK, WorldInv, NEW r \in Req, RequestOK(req[r]),
           LookupUser(r) \/ ComparePassword(r) \/ LoginMint(r)
    PROVE  Ledger!LedgerNext
<1>1. req[r].token = {} /\ Standing(req[r]) = Ledger!Free
  BY StandingFree DEF RequestOK, LookupUser, ComparePassword, LoginMint
<1>2. req'[r].token = {} /\ \A x \in Req \ {r} : req'[x] = req[x]
  <2>1. CASE \E status : Refuse(r, status)
    BY <2>1, RefuseFields
  <2>2. CASE MovedOnly(r)
    BY <1>1, <2>2 DEF MovedOnly
  <2>3. MovedOnly(r) \/ \E status : Refuse(r, status)
    BY GotoFields, GotoWithFields, AnswerFields DEF LookupUser, ComparePassword, LoginMint
  <2> QED
    BY <2>1, <2>2, <2>3
<1>3. Standing(req'[r]) = Ledger!Free
  BY <1>2, StandingFree
<1>4. CASE LookupUser(r) \/ ComparePassword(r)
  <2>1. UNCHANGED <<now, issued, everRevoked>>
    BY <1>4 DEF LookupUser, ComparePassword, OnlyReads
  <2> QED
    BY <1>2, <1>3, <2>1, OneDrops DEF Ledger!LedgerNext
<1>5. CASE LoginMint(r)
  <2>1. PICK u \in req[r].user : MintPair(u, 0)
    BY <1>5 DEF LoginMint
  <2>2. Ledger!Sign(issued' \ issued, u.id, 0) /\ issued' \ issued # {}
    BY <2>1, MintSigns
  <2>3. \A n \in issued' \ issued : n.sub = u.id
    BY <2>2 DEF Ledger!Sign
  <2>4. [x \in Req |-> Standing(req'[x])] = [x \in Req |-> Standing(req[x])]
    BY <1>1, <1>2, <1>3
  <2>5. Ledger!Login(issued' \ issued)
    BY <2>2, <2>3, <2>4 DEF Ledger!Login
  <2> QED
    BY <2>5 DEF Ledger!LedgerNext
<1> QED
  BY <1>4, <1>5

\* The token exchanged has ended by the time the pair is signed.
LEMMA MintExchanges ==
    ASSUME TypeOK, WorldInv, NEW r \in Req, RequestOK(req[r]), RefreshMint(r)
    PROVE  Ledger!LedgerNext
<1>1. PICK t \in req[r].token, u \in req[r].user : MintPair(u, t.jti)
  BY DEF RefreshMint
<1>2. req[r].token = {t} /\ t.jti \in everRevoked /\ u.id = t.sub
  BY TokenOrLogin DEF RefreshMint, RequestOK
<1>3. MovedOnly(r) /\ req'[r].pc = "done"
  BY AnswerFields DEF RefreshMint
<1>4. Standing(req[r]) = Ledger!At("accepted", t)
  BY <1>2, StandingAt DEF RefreshMint
<1>5. Ledger!Move(r, Ledger!At("granted", t))
  BY <1>2, <1>3, StandingAt, MovesTo DEF MovedOnly
<1>6. Ledger!Exchange(r, t, issued' \ issued)
  BY <1>1, <1>2, <1>4, <1>5, MintSigns, StandingIs DEF Ledger!Exchange
<1> QED
  BY <1>4, <1>6 DEF Ledger!LedgerNext, Ledger!At

\* The steps of an accepted request that change neither tokens nor revocations.
LEMMA QuietSteps ==
    ASSUME TypeOK, NEW r \in Req, RequestOK(req[r]),
           FindRefreshUser(r) \/ FindBearer(r) \/ LogoutBegin(r) \/ VerifyLogoutRefresh(r)
    PROVE  Ledger!LedgerNext
<1>1. UNCHANGED <<now, issued, everRevoked>>
  BY DEF FindRefreshUser, FindBearer, LogoutBegin, VerifyLogoutRefresh, OnlyReads
<1>2. req[r].pc \in {"find", "begin", "verifyRefresh"}
  BY DEF FindRefreshUser, FindBearer, LogoutBegin, VerifyLogoutRefresh
<1>3. PICK t : req[r].token = {t}
  BY <1>2, TokenOrLogin DEF RequestOK, AwaitsOverToken
<1>4. CASE \E status : Refuse(r, status)
  BY <1>1, <1>4, RefuseDrops DEF Ledger!LedgerNext
<1>5. CASE MovedOnly(r) /\ req'[r].pc \in {"revoke", "begin", "done", "revokeAccess", "revokeRefresh"}
  BY <1>1, <1>2, <1>3, <1>5, AcceptedMoves
<1>6. CASE FindRefreshUser(r)
  BY <1>4, <1>5, <1>6, GotoWithFields DEF FindRefreshUser
<1>7. CASE FindBearer(r)
  BY <1>4, <1>5, <1>7, GotoWithFields, GrantFields DEF FindBearer
<1>8. CASE LogoutBegin(r)
  BY <1>4, <1>5, <1>8, GotoFields DEF LogoutBegin
<1>9. CASE VerifyLogoutRefresh(r)
  BY <1>4, <1>5, <1>9, GotoFields, AnswerFields DEF VerifyLogoutRefresh
<1> QED
  BY <1>6, <1>7, <1>8, <1>9

\* The steps that revoke: the token presented, or the one in the body of a logout.
LEMMA RevokingSteps ==
    ASSUME TypeOK, NEW r \in Req, RequestOK(req[r]),
           \/ RevokeUsed(r) \/ RevokeAccess(r) \/ RevokeLogoutRefresh(r)
           \/ LostAcknowledgement(r)
    PROVE  Ledger!LedgerNext
<1>1. UNCHANGED <<now, issued>> /\ req[r].pc \in {"revoke", "revokeAccess", "revokeRefresh"}
  BY DEF RevokeUsed, RevokeAccess, RevokeLogoutRefresh, LostAcknowledgement, OnlyRevokes
<1>2. PICK t : req[r].token = {t}
  BY <1>1, TokenOrLogin DEF RequestOK, AwaitsOverToken
<1>3. PICK u \in issued :
        /\ Revoke(u)
        /\ u \in req[r].token \/ (req[r].pc = "revokeRefresh" /\ u \in req[r].body)
  BY RequestFields DEF RevokeUsed, RevokeAccess, RevokeLogoutRefresh, LostAcknowledgement
<1>4. u.sub = t.sub
  BY <1>2, <1>3 DEF RequestOK, SameSubject
<1>5. \/ MovedOnly(r) /\ req'[r].pc \in {"mint", "verifyRefresh", "done"}
      \/ \E status : Refuse(r, status)
  BY GotoFields, AnswerFields
     DEF RevokeUsed, RevokeAccess, RevokeLogoutRefresh, LostAcknowledgement, Fail
<1> QED
  BY <1>1, <1>2, <1>3, <1>4, <1>5, RevokeEnds

\* A failed statement costs the request, except where logout swallows the error.
LEMMA FaultSteps ==
    ASSUME TypeOK, NEW r \in Req, RequestOK(req[r]), DatabaseFault(r)
    PROVE  Ledger!LedgerNext
<1>1. UNCHANGED <<now, issued, everRevoked>> /\ Fail(r)
  BY DEF DatabaseFault
<1>2. CASE \E status : Refuse(r, status)
  BY <1>1, <1>2, RefuseDrops DEF Ledger!LedgerNext
<1>3. CASE req[r].pc = "revokeRefresh" /\ Answer(r, 204)
  <2>1. PICK t : req[r].token = {t}
    BY <1>3, TokenOrLogin DEF RequestOK, AwaitsOverToken
  <2> QED
    BY <1>1, <1>3, <2>1, AnswerFields, AcceptedMoves, ZenonT(60)
<1> QED
  BY <1>1, <1>2, <1>3 DEF Fail

\* The store, its cleanup and the accounts are invisible to the ledger, and a
\* restart drops every request.
LEMMA SystemSteps ==
    ASSUME TypeOK, \/ Restart \/ CleanupStart \/ CleanupRun \/ CleanupFail \/ Tick
                   \/ AccountsChange \/ UNCHANGED vars
    PROVE  Ledger!LedgerNext
<1>1. CASE Tick
  <2>1. now' = now + 1 /\ UNCHANGED <<issued, everRevoked, req>>
    BY <1>1 DEF Tick
  <2>2. Ledger!Pass
    BY <2>1 DEF Ledger!Pass
  <2> QED
    BY <2>2 DEF Ledger!LedgerNext
<1>2. CASE Restart
  <2>1. \A x \in Req : Standing(req'[x]) = Ledger!Free
    BY <1>2, StandingFree DEF Restart, Idle
  <2> QED
    BY <1>2, <2>1, Drops DEF Restart, Ledger!LedgerNext
<1>3. CASE AccountsChange
  <2>1. \A x \in Req : /\ req'[x].token = req[x].token
                       /\ req'[x].pc = req[x].pc
    <3>1. \A x \in Req : req[x] \in Request
      BY DEF TypeOK
    <3>2. \A x \in Req : req'[x] = IF Pending(x)
                                   THEN [req[x] EXCEPT !.seen = @ \union users'] ELSE req[x]
      BY <1>3 DEF AccountsChange
    <3> QED
      BY <3>1, <3>2 DEF Request
  <2>2. \A x \in Req : Standing(req'[x]) = Standing(req[x])
    BY <2>1 DEF Standing
  <2> QED
    BY <1>3, <2>2, Drops DEF AccountsChange, Ledger!LedgerNext
<1>4. CASE CleanupStart \/ CleanupRun \/ CleanupFail \/ UNCHANGED vars
  <2>1. UNCHANGED <<now, issued, everRevoked, req>>
    BY <1>4 DEF CleanupStart, CleanupRun, CleanupFail, vars
  <2> QED
    BY <2>1, Drops DEF Ledger!LedgerNext
<1> QED
  BY <1>1, <1>2, <1>3, <1>4

LEMMA LedgerStep ==
    ASSUME TypeOK, WorldInv, RequestsSafe, Backend = "database", [Next]_vars
    PROVE  Ledger!LedgerNext
<1>1. ASSUME NEW r \in Req,
             Arrival(r) \/ Step(r) \/ DatabaseFault(r) \/ LostAcknowledgement(r)
      PROVE  Ledger!LedgerNext
  <2>1. RequestOK(req[r])
    BY DEF RequestsSafe, RequestSafe
  <2> QED
    BY <1>1, <2>1, ArrivalPresents, LoginSteps, CheckAccepts, QuietSteps, MintExchanges,
       RevokingSteps, FaultSteps DEF Step
<1> QED
  BY <1>1, SystemSteps DEF Next

LEMMA LedgerStart ==
    ASSUME Init
    PROVE  Ledger!LedgerInit
BY StandingFree DEF Init, Idle, Ledger!LedgerInit

\* A token that was revoked, even one second before it expires, is never
\* accepted again, and every exchange, logout and answer is the one of an
\* accepted request: the forgetful store implements the ledger that forgets
\* nothing, for every interleaving, failure, restart and cleanup.
THEOREM RefinesLedger == Spec => (Backend = "database" => ImplementsLedger)
<1> DEFINE IInv == TypeOK /\ SessionInv
<1>1. Spec => []IInv
  BY SessionInvariant
<1>2. Init => Ledger!LedgerInit
  BY LedgerStart
<1>3. Backend = "database" /\ IInv /\ [Next]_vars => [Ledger!LedgerNext]_(Ledger!ledgerVars)
  BY LedgerStep
     DEF SessionInv, RequestInv, RequestsSafe, RequestSafe, StaleOK, StaleCredentialRejected,
         WorldInv
<1>4. CASE Backend = "database"
  <2>1. IInv /\ [Next]_vars => [Ledger!LedgerNext]_(Ledger!ledgerVars)
    BY <1>3, <1>4
  <2> QED
    BY <1>1, <1>2, <2>1, PTL DEF Spec, ImplementsLedger, Ledger!LedgerSpec
<1>5. CASE ~(Backend = "database")
  BY <1>5
<1> QED
  BY <1>4, <1>5

=============================================================================
