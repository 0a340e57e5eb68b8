---------------------------- MODULE TokenSessions ----------------------------
(***************************************************************************)
(* Sessions: login, refresh-token rotation, bearer authentication and      *)
(* logout over JWTs, the revocation store and the users table.             *)
(*                                                                         *)
(* One process serves every request; handlers interleave only where they   *)
(* await the database or bcrypt.  An action is what one request does from  *)
(* one such point to the next: it takes the answer of the database, at the *)
(* instant the database computes it, and runs the code up to the next      *)
(* await.  Where the code after an await reads the clock or mints tokens,  *)
(* that code is an action of its own.                                      *)
(*                                                                         *)
(* A clock tick is one second: jsonwebtoken and the DATETIME columns both  *)
(* work on whole seconds.  jtis are UUIDs, so a counter stands for them.   *)
(* An optional token or user is a set of at most one element.              *)
(***************************************************************************)
EXTENDS UserTable, TokenBlacklist

CONSTANTS
    Req,            \* slots for concurrent requests
    InitialUsers,   \* the rows the users table starts with
    AccessTtl,      \* JWT_ACCESS_EXPIRES_IN
    RefreshTtl,     \* JWT_REFRESH_EXPIRES_IN
    Kinds,          \* bound: the kinds of request that arrive
    Edited,         \* bound: the accounts created, changed or deleted meanwhile
    MaxNow,         \* bound: the clock stops here
    MaxJti,         \* bound: no request that could mint beyond it is admitted
    MaxFaults,      \* bound: failed database calls plus process restarts
    MaxSweeps       \* bound: cleanups in flight at once

ASSUME TokenAssumption ==
    /\ AccessTtl \in Nat /\ RefreshTtl \in Nat
    /\ {MaxNow, MaxJti, MaxFaults, MaxSweeps} \subseteq Nat
    /\ InitialUsers \subseteq UserRow /\ Edited \subseteq UserIds
    /\ Kinds \subseteq {"login", "refresh", "access", "logout"}

VARIABLES
    issued,         \* every token ever signed
    nextJti,        \* the next fresh jti
    now,            \* the wall clock
    req,            \* req[r]: the request in slot r
    sweeps,         \* cutoffs of the cleanups whose DELETE is in flight
    faults,         \* database failures and restarts so far
    everRevoked     \* ghost, which no guard reads: the jtis whose revocation
                    \* the store has carried out

vars == <<users, usedIds, revoked, issued, nextJti, now, req, sweeps, faults,
          everRevoked>>

Token == [jti : Nat, tokenType : TokenType, sub : UserIds, email : Emails,
          role : Roles, exp : Nat,
          parent : Nat]     \* ghost: the refresh token exchanged, 0 for login

Op == {"none", "login", "refresh", "access", "logout"}
Pc == {"idle", "lookup", "compare", "check", "find", "revoke", "mint", "begin",
       "revokeAccess", "verifyRefresh", "revokeRefresh", "done"}
Status == {0, 200, 204, 400, 401, 500}

\* A free slot.  The last two fields of a request are ghosts: the rows `users`
\* has had since the request arrived, and whether its token was revoked then.
Idle == [op |-> "none", pc |-> "idle", token |-> {}, body |-> {},
         user |-> {}, status |-> 0, seen |-> {}, replayed |-> FALSE]

Pending(r) == req[r].pc \notin {"idle", "done"}

Minting == {r \in Req : Pending(r) /\ req[r].op \in {"login", "refresh"}}

\* Bound: every admitted login or refresh has two jtis left to mint.
CanMint == nextJti + 2 * Cardinality(Minting) + 1 <= MaxJti

\* jwt.verify with the secret and audience of `type`, then the tokenType claim.
Verifies(t, type) == t.tokenType = type /\ now < t.exp

Init ==
    /\ TableInit(InitialUsers)
    /\ revoked = {} /\ issued = {} /\ nextJti = 1 /\ now = 0
    /\ req = [r \in Req |-> Idle]
    /\ sweeps = {} /\ faults = 0
    /\ everRevoked = {}

------------------------------------------------------------------------------
(* How a request moves.                                                    *)

Goto(r, pc) == req' = [req EXCEPT ![r].pc = pc]
GotoWith(r, pc, u) == req' = [req EXCEPT ![r].pc = pc, ![r].user = {u}]
Answer(r, status) == req' = [req EXCEPT ![r].pc = "done", ![r].status = status]

\* An error answer; nothing of the request is of interest afterwards.
Refuse(r, status) == req' = [req EXCEPT ![r] = [Idle EXCEPT !.pc = "done", !.status = status]]

OnlyReads ==
    UNCHANGED <<users, usedIds, revoked, issued, nextJti, now, sweeps, faults, everRevoked>>

\* Defect: a token type the ENUM column does not have.
RevokeUntyped(t) ==
    /\ AddToBlacklist(t.jti, "jwt", t.exp)
    /\ everRevoked' = everRevoked \union {t.jti}

\* A statement of the revocation store that revokes t.
Revoke(t) ==
    /\ AddToBlacklist(t.jti, t.tokenType, t.exp)
    /\ everRevoked' = everRevoked \union {t.jti}

OnlyRevokes ==
    UNCHANGED <<users, usedIds, issued, nextJti, now, sweeps, faults>>

\* signAccessToken, signRefreshToken: a token of u that expires ttl from now.
SignedToken(u, type, jti, ttl, parent) ==
    [jti |-> jti, tokenType |-> type, sub |-> u.id, email |-> u.email,
     role |-> u.role, exp |-> now + ttl, parent |-> parent]

\* createTokenPair: an access and a refresh token over the same claims.
MintPair(u, parent) ==
    /\ issued' = issued \union
         {SignedToken(u, "access", nextJti, AccessTtl, parent),
          SignedToken(u, "refresh", nextJti + 1, RefreshTtl, parent)}
    /\ nextJti' = nextJti + 2
    /\ UNCHANGED <<users, usedIds, revoked, now, sweeps, faults, everRevoked>>

\* A request enters.  Its synchronous prologue verifies the credential t, and
\* the request either awaits its first database call (pc first) or is refused.
Arrive(r, op, t, body, verified, first) ==
    /\ ~Pending(r) /\ op \in Kinds
    /\ \/ /\ verified
          /\ req' = [req EXCEPT ![r] =
                [Idle EXCEPT !.op = op, !.pc = first, !.token = t, !.body = body,
                             !.seen = users,
                             !.replayed = \E c \in t : c.jti \in everRevoked]]
       \/ ~verified /\ Refuse(r, 401)
    /\ OnlyReads

------------------------------------------------------------------------------
(* Login: passport's local strategy, then AuthController.login.            *)

LoginArrive(r) == CanMint /\ Arrive(r, "login", {}, {}, TRUE, "lookup")

\* findByEmailForAuth: the email names a row of the table, or none.
LookupUser(r) ==
    /\ req[r].pc = "lookup"
    /\ \/ Refuse(r, 401)
       \/ \E u \in users : GotoWith(r, "compare", u)
    /\ OnlyReads

\* bcrypt's verdict on the password of the row loaded above.
ComparePassword(r) ==
    /\ req[r].pc = "compare"
    /\ Refuse(r, 401) \/ Goto(r, "mint")
    /\ OnlyReads

LoginMint(r) ==
    /\ req[r].pc = "mint" /\ req[r].op = "login"
    /\ \E u \in req[r].user : MintPair(u, 0)
    /\ Answer(r, 200)

------------------------------------------------------------------------------
(* Refresh: RefreshTokenUseCase.execute.                                   *)

RefreshArrive(r) ==
    /\ CanMint
    /\ \E t \in issued :
         Arrive(r, "refresh", {t}, {}, Verifies(t, "refresh"), "check")

\* isBlacklisted, asked by refresh and by the JWT strategy alike.
CheckRevoked(r) ==
    /\ req[r].pc = "check"
    /\ \E t \in req[r].token :
         IF IsBlacklisted(t.jti) THEN Refuse(r, 401) ELSE Goto(r, "find")
    /\ OnlyReads

\* Defect: the pair is minted without revoking the token presented.
FindRefreshUserOnly(r) ==
    /\ req[r].pc = "find" /\ req[r].op = "refresh"
    /\ \E t \in req[r].token : \E u \in WithId(t.sub) : GotoWith(r, "mint", u)
    /\ OnlyReads

\* Refresh asks only that the subject still exists.
FindRefreshUser(r) ==
    /\ req[r].pc = "find" /\ req[r].op = "refresh"
    /\ \E t \in req[r].token :
         \/ WithId(t.sub) = {} /\ Refuse(r, 401)
         \/ \E u \in WithId(t.sub) : GotoWith(r, "revoke", u)
    /\ OnlyReads

RevokeUsed(r) ==
    /\ req[r].pc = "revoke"
    /\ \E t \in req[r].token : Revoke(t)
    /\ Goto(r, "mint")
    /\ OnlyRevokes

\* Defect: the new pair repeats the claims of the token exchanged.
RefreshMintStale(r) ==
    /\ req[r].pc = "mint" /\ req[r].op = "refresh"
    /\ \E t \in req[r].token :
         MintPair([id |-> t.sub, email |-> t.email, role |-> t.role], t.jti)
    /\ Answer(r, 200)

\* The new pair carries the row read by FindRefreshUser.
RefreshMint(r) ==
    /\ req[r].pc = "mint" /\ req[r].op = "refresh"
    /\ \E t \in req[r].token, u \in req[r].user : MintPair(u, t.jti)
    /\ Answer(r, 200)

------------------------------------------------------------------------------
(* Bearer authentication (passport's JWT strategy), for every protected    *)
(* endpoint; "access" stands for those that only need an identity.         *)

AccessArrive(r) ==
    \E t \in issued :
      Arrive(r, "access", {t}, {}, Verifies(t, "access"), "check")

\* Logout takes any refresh token, or none, as body.refreshToken; anything else
\* there fails verifyRefreshToken as an expired one does.
LogoutArrive(r) ==
    \E t \in issued,
       body \in {{}} \union {{b} : b \in {i \in issued : i.tokenType = "refresh"}} :
      Arrive(r, "logout", {t}, body, Verifies(t, "access"), "check")

\* Defect: a deleted account's request is never answered.
FindBearerOrHang(r) ==
    /\ req[r].pc = "find" /\ req[r].op \in {"access", "logout"}
    /\ \E t \in req[r].token : \E u \in {v \in WithId(t.sub) : v.email = t.email} :
         IF req[r].op = "logout" THEN GotoWith(r, "begin", u) ELSE Answer(r, 200)
    /\ OnlyReads

\* The endpoint answers under the identity found.
Grant(r, u) ==
    req' = [req EXCEPT ![r] = [@ EXCEPT !.pc = "done", !.status = 200, !.user = {u}]]

\* Defect: the account is looked up by the email of the token, which another one
\* may have taken meanwhile.
OwnerOfEmail(t) == WithEmail(t.email)

\* The rows the strategy accepts as the owner of t.
Owner(t) == {u \in WithId(t.sub) : u.email = t.email}

FindBearer(r) ==
    /\ req[r].pc = "find" /\ req[r].op \in {"access", "logout"}
    /\ \E t \in req[r].token :
         \/ Owner(t) = {} /\ Refuse(r, 401)
         \/ \E u \in Owner(t) :
              IF req[r].op = "logout" THEN GotoWith(r, "begin", u)
              ELSE Grant(r, u)
    /\ OnlyReads

------------------------------------------------------------------------------
(* Logout: LogoutUseCase.execute.                                          *)

\* The body may fail its validation, which comes after the strategy.  Then the
\* controller cuts the literal 'Bearer ' off the header and the use case
\* verifies what is left: it fails when the token has expired meanwhile, and
\* for a header passport reads and the controller does not ("bearer", blanks).
LogoutBegin(r) ==
    /\ req[r].pc = "begin"
    /\ \/ Refuse(r, 400)
       \/ \E t \in req[r].token, literalBearer \in BOOLEAN :
            IF literalBearer /\ Verifies(t, "access") THEN Goto(r, "revokeAccess")
                                                      ELSE Refuse(r, 401)
    /\ OnlyReads

\* Defect: the refresh token of the body is forgotten.
RevokeAccessOnly(r) ==
    /\ req[r].pc = "revokeAccess"
    /\ \E t \in req[r].token : Revoke(t)
    /\ Answer(r, 204)
    /\ OnlyRevokes

RevokeAccess(r) ==
    /\ req[r].pc = "revokeAccess"
    /\ \E t \in req[r].token : Revoke(t)
    /\ IF req[r].body = {} THEN Answer(r, 204) ELSE Goto(r, "verifyRefresh")
    /\ OnlyRevokes

\* Defect: the refresh token may be anybody's.
AnySubject(t, b) == TRUE

SameSubject(t, b) == t.sub = b.sub

\* An invalid refresh token is ignored; one of another user is refused, the
\* access token being revoked already.
VerifyLogoutRefresh(r) ==
    /\ req[r].pc = "verifyRefresh"
    /\ \E t \in req[r].token, b \in req[r].body :
         \/ ~Verifies(b, "refresh") /\ Answer(r, 204)
         \/ Verifies(b, "refresh") /\ ~SameSubject(t, b) /\ Refuse(r, 401)
         \/ Verifies(b, "refresh") /\ SameSubject(t, b) /\ Goto(r, "revokeRefresh")
    /\ OnlyReads

RevokeLogoutRefresh(r) ==
    /\ req[r].pc = "revokeRefresh"
    /\ \E b \in req[r].body : Revoke(b)
    /\ Answer(r, 204)
    /\ OnlyRevokes

------------------------------------------------------------------------------
(* Failures.                                                               *)

\* Defect: a failed revocation is ignored, as logout does, by refresh too.
FailIgnored(r) ==
    IF req[r].pc = "revoke" THEN Goto(r, "mint") ELSE Refuse(r, 500)

\* What the caller gets when the database call of this step throws: the
\* strategies hand the error to passport (500), refresh and the outer catch of
\* logout turn it into 401, and the inner catch of logout swallows it (204).
Fail(r) ==
    CASE req[r].pc = "revokeRefresh" -> Answer(r, 204)
      [] req[r].pc = "revokeAccess" \/ req[r].op = "refresh" -> Refuse(r, 401)
      [] OTHER -> Refuse(r, 500)

\* A read of the database or bcrypt throws, or a write does before its statement
\* takes effect.  The memory backend of the revocation store never throws.
DatabaseFault(r) ==
    /\ faults < MaxFaults
    /\ \/ req[r].pc \in {"lookup", "compare", "find"}
       \/ /\ Backend = "database"
          /\ req[r].pc \in {"check", "revoke", "revokeAccess", "revokeRefresh"}
    /\ Fail(r)
    /\ faults' = faults + 1
    /\ UNCHANGED <<users, usedIds, revoked, issued, nextJti, now, sweeps, everRevoked>>

\* The connection fails after the statement took effect.
LostAcknowledgement(r) ==
    /\ faults < MaxFaults /\ Backend = "database"
    /\ \/ req[r].pc \in {"revoke", "revokeAccess"} /\ \E t \in req[r].token : Revoke(t)
       \/ req[r].pc = "revokeRefresh" /\ \E b \in req[r].body : Revoke(b)
    /\ Fail(r)
    /\ faults' = faults + 1
    /\ UNCHANGED <<users, usedIds, issued, nextJti, now, sweeps>>

\* The process dies and is started again: its requests are gone, and so is
\* what the memory backend held; a DELETE in flight is lost.
Restart ==
    /\ faults < MaxFaults
    /\ faults' = faults + 1
    /\ req' = [r \in Req |-> Idle]
    /\ sweeps' = {}
    /\ Reload
    /\ UNCHANGED <<users, usedIds, issued, nextJti, now, everRevoked>>

------------------------------------------------------------------------------
(* The cleanup job.  Nothing stops a run from starting while another is in *)
(* flight: the timer does not wait for runOnce.                            *)

CleanupStart ==
    /\ now \notin sweeps /\ Cardinality(sweeps) < MaxSweeps
    /\ sweeps' = sweeps \union {now}
    /\ UNCHANGED <<users, usedIds, revoked, issued, nextJti, now, req, faults, everRevoked>>

CleanupRun ==
    /\ \E cutoff \in sweeps : CleanupExpired(cutoff) /\ sweeps' = sweeps \ {cutoff}
    /\ UNCHANGED <<users, usedIds, issued, nextJti, now, req, faults, everRevoked>>

\* runOnce logs the error and returns; the next tick of the timer tries again.
CleanupFail ==
    /\ faults < MaxFaults /\ Backend = "database"
    /\ faults' = faults + 1
    /\ \E cutoff \in sweeps : sweeps' = sweeps \ {cutoff}
    /\ UNCHANGED <<users, usedIds, revoked, issued, nextJti, now, req, everRevoked>>

------------------------------------------------------------------------------
(* The environment.                                                        *)

Tick ==
    /\ now < MaxNow
    /\ now' = now + 1
    /\ UNCHANGED <<users, usedIds, revoked, issued, nextJti, req, sweeps, faults, everRevoked>>

\* Accounts come, change and go under the requests in flight.
AccountsChange ==
    /\ TableNext
    /\ \A id \in UserIds \ Edited : WithId(id)' = WithId(id)
    /\ req' = [r \in Req |-> IF Pending(r)
                              THEN [req[r] EXCEPT !.seen = @ \union users'] ELSE req[r]]
    /\ UNCHANGED <<revoked, issued, nextJti, now, sweeps, faults, everRevoked>>

Arrival(r) ==
    \/ LoginArrive(r) \/ RefreshArrive(r) \/ AccessArrive(r) \/ LogoutArrive(r)

Step(r) ==
    \/ LookupUser(r) \/ ComparePassword(r) \/ LoginMint(r)
    \/ CheckRevoked(r) \/ FindRefreshUser(r) \/ RevokeUsed(r) \/ RefreshMint(r)
    \/ FindBearer(r)
    \/ LogoutBegin(r) \/ RevokeAccess(r) \/ VerifyLogoutRefresh(r)
    \/ RevokeLogoutRefresh(r)

Next ==
    \/ \E r \in Req : Arrival(r) \/ Step(r) \/ DatabaseFault(r) \/ LostAcknowledgement(r)
    \/ Restart
    \/ CleanupStart \/ CleanupRun \/ CleanupFail
    \/ Tick \/ AccountsChange

Spec == Init /\ [][Next]_vars

\* The event loop resumes every handler whose answer arrived, and the timer
\* keeps firing.  Arrivals, faults, the clock and the accounts owe nothing.
Fairness ==
    /\ \A r \in Req : WF_vars(Step(r))
    /\ WF_vars(CleanupStart) /\ WF_vars(CleanupRun)

FairSpec == Spec /\ Fairness

------------------------------------------------------------------------------
(* Properties.                                                             *)

Request == [op : Op, pc : Pc, token : SUBSET issued, body : SUBSET issued,
            user : SUBSET UserRow, status : Status,
            seen : SUBSET UserRow, replayed : BOOLEAN]

\* Every variable has its type, and a request only holds tokens this service
\* signed (anything else fails jwt.verify before the first await).
TypeOK ==
    /\ TableTypeOK
    /\ revoked \subseteq RevokedRow
    /\ issued \subseteq Token
    /\ nextJti \in Nat /\ now \in Nat /\ faults \in Nat
    /\ req \in [Req -> Request]
    /\ sweeps \subseteq Nat
    /\ everRevoked \subseteq Nat

\* A revocation is kept for as long as the token could still verify: whatever
\* cleanups, re-revocations and restarts happen, a revoked token either has its
\* row or has expired (TokenBlacklistService: "Revoca un jti hasta su
\* expiracion").
RevocationOutlivesToken ==
    \A t \in issued :
      t.jti \in everRevoked => IsBlacklisted(t.jti) \/ now >= t.exp

\* A request that arrived with an already revoked token gets past the
\* revocation check only if the token expired while the request was under way
\* (verify ran before the expiry, isBlacklisted after a cleanup dropped the row).
Accepted(r) ==
    \/ req[r].pc \in {"find", "revoke", "mint", "begin", "revokeAccess",
                      "verifyRefresh", "revokeRefresh"}
    \/ req[r].pc = "done" /\ req[r].status \in {200, 204}

StaleCredentialRejected ==
    \A r \in Req : req[r].replayed /\ Accepted(r) =>
      \A t \in req[r].token : now >= t.exp

\* Past its lookup a request acts, and answers, as one account: a row of the
\* table at some instant since it arrived, and the very row its credential names.
\* Nobody acts as another account, not even as one that has taken over the email of
\* the credential; and a deleted, demoted or renamed account cannot be impersonated
\* by a request that arrives after the change.
GrantedIdentityIsCurrent ==
    \A r \in Req : Accepted(r) /\ req[r].pc # "find" =>
      /\ req[r].user # {}
      /\ \A u \in req[r].user :
           /\ u \in req[r].seen
           /\ \A t \in req[r].token :
                u.id = t.sub /\ (req[r].op # "refresh" => u.email = t.email)

\* Every token signed carries an identity its account had while the request that
\* obtained it was under way, and a refresh never changes the account
\* (RefreshTokenUseCase: "emite un nuevo par de tokens con datos frescos").
MintedClaimsAreCurrent ==
    [][\A t \in issued' \ issued :
         \E r \in Req :
           /\ req[r].pc = "mint" /\ req'[r].pc = "done"
           /\ [id |-> t.sub, email |-> t.email, role |-> t.role] \in req[r].seen
           /\ \A c \in req[r].token : c.sub = t.sub]_vars

\* Rotation: a pair obtained from a refresh token belongs to the same account,
\* and the token exchanged was revoked before the pair existed.
RotationChain ==
    \A t \in issued : t.parent # 0 =>
      /\ t.parent \in everRevoked
      /\ \E p \in issued : p.jti = t.parent /\ p.tokenType = "refresh" /\ p.sub = t.sub

\* A refresh token yields at most one pair (README: "rota refresh tokens con
\* revocacion de jti para evitar replay").
RefreshSingleUse ==
    \A t, u \in issued :
      t.parent = u.parent /\ t.parent # 0 /\ t.tokenType = u.tokenType => t = u

\* A logout answered 204 has revoked the access token and the refresh token it
\* was given, unless that token does not verify or has expired
\* (REQUEST_FLOWS.md: "revoca refresh token valido del mismo usuario").
LogoutRevokesBoth ==
    \A r \in Req : req[r].pc = "done" /\ req[r].op = "logout" /\ req[r].status = 204 =>
      /\ \A t \in req[r].token : t.jti \in everRevoked
      /\ \A b \in req[r].body : Verifies(b, "refresh") => b.jti \in everRevoked

\* Nobody can revoke the token of another account: a step that revokes a token
\* is the step of a request that authenticated as the same subject.
OnlyOwnTokensRevoked ==
    [][\A t \in issued : t.jti \in everRevoked' \ everRevoked =>
         \E r \in Req : /\ req'[r].pc # req[r].pc
                        /\ \E c \in req[r].token : c.sub = t.sub]_vars

\* Every admitted request is answered (or dies with the process).
EveryRequestAnswered == \A r \in Req : Pending(r) ~> ~Pending(r)

\* The store does not keep a revocation for ever: once its token has expired,
\* the row eventually goes.
ExpiredRow(j) == \E row \in RowsOf(j) : row.expiresAt < now
ExpiredRevocationsPurged == \A j \in 1..MaxJti : ExpiredRow(j) ~> ~ExpiredRow(j)

------------------------------------------------------------------------------
(* The inductive invariant behind the safety properties.                   *)

\* jtis are fresh: no two tokens share one, and none ahead has been revoked.
JtisAreUnique ==
    /\ \A t \in issued : t.jti < nextJti
    /\ \A s, t \in issued : s.jti = t.jti => s = t
    /\ \A j \in everRevoked : j < nextJti

\* A row carries the expiry of its token, so that the DELETE of the cleanup,
\* whose cutoff the clock has reached, only takes expired ones.
RowsMatchTokens ==
    /\ \A row \in revoked : row.jti < nextJti
    /\ \A row \in revoked, t \in issued : row.jti = t.jti => row.expiresAt = t.exp
CutoffsArePast == \A cutoff \in sweeps : cutoff <= now

AwaitsOverToken == {"check", "find", "revoke", "begin", "revokeAccess",
                    "verifyRefresh", "revokeRefresh"}

\* What the code knows of a request at each await.
RequestOK(q) ==
    /\ \A s, t \in q.token : s = t
    /\ \A a, b \in q.body : a = b
    /\ q.pc \in AwaitsOverToken => q.token # {}
    /\ q.op = "refresh" => \A t \in q.token : t.tokenType = "refresh"
    /\ q.op = "login" => q.token = {}
    /\ q.pc \in {"lookup", "compare"} => q.op = "login"
    /\ q.pc = "revoke" =>
         q.op = "refresh" /\ \A t \in q.token, u \in q.user : u.id = t.sub
    /\ q.pc = "mint" /\ q.op = "refresh" =>
         \A t \in q.token : t.jti \in everRevoked /\ \A u \in q.user : u.id = t.sub
    /\ q.pc = "revokeRefresh" => \A t \in q.token, b \in q.body : SameSubject(t, b)
    /\ q.replayed => \A t \in q.token : t.jti \in everRevoked

RequestInv == \A r \in Req : RequestOK(req[r])

\* TypeOK and the rest together are inductive.
SessionInv ==
    /\ JtisAreUnique /\ RowsMatchTokens /\ CutoffsArePast /\ RequestInv
    /\ Backend = "database" => RevocationOutlivesToken
    /\ Backend = "database" => StaleCredentialRejected
    /\ RotationChain

------------------------------------------------------------------------------
(* The abstract specification: the revocation store, its cleanup and the   *)
(* restarts are invisible, and the steps of a request are one.             *)

\* A request is presented until its token is checked, and accepted from then on.
Standing(q) ==
    CASE q.token = {} \/ q.pc = "idle" -> [phase |-> "free", token |-> {}]
      [] q.token # {} /\ q.pc = "check" -> [phase |-> "presented", token |-> q.token]
      [] q.token # {} /\ q.pc = "done" -> [phase |-> "granted", token |-> q.token]
      [] OTHER -> [phase |-> "accepted", token |-> q.token]

Ledger == INSTANCE SessionLedger WITH
    tokens <- issued,
    ended <- everRevoked,
    standing <- [r \in Req |-> Standing(req[r])]

\* A revocation is for ever, although its row is not: a token that was revoked,
\* even one second before it expires, by whatever interleaving of requests,
\* cleanups, failed statements and restarts, is never accepted again; and every
\* exchange, logout and answer is the one of some accepted request.
ImplementsLedger == Ledger!LedgerSpec

=============================================================================
