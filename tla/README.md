# Verification of rest-api-template

TLA+ models of the service under `src/src`: a REST API (Express, Sequelize on
MySQL, Passport, JWT) with registration, login, refresh-token rotation, logout by
revocation, user management with two roles, and a job that purges old revocations.
The models are checked with TLC on small instances; their type invariants, all
safety properties of the passing runs but one (whose statement is an `ENABLED`), and
both refinements are also proved with TLAPS for every value of the constants.

## 1. Inventory

One Node.js process serves all requests. Handlers run on one event loop and
interleave only where they `await` the database or bcrypt. State that outlives a
request is in two MySQL tables, in the counters of the rate limiters and in the
handle of the cleanup timer.

| Part | State | Operations | What makes it correct |
|---|---|---|---|
| Tokens (`TokenService`) | none; a token carries `jti`, `tokenType`, `sub`, `email`, `role`, `exp` | sign a pair, verify by type | claims are those of the account when it asked; a pair has fresh jtis |
| Revocation store (`TokenBlacklistService`, `RevokedTokenRepository`) | table `revoked_tokens`, or a `Set` when `NODE_ENV=test` | upsert, lookup, delete the expired | a revocation lasts as long as its token verifies, and not for ever |
| Login (`passport.ts`, `AuthController.login`) | none of its own | look the email up, compare, mint | the pair belongs to the row that was compared |
| Refresh (`RefreshTokenUseCase`) | none of its own | verify, check, find, revoke, mint | one pair per token; never across accounts; the used token is revoked first |
| Bearer authentication (`passport.ts`) | none of its own | verify, check, find, compare the email | no revoked credential, no identity the account no longer has |
| Logout (`LogoutUseCase`) | none of its own | revoke the access token, then the refresh token of the body | a 204 means both are revoked; nobody else's token ever is |
| Users table (`UserRepository`, model, migration, seeder) | table `users` | find, create, update changed columns, delete, list | one row per key and per email |
| User management and registration (`UserController`, `RegisterUseCase`) | none of its own | lookup, hash, insert, update, delete, read | changes are authorised, conflicts are real, updates do not undo each other |
| Cleanup job (`tokenBlacklistCleanup.job.ts`) | timer handle | start, run, stop | a late or overlapping run deletes nothing that still matters |
| Request pipeline (`app.ts`, routes, middlewares) | limiter counters per client | the middlewares of each route in order | every request is answered once, by the contract; limits hold |
| Process lifecycle (`main.ts`, `sequelize.ts`) | server, pool, timer | bootstrap, signals, drain, exit | no answer is lost by a graceful stop, and it ends |
| Documentation viewer (`docs/viewer/app.js`) | in the browser: cache of files, chosen document, active term, fetches in flight | choose, search, clear, receive a file; render Markdown | what is shown, marked and listed belongs together; no line of a file is lost |
| Validation, configuration, logging, metadata script | none that a handler reads | | partly or out of scope, section 9 |

How they interact: the routes run middlewares and then a controller; controllers call
use cases, which call the repositories and the revocation store; Passport's
strategies call the same repositories. The cleanup job writes `revoked_tokens`
next to the requests, and user management writes `users` under every session.

What is hard here, and hard to test: two requests between each other's awaits; what
was read before an await and used after it; the clock passing an expiry in the
middle of a request; a cleanup whose cutoff is older than the rows it meets; a
statement that fails, or whose answer is lost, between two that must go together; a
process that dies there; answers that overtake one another in the viewer. `PROJECT.json` lists these hazards at their lines with the
properties that would catch them.

## 2. Modules

    UserTable          the users table, one statement at a time (abstract)
    TokenBlacklist     the revocation store, both backends
      |        |
      |   TokenSessions       EXTENDS both: login, refresh, bearer, logout, cleanup
      |        |
      |        +-- MCTokenSessions
      |        +-- TokenSessions_proofs
      |        |     +-- TokenSessions_ledger_proofs, TokenSessions_identity_proofs
      |        +-- implements SessionLedger (abstract: what sessions promise)
      |
    UserAccounts       EXTENDS UserTable: registration and /users, checked to
      |                implement UserTable
      +-- MCUserAccounts, UserAccounts_proofs
    RateLimiter        the counters of the three limiters
      |
    RequestPipeline    EXTENDS RateLimiter: the gates of each route, the answers
      +-- MCRequestPipeline, RequestPipeline_proofs
    Lifecycle          bootstrap, cleanup timer, signals, drain, pool, exit
      +-- MCLifecycle, Lifecycle_proofs
    Markdown           the renderer, a function from the lines of a file to a page
      |  +-- Markdown_proofs
    DocsViewer         EXTENDS Markdown: the viewer's event loop, cache and fetches
      +-- MCDocsViewer
      +-- DocsViewer_proofs   EXTENDS Markdown_proofs too

`TokenSessions` and `UserAccounts` meet in `UserTable`. TokenSessions lets accounts
change by any step of `TableNext` while its requests are in flight; UserAccounts has
the property `ImplementsUserTable`, that whatever the endpoints do, the table changes
by those steps only. What is shown of sessions over the abstract table therefore
holds over the real endpoints, without the product of both state spaces.

`SessionLedger` says what the session endpoints promise without a store, a cleanup job
or a crash: a ledger remembers for ever which tokens were ended; a request presents a
token that verifies, is *accepted* in one step, at which its token must not be ended
(one that expires meanwhile may go either way), and then may be granted, end tokens of
its own subject, or exchange its token, ended by then, for new ones whose parent it is.
`ImplementsLedger` in TokenSessions instantiates it with `tokens <- issued`,
`ended <- everRevoked` and `Standing`, which maps the await a request is at to how far
it has got. The store that forgets expired rows thus behaves as one that does not: that
is what the cutoff of the cleanup and the order of verification and lookup are for.
The ledger does not say that a token is exchanged once, because it is not (finding 1).

### State and actions against the code

- An **action** is what one request does from one await to the next. It takes the
  answer of the database at the instant the statement executes and then runs the
  code up to the next await. Code after an await that reads the clock or mints
  tokens is an action of its own (`RefreshMint`, `LogoutBegin`, ...), because time
  passes between an answer and the code that reads it. `pc` is the await a request
  is at; `map` in `PROJECT.json` gives the lines of every definition.
- **TokenSessions.** `req[r]` is the request in slot `r`: its operation, `pc`, the
  token it presented, the optional refresh token of a logout, the row it read and
  its status. A clock tick is one second. A `jti` is a counter, standing for UUIDs.
  `issued` holds every token signed; a client may present any of them, any number
  of times. `everRevoked`, `seen`, `replayed` and `parent` are ghosts no guard reads.
- **Failures.** `DatabaseFault` is a read or a write that throws before it took
  effect, `LostAcknowledgement` a write that took effect and whose answer is an
  error, `Restart` the process dying and coming back. `Fail` says what each caller
  gets, which differs: 500 through Passport, 401 from refresh and from the outer
  catch of logout, 204 from its inner catch.
- **UserAccounts.** `call[c]` carries the actor as authentication read it, the
  target, the email and role asked for, and the row loaded. `Normalize` (trim and
  lower case in the code) and `Collate` (what the column's collation compares) are
  constants. `Updated` is Sequelize's UPDATE of the changed columns only.
  `saw` is a ghost: what a call has witnessed of its target since it arrived.
- **RequestPipeline.** A request is a route, a client and its position in
  `Chain(route)`, the middlewares it goes through. Some of them wait (`Awaiting`);
  between two that wait a request runs without giving up control, so an action is the
  verdict of the gate it waits at and the whole stretch up to the next (`Run`), with
  every limiter on the way. A gate's verdict on the request itself (origin, body,
  token, role) is a free choice; a limiter's follows from its counters. `sent` is the
  answer of the last step, of which the properties speak.
- **RateLimiter.** `hits` and `resetAt` are the counters and window ends that
  express-rate-limit keeps per client; `letIn` is a ghost with the times at which
  requests were let through. `Recent` are those of the last window, of which
  `BurstBound` and `RefusalIsEarned` speak.
- **Lifecycle.** `phase` of the process, the client connections, the handlers with
  the pool connections they hold, the timer, and the shutdowns under way (each of the
  two signals starts one of its own; the second delivery of a signal kills). A handler
  goes on when its client hangs up. A connection is `receiving` from its first instant,
  or from the first bytes of another request, until a whole request is there: if its
  client goes silent then, only the checks of `headersTimeout` close it, which
  `server.close()` ends (`TimeOut`); one that is idle between two requests is closed by
  `server.close()` or by `keepAliveTimeout`.

- **DocsViewer.** One action per event of the page: a click on a document or on a
  result, the box submitted or emptied, the answer of a fetch. A file in the cache is
  awaited without a turn of the event loop, so a search runs on through cached files
  up to the next fetch (`SearchOn`) and, where it ends, goes on into the load that the
  submit handler makes. `loads` and `searches` are what awaits a fetch; answers come in
  any order. `asked` is a ghost: the newest load, and its rivals, the loads that awaited
  their fetch when it began; with them it says which page may be the last.
- **Markdown.** A line is what the tests of the renderer's loop can tell of it (blank,
  with a `|`, bullet, fence, ...), a block of output its tag and the lines it shows.
  A loop of the code is a table of its iterations (what line i emits, and the line to
  go on at) given to `Emitted`: `Tokenized` is the first, over fences, and
  `MarkdownToHtml` the second, whose iteration is `Branch`.
  `RendersWhole` says what a reader expects without that loop, by counting fences;
  blank lines at the end of code are trimmed (`CodeShown`) and not expected.

## 3. Runs

| Run | Question | Result |
|---|---|---|
| `SessionsCore` | Two concurrent requests of one account and the cleanup job: do revocations last, are revoked credentials refused, does 204 mean revoked, is the ledger implemented? | holds |
| `SessionsTwoAccounts` | Do refresh and logout keep accounts apart, and is the invariant of the proofs kept through a failed statement, lost acknowledgement or restart? | holds |
| `SessionsAccounts` | Is whoever a request acts as the account its credential names, and are signed claims ones that account had while the request ran, although two accounts change and exchange emails meanwhile? | holds |
| `SessionsLive` | Is every request answered, is every expired revocation purged, and is the ledger implemented with faults and restarts? | holds |
| `RefreshReplay` | Does a refresh token yield at most one pair? | violated, finding 1 |
| `LogoutFault` | Does 204 mean revoked when a statement fails? | violated, finding 2 |
| `AccountsEmails` | One account per mailbox, answers that were true at some instant of the call, no lost columns, with racing registrations and updates? | holds |
| `AccountsRights` | The same of answers, with deletes and a fault; does every call get one; is every change of a row authorised, and are all changes those of UserTable? | holds |
| `Pipeline` | Do the limits hold in any interval and across a restart, is every 429 earned by the client's own requests, is the session checked before anything is disclosed, is every request answered? | holds |
| `ErrorContract` | Does every error follow the documented contract? | violated, finding 3 |
| `LifecycleStop` | Does a graceful stop lose no answer, cut no statement, start no cleanup, and end, unless a client is silent in the middle of a request or never stops sending? | holds |
| `Viewer` | Does the page settle on the newest load or one that raced with it, with the marks of the last submit, and do status and list agree, however answers overtake one another; does every search end; is every line of a file shown? | holds |

`SessionsCore` is the run of a session's life: arrivals of login, refresh and logout
by both slots, tokens that expire at different times (access 1, refresh 2), clock up
to 3, so that tokens expire and their rows are purged while requests hold them.

### Bounds

- *Slots.* Every race listed is between two handlers, or between a handler and the
  cleanup job, the clock or an account change. Two slots and a free environment
  give all of these. The runs about account changes and liveness use one slot and
  let the environment race with it; `SessionsAccounts` has two accounts, so that one
  may take the email the other gave up, and no faults and no cleanup, which the other
  runs have.
- *Clock* (`MaxNow` 1 to 3) and lifetimes 1 and 2 s: a token can be fresh, about to
  expire, expired with its row present, and expired with its row purged.
- *Tokens* (`MaxJti` 2 to 6): login plus a refresh of its token (4), or two
  refreshes of it (6). `CanMint` only stops requests from arriving that could mint
  beyond the bound, so that an admitted request is never blocked by it.
- *Faults* (1 where there are any): each finding needs one; the proofs hold for any.
- *Sweeps* 1, or 2 where overlaps matter; a sweep is the cutoff it computed.
- *Accounts.* Three spellings of two mailboxes are the least with a collision and a
  difference. `AccountsEmails` leaves two ids free, so that two registrations race for
  one mailbox; `AccountsRights` leaves one, and lets deletes and faults race with it.
- *Limits.* A window of 2 s, a general limit of 2 and special limits of 1, four requests
  of two clients, clock to 3, one restart: a burst across a window's end and across the
  restart, a lockout and its end. Client `k1` calls what the special limiters count,
  `k2` everything else (`ByClient`), so that no limiter may charge one for the other.
  One slot is enough: stretches are indivisible, and what requests share is the
  counters, which a stretch reads and writes in one step.
- *Viewer.* Two documents (a search has a fetch before and after another's), two terms
  that are searched, of which one fills the list (`ResultCap` 2), and one that is too
  short, four acts of the user, one failed fetch, files of a blank line; or, for a user
  who only reads, every file of up to four lines of the twelve kinds
  (`BrowsingOrReading`): four lines hold a table with a row after something else, a fence
  with code between two lines, and each kind next to each other; longer files are what
  the proof is for. A user's acts do not depend on what a file says.
- *Lifecycle.* Two connections that send any number of requests of up to four
  statements (the most a handler makes), two cleanups: one of each can be in flight
  when a signal arrives.
- Symmetry of the request and call slots and of the ids that no
  initial row has is used in the runs without liveness properties only.

### Fairness

`FairSpec` of TokenSessions, RequestPipeline and Lifecycle is weak fairness of the
steps of each request in flight: the event loop resumes a handler whose answer has
arrived, and the driver reports either a result or an error. In TokenSessions also of
the start and the end of a cleanup: the timer is set at bootstrap and not cleared
before shutdown. UserAccounts states no fairness: its calls make at most three steps,
and `NoCallIsStuck` says that the next one is always enabled. Arrivals, faults,
restarts, the clock and account changes owe nothing. Nothing is strongly fair. In
Lifecycle it is also fairness of what `main.ts` awaits and of the timeouts that Node
enforces: `keepAliveTimeout` of an idle connection always, `headersTimeout` only while
the server listens. Clients owe nothing, so that `ShutdownEnds` has two exceptions,
which are the code's (`main.ts:32` sets no limit): a connection that stays `receiving`
for ever, and one that is busy again and again. Dropping either exception makes the
run fail. In DocsViewer it is fairness of the answers that searches await, which a
browser gives one way or the other (`SearchEnds` needs nothing of the loads).

## 4. Findings

1. **A refresh token can be exchanged twice** (`RefreshReplay`). `isBlacklisted` and
   `addToBlacklist` are separated by awaits (`RefreshTokenUseCase.ts:32` and `:46`)
   and the upsert does not tell whether the row was new, so two concurrent refreshes
   both mint. The README (line 154) promises rotation "para evitar replay". What does
   hold is `RotationChain`: each pair still comes from a revoked token of the same
   account.
2. **Logout answers 204 although the refresh token stays valid** (`LogoutFault`). The
   catch at `LogoutUseCase.ts:49`, meant for expired or invalid tokens, also swallows
   a database failure.
3. **Not every error follows the contract** (`ErrorContract`). `REQUEST_FLOWS.md:28`
   says all errors end in `errorHandler`; the 401 of Passport (plain text) and the 429 of
   the limiters are answered by the libraries.

A remark: with `NODE_ENV=test`, `cleanupExpired` clears the whole `Set`
(`TokenBlacklistService.ts:42`), live revocations included. `RevocationOutlivesToken`
fails with `Backend = "memory"` for this reason, and the theorems about it assume the
database. The test suites never run the job, so this is no finding.

## 5. What is proved

Every theorem but `RendererIsWhole`, which is about a function, is about `Spec` without
fairness; all hold for any number of slots,
users, tokens, clients, documents, faults, restarts, and for any limits and lifetimes:
the bounds of the runs are constants like the others. Nothing is assumed but the named
`ASSUME`s of the modules, which TLC evaluates for every instance.

| Module | Theorem | States |
|---|---|---|
| `TokenSessions_proofs` | `TypeCorrect` | `[]TypeOK` |
| | `SessionInvariant` | `[](TypeOK /\ SessionInv)` |
| | `RevocationsLast` | `[](Backend = "database" => RevocationOutlivesToken)` |
| | `StaleRejected` | `[](Backend = "database" => StaleCredentialRejected)` |
| | `Rotation` | `[]RotationChain` |
| | `OwnTokensOnly` | `OnlyOwnTokensRevoked` |
| `TokenSessions_identity_proofs` | `IdentityIsCurrent` | `[]GrantedIdentityIsCurrent` |
| | `LogoutRevokes` | `[](faults = 0 => LogoutRevokesBoth)` |
| | `ClaimsAreCurrent` | `MintedClaimsAreCurrent` |
| `TokenSessions_ledger_proofs` | `RefinesLedger` | `Backend = "database" => ImplementsLedger` |
| `UserAccounts_proofs` | `AccountsTypeCorrect`, `AccountsInvariant` | `[]TypeOK`, `[](TypeOK /\ AccountsInv)` |
| | `MailboxHasOneAccount` | `[]OneAccountPerMailbox` |
| | `RefinesUserTable` | `ImplementsUserTable` |
| | `ChangesAreAuthorised` | `AccountChangesAreAuthorised` |
| | `NoLostUpdate` | `OnlyNamedColumnsChange` |
| | `AnswersAreTrue` | `AnswersWereTrue` |
| `RequestPipeline_proofs` | `PipelineTypeCorrect`, `PipelineInvariant` | `[]TypeOK`, `[]PipelineInv` |
| | `RefusalsEarned` | `[]RefusalIsEarned` |
| | `SessionFirst` | `[]SessionComesFirst` |
| | `BurstIsBounded` | `[]BurstBound` |
| `Lifecycle_proofs` | `LifecycleTypeCorrect`, `LifecycleInvariant` | `[]TypeOK`, `[](TypeOK /\ LifecycleInv)` |
| | `PoolOutlives` | `[]PoolOutlivesRequests` |
| | `StopsClean` | `[]CleanStop` |
| | `NoLateSweep` | `NoSweepDuringShutdown` |
| `DocsViewer_proofs` | `ViewerTypeCorrect`, `ViewerInvariant` | `[]TypeOK`, `[]ViewerInv` |
| | `PageSettles` | `[]SettledPageIsTheOneAsked` |
| | `MarksAreTheLast` | `[]MarksFollowTheLastSubmit` |
| | `SearchIsComplete` | `[]StatusAgreesWithResults` |
| | `PageStaysWhole` | `[]PageIsWhole` |
| `Markdown_proofs` | `RendererIsWhole` | `RendersWhole(src, MarkdownToHtml(src))`, for every well fenced `src \in Seq(Line)` |

Each inductive invariant is a definition of its own: `SessionInv` of TokenSessions,
which the run `SessionsTwoAccounts` checks, the others at the head of the proof modules.
TLC finds no violation of any of them on the instances of section 3 either.

**Sessions.** `RevocationOutlivesToken` is not inductive: a cleanup removes rows by
their `expiresAt`, which means nothing unless a row carries the expiry of its token
(`RowsMatchTokens`), which in turn needs that no two tokens share a jti and that no
row or revocation is ahead of the counter (`JtisAreUnique`); and a cutoff says that a
row has expired only if the clock has reached it (`CutoffsArePast`). These four
(`WorldInv` in the proof) speak of the store, the tokens and the clock, not of the
requests, and each action touches them in one of few ways: it revokes, mints,
sweeps, reloads or ticks, and there is a lemma for each (`WorldMint`, ...).
`StaleCredentialRejected` adds what the code knows of a request at each await
(`RequestOK`): a request that arrived with a revoked token still has a token in
`everRevoked`, so the check refuses it unless the row is gone, and then the token has
expired. `RotationChain` adds that a refresh at `mint` has revoked its token and read
the row of its subject, and `OnlyOwnTokensRevoked` that a logout at `revokeRefresh` has
compared the subjects.

*Identity and answers* rest on a second invariant, `AnswersInv`: while a request is
under way its ghost `seen` holds every row of the table (`IdentityOK`), so that whatever
row it reads at an await is one it has seen. Past its lookup, the row it acts as
is the one its token names: by id, and for a bearer token by email too, since the
strategy compares both. `LogoutOK` says which revocations are behind a logout at each await;
the hypothesis `faults = 0` of `LogoutRevokes` is where finding 2 lies, and only the
refresh token needs it.

*The refinement* maps each action to one of the ledger's, or to a stutter: the store,
its cleanup and the restarts are invisible. The step that is not obvious is acceptance:
the code looks for a row, the ledger asks whether the token was ever ended, and the two
agree while the token verifies, by `RevocationOutlivesToken`. With
`NODE_ENV=test` they do not, hence the hypothesis on `Backend`.

**Accounts.** One row per mailbox holds because every statement that writes an email
checks the index (`RowsInv` keeps what the table looks like), whatever the lookups
before it have seen. `ImplementsUserTable` is a step simulation with the identity as
its mapping. The rest needs what a call at each await carries (`CallOK`): a call that
writes has an actor with the right to, names its columns from its request, and has in
`saw` what was true since it arrived. `AccountsAssumption` says that normalising is
idempotent, that no two seeded emails name one mailbox, and that a seeded email names the
same mailbox as its normal form.

**Pipeline.** `BurstBound` splits what a limiter let a client through in the last
window: the last `Counted` requests belong to the counter's current window
(`CounterOK`), the others (`Earlier`) came before it opened, and of those at most one
limit is recent for the window before and one for each restart. `RefusalIsEarned` is the
other half: a counter at its limit knows that many requests of its own window, which is
not over. Both need the history of what was let through as a sequence, hence the ghost
`letIn`. `SessionComesFirst` follows from where a request without a session may wait
(`GateOK`).

**Lifecycle.** `LifecycleInv` relates the shutdowns to the listener, the timer, the
pool and the connections: a pool drains only after the last connection is gone.

**Viewer.** The page settles because what still awaits a fetch is the newest load or one
of its rivals, and once nothing does the page is that of one of them (`LoadsOK`). The
marks are those of the last submit because, once no search is under way, the newest load
was asked to mark that term unless it is a click on a result (`MarksAsked`), and because
the page is that load's when it had no rival that asked for something else. A search is complete because it has found, of the
documents before the one it waits for, those that match, while no fetch failed
(`SearchOK`); and because a list leaves a document out only when it is full, for which
the sum of hits (`MapThenSumSet`, a recursive function) is shown to be monotone. The
page is whole because it holds what the renderer made of its document (`PageRendered`),
which no action changes but by rendering anew, and because of what follows.

**Renderer.** `RendererIsWhole` is about files of any length. No induction theorem of
the library can be used here, but every induction is a choice of a least
counterexample: `LeastElement` says that a set of naturals that is not empty has a least
element. From it, `LoopEmits` shows that the recursive function in `Emitted` exists and
is the one its definition says, provided that every iteration moves on, and `EmittedIn`
that a property handed on from each iteration to the one before it holds of all that is
emitted; the property is given as a set for each position, because an operator cannot be.
It is used twice. For `Tokenized` the property is that the tokens from here on cover the
lines from here on, without gaps or overlaps, and that no token starts inside a fence
(`TokensSpread`, `CutFacts`; that a fence is open after an odd number of them is
`FencesStay`). For the loop of `markdownToHtml` it is `Shows`: the blocks from here on
show the lines from here on that must be shown, in order, and code only in `pre`; and
two lists of one kind do not touch. Each branch keeps it (`BranchFits`, with a lemma for
tables, lists, code and single lines), and `BranchShows` puts the blank lines and the
blocks together.

## 6. What is only model-checked

Liveness (`EveryRequestAnswered` and `ExpiredRevocationsPurged` of TokenSessions,
`EveryRequestAnswered` of RequestPipeline, `ShutdownEnds` of Lifecycle, `SearchEnds` of
DocsViewer) and the `ENABLED` of `NoCallIsStuck`: both are out of the prover's reach.

## 7. Mutants

Next to some definitions stands a defective form of it, marked *Defect*:
`FindRefreshUserOnly`, `AnySubject`, `UpdatedWhole`, ... No specification uses them.
Put in the place of the definition they follow, they break the property
`PROJECT.json` pairs them with: they show what each property is sensitive to.

## 8. Plan

Modelled: UserTable, TokenBlacklist, TokenSessions with its proofs, SessionLedger and the
refinement checked, UserAccounts, RateLimiter and RequestPipeline, Lifecycle, Markdown
and DocsViewer.

Proved: all safety properties of the passing runs but `NoCallIsStuck`, and both
refinements.

Lifecycle and TokenSessions are not composed. What a shutdown adds to the sessions is
that the handler of a client that hung up may end between two of its statements
(`main.ts:33`); `Restart` of TokenSessions ends every handler at any await, of which
this is a case, so that its safety properties and its refinement hold over it. What
would be new in a composition is liveness only: that a login or refresh whose client
waits gets its answer before the process stops, which follows from `CleanStop` and
`EveryRequestAnswered` apart.

## 9. Not modelled

- What Joi accepts as an email, password or token, and `normalizeEmail` as a string
  function: a validated email is a value, and `Normalize` a function on those values.
  Which fields a body may leave out is modelled (`UpdateBody`, the refresh token of a
  logout). Emails longer than the column (190) pass Joi and fail in MySQL, passwords of
  up to 64 characters can exceed the 72 bytes bcrypt reads; both are facts about strings.
- Signatures, secrets, issuer and audience: nothing but this service's tokens passes
  `jwt.verify`, of its own type (`Verifies`).
- Configuration: read once, before anything else runs, and refused as a whole; the
  values are the constants of the models. An interval of the cleanup longer than the
  2^31 - 1 ms of a Node timer passes the schema and would run the job every millisecond;
  it is a fact about `setInterval`, whose ticks are free in the models.
- Logging (Winston, Morgan, redaction): no handler reads it. Redaction is a recursive
  rewriting of strings inside objects, where what matters is what the strings hold.
- In the viewer: inline markup, snippets, scrolling, and how `highlightTermInContent`
  cuts text nodes; a page carries the term it marks.
- Swagger, `scripts/sync-project-metadata.js` (run by hand, one write after another),
  Docker files: outside the service.
