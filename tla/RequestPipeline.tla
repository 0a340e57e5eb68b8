--------------------------- MODULE RequestPipeline ---------------------------
(***************************************************************************)
(* What a request goes through before and after its controller: the        *)
(* middlewares of app.ts, those of its route, and the error handler.       *)
(*                                                                         *)
(* A gate is a middleware that may answer instead of calling next().  Some *)
(* gates wait (for the body, for a file, for the database); between two of *)
(* those a request runs without giving up control, so that an action is    *)
(* the verdict of the gate a request waits at and the stretch of gates up  *)
(* to the next one that waits.  What a gate decides from the request alone *)
(* (an origin, a body, a token, a role) is a choice; what the limiters     *)
(* decide follows from their counters.                                     *)
(***************************************************************************)
EXTENDS RateLimiter

CONSTANTS
    Req,            \* slots for concurrent requests
    Calls,          \* bound: Calls[k]: the routes that client k calls
    MaxRequests,    \* bound: requests in all
    MaxNow,         \* bound: the clock stops here
    MaxRestarts     \* bound: restarts of the process

Public == {"register", "login", "refresh", "health", "file", "unknown"}
Protected == {"logout", "profile", "createUser", "listUsers", "getUser", "updateUser",
              "deleteUser", "unknownUsers"}
Route == Public \union Protected \union {"preflight"}

ASSUME PipelineAssumption ==
    Calls \in [Clients -> SUBSET Route] /\ {MaxRequests, MaxNow, MaxRestarts} \subseteq Nat

VARIABLES
    req,            \* req[r]: the request in slot r
    sent,           \* the answer the last step sent, if any
    arrived         \* requests so far

vars == <<now, hits, resetAt, restarts, letIn, req, sent, arrived>>

\* A free slot.
Idle == [route |-> "none", client |-> {}, pos |-> 0, authenticated |-> FALSE]

Pending(r) == req[r] # Idle

Init ==
    /\ LimiterInit
    /\ req = [r \in Req |-> Idle]
    /\ sent = {} /\ arrived = 0

------------------------------------------------------------------------------
(* The gates of every route, in the order they are mounted.                *)

\* The part of app.ts every request goes through; cors ends a preflight.
Common == <<"cors", "body", "api">>

Mounted(route) ==
    CASE route = "register"                   -> <<"register", "validate", "handler">>
      [] route = "login"                      -> <<"login", "validate", "local", "handler">>
      [] route = "refresh"                    -> <<"login", "validate", "handler">>
      [] route \in {"logout", "profile"}      -> <<"jwt", "validate", "handler">>
      [] route \in {"createUser", "listUsers"} -> <<"jwt", "role", "validate", "handler">>
      [] route \in {"getUser", "updateUser", "deleteUser"}
                                              -> <<"jwt", "validate", "role", "handler">>
      [] route = "unknownUsers"               -> <<"jwt", "notFound">>
      [] route = "health"                     -> <<"alive">>
      [] route = "file"                       -> <<"static", "notFound">>
      [] OTHER                                -> <<"notFound">>

\* Defect: the routes of users validate before they authenticate.
ChainValidatingFirst(route) ==
    Common \o (IF route \in {"getUser", "updateUser", "deleteUser"}
               THEN <<"validate", "jwt", "role", "handler">> ELSE Mounted(route))

Chain(route) == IF route = "preflight" THEN <<"cors", "preflight">>
                                       ELSE Common \o Mounted(route)

\* The gates that wait.
Awaiting == {"body", "static", "jwt", "local", "handler"}

Gate(r) == IF Pending(r) THEN Chain(req[r].route)[req[r].pos] ELSE "none"

\* Defect: a status no document knows.
DecidesOddly(gate) == CASE gate = "validate" -> 422 [] gate \in {"cors", "role"} -> 403
                        [] gate = "notFound" -> 404 [] gate = "preflight" -> 204
                        [] gate = "alive" -> 200 [] gate \in Limiter -> 429

\* What the other gates answer when they do not call next().
Decides(gate) ==
    CASE gate = "cors" \/ gate = "role" -> 403
      [] gate = "validate"              -> 400
      [] gate = "notFound"              -> 404
      [] gate \in Limiter               -> 429
      [] gate = "preflight"             -> 204
      [] gate = "alive"                 -> 200

\* next(error): errorHandler answers with the status of an AppError, or with 500.
\* The limiters answer by themselves, with a body of their own.
Throws == {"cors", "validate", "role", "notFound"}

------------------------------------------------------------------------------
(* How a request moves.                                                    *)

\* The answer of gate `by` to the request q.
Answer(q, by, status, contract) ==
    {[route |-> q.route, client |-> q.client, authenticated |-> q.authenticated,
      by |-> by, status |-> status, contract |-> contract]}

\* Slot r is answered at the gate where it waits; nothing is counted.
AnswerHere(r, status, contract) ==
    /\ req' = [req EXCEPT ![r] = Idle]
    /\ sent' = Answer(req[r], Gate(r), status, contract)
    /\ UNCHANGED <<now, hits, resetAt, restarts, letIn>>

\* The request q in slot r runs from gate i of its route, through gates that call
\* next(), until one answers or waits.
Run(r, q, i) ==
    \E j \in i..Len(Chain(q.route)), k \in q.client :
      LET gate == Chain(q.route)[j]
          passed == {Chain(q.route)[n] : n \in i..(j - 1)}
      IN  /\ passed \intersect (Awaiting \union {"notFound", "preflight", "alive"}) = {}
          /\ \A l \in Limiter \intersect passed : LetsThrough(l, k)
          /\ CountHit(Limiter \intersect (passed \union {gate}), k)
          /\ IF gate \in Awaiting
             THEN req' = [req EXCEPT ![r] = [q EXCEPT !.pos = j]] /\ sent' = {}
             ELSE /\ gate \in Limiter => ~LetsThrough(gate, k)
                  /\ req' = [req EXCEPT ![r] = Idle]
                  /\ sent' = Answer(q, gate, Decides(gate), gate \in Throws)

Resume(r, q) == Run(r, q, q.pos + 1)

------------------------------------------------------------------------------

Arrive(r) ==
    /\ ~Pending(r) /\ arrived < MaxRequests
    /\ \E k \in Clients : \E route \in Calls[k] :
         Run(r, [Idle EXCEPT !.route = route, !.client = {k}], 1)
    /\ arrived' = arrived + 1

\* A body that does not parse, or is too large, is an error of the parser and no
\* AppError: 500.
ParseBody(r) ==
    /\ Gate(r) = "body"
    /\ AnswerHere(r, 500, TRUE) \/ Resume(r, req[r])
    /\ UNCHANGED arrived

\* A file of the documentation, next() when there is none, or a failure to read it.
ServeFile(r) ==
    /\ Gate(r) = "static"
    /\ AnswerHere(r, 200, FALSE) \/ AnswerHere(r, 500, TRUE) \/ Resume(r, req[r])
    /\ UNCHANGED arrived

\* Passport answers a failed authentication by itself, in plain text; an error
\* of a strategy goes to errorHandler.
Authenticate(r) ==
    /\ Gate(r) \in {"jwt", "local"}
    /\ \/ AnswerHere(r, 401, FALSE)
       \/ AnswerHere(r, 500, TRUE)
       \/ Resume(r, [req[r] EXCEPT !.authenticated = TRUE])
    /\ UNCHANGED arrived

\* The errors a controller throws or lets through.
HandlerErrors(route) ==
    CASE route \in {"refresh", "logout"}       -> {401}
      [] route \in {"register", "createUser"}  -> {409, 500}
      [] route \in {"getUser", "deleteUser"}   -> {404, 500}
      [] route = "updateUser"                  -> {404, 409, 500}
      [] route = "listUsers"                   -> {500}
      [] OTHER                                 -> {}

\* Defect: nothing forwards the rejection of an asynchronous controller.
HandleUnwrapped(r) ==
    /\ Gate(r) = "handler"
    /\ HandlerErrors(req[r].route) = {} /\ AnswerHere(r, 200, FALSE)
    /\ UNCHANGED arrived

\* asyncHandler passes a rejected promise to next().
Handle(r) ==
    /\ Gate(r) = "handler"
    /\ \/ AnswerHere(r, 200, FALSE)
       \/ \E status \in HandlerErrors(req[r].route) : AnswerHere(r, status, TRUE)
    /\ UNCHANGED arrived

\* The process dies and is started again: requests and counters are gone.
Restart ==
    /\ restarts < MaxRestarts
    /\ ForgetCounters
    /\ req' = [r \in Req |-> Idle] /\ sent' = {}
    /\ UNCHANGED arrived

Tick ==
    /\ now < MaxNow
    /\ Elapse
    /\ sent' = {}
    /\ UNCHANGED <<req, arrived>>

Step(r) == ParseBody(r) \/ ServeFile(r) \/ Authenticate(r) \/ Handle(r)

Next == Tick \/ Restart \/ \E r \in Req : Arrive(r) \/ Step(r)

Spec == Init /\ [][Next]_vars

\* The event loop resumes every request.
FairSpec == Spec /\ \A r \in Req : WF_vars(Step(r))

------------------------------------------------------------------------------
(* Properties.                                                             *)

\* Every variable has its type, and every status is one the API documents.
TypeOK ==
    /\ LimiterTypeOK
    /\ arrived \in 0..MaxRequests
    /\ req \in [Req -> [route : Route \union {"none"}, client : SUBSET Clients,
                        pos : 0..7, authenticated : BOOLEAN]]
    /\ \A a \in sent : a.status \in {200, 204, 400, 401, 403, 404, 409, 429, 500}

\* A client is answered 429 by a limiter only if that limiter has let Limit of its
\* own requests through in the last Window seconds: neither other clients, nor its
\* own refused attempts, nor the other limiters can lock it out, and no lockout
\* outlasts the window.
RefusalIsEarned ==
    \A a \in sent : a.by \in Limiter =>
      \A k \in a.client : Cardinality(Recent(a.by, k)) >= Limit[a.by]

\* On a route that needs a session, who presents none learns nothing of the
\* resource, of its own rights or of the schema: only an origin, a body or a
\* limit is refused before the session.
SessionComesFirst ==
    \A a \in sent : a.route \in Protected /\ ~a.authenticated =>
      a.by \in {"cors", "body", "api", "jwt"}

\* Every error is answered by errorHandler, with the fields of its contract
\* (REQUEST_FLOWS.md: "Todo error termina en errorHandler con el contrato").
ErrorsFollowContract ==
    \A a \in sent : a.status >= 400 => a.contract

\* Every request is answered, whatever its controller throws, or dies with the
\* process.
EveryRequestAnswered == \A r \in Req : Pending(r) ~> ~Pending(r)

=============================================================================
