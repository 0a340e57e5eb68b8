----------------------------- MODULE RateLimiter -----------------------------
(***************************************************************************)
(* The three limiters of security.middleware, and the store of             *)
(* express-rate-limit behind each: a counter per client and the end of its *)
(* current window, which opens with the first request it counts.           *)
(***************************************************************************)
EXTENDS Integers, Sequences, FiniteSets

CONSTANTS
    Clients,    \* client addresses, the keys of the counters
    Limit,      \* Limit[l]: RATE_LIMIT_MAX_REQUESTS, ..._LOGIN_..., ..._REGISTER_...
    Window      \* RATE_LIMIT_WINDOW_MS, the same for all three

Limiter == {"api", "login", "register"}

ASSUME LimiterAssumption ==
    /\ Limit \in [Limiter -> Nat]
    /\ Window \in Nat \ {0}

VARIABLES
    now,        \* the clock
    hits,       \* hits[l][k]: requests of client k counted in its window
    resetAt,    \* resetAt[l][k]: the end of that window
    restarts,   \* how often the process has been started again
    letIn       \* ghost, which no guard reads: letIn[l][k]: when limiter l let a
                \* request of client k through

limiterVars == <<now, hits, resetAt, restarts, letIn>>

Zero == [l \in Limiter |-> [k \in Clients |-> 0]]

LimiterInit ==
    /\ now = 0 /\ hits = Zero /\ resetAt = Zero /\ restarts = 0
    /\ letIn = [l \in Limiter |-> [k \in Clients |-> <<>>]]

LimiterTypeOK ==
    /\ now \in Nat /\ restarts \in Nat
    /\ hits \in [Limiter -> [Clients -> Nat]]
    /\ resetAt \in [Limiter -> [Clients -> Nat]]
    /\ letIn \in [Limiter -> [Clients -> Seq(Nat)]]

Expired(l, k) == resetAt[l][k] <= now

\* What the store answers when it counts one more request.
HitsAfter(l, k) == IF Expired(l, k) THEN 1 ELSE hits[l][k] + 1

\* Defect: the counter is compared before it is incremented.
LetsOneMore(l, k) == HitsAfter(l, k) <= Limit[l] + 1

\* Defect: the last request of the allowance is refused.
LetsOneFewer(l, k) == HitsAfter(l, k) < Limit[l]

LetsThrough(l, k) == HitsAfter(l, k) <= Limit[l]

\* The limiters of L, one after the other, count a request of k, the refused one
\* too; the window does not move.
CountHit(L, k) ==
    /\ hits' = [l \in Limiter |->
         IF l \in L THEN [hits[l] EXCEPT ![k] = HitsAfter(l, k)] ELSE hits[l]]
    /\ resetAt' = [l \in Limiter |->
         IF l \in L /\ Expired(l, k) THEN [resetAt[l] EXCEPT ![k] = now + Window]
                                   ELSE resetAt[l]]
    /\ letIn' = [l \in Limiter |->
         IF l \in L /\ LetsThrough(l, k) THEN [letIn[l] EXCEPT ![k] = Append(@, now)]
                                       ELSE letIn[l]]
    /\ UNCHANGED <<now, restarts>>

\* Time passes.
Elapse ==
    /\ now' = now + 1
    /\ UNCHANGED <<hits, resetAt, restarts, letIn>>

\* A new process has empty stores.
ForgetCounters ==
    /\ hits' = Zero /\ resetAt' = Zero /\ restarts' = restarts + 1
    /\ UNCHANGED <<now, letIn>>

\* The requests of client k that limiter l let through in the last Window seconds.
Recent(l, k) == {i \in DOMAIN letIn[l][k] : letIn[l][k][i] > now - Window}

\* Windows are fixed, so that a client that spends the end of one and the start
\* of the next gets twice the limit, and each restart forgives it once more; but
\* never more than that in any Window seconds.
BurstBound ==
    \A l \in Limiter, k \in Clients : Cardinality(Recent(l, k)) <= (2 + restarts) * Limit[l]

=============================================================================
