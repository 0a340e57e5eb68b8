------------------------------ MODULE Lifecycle ------------------------------
(***************************************************************************)
(* The life of the process: main.ts around the HTTP server, the connection *)
(* pool of Sequelize and the cleanup job.                                  *)
(*                                                                         *)
(* A client connection carries one request at a time.  A handler computes, *)
(* and for each of its statements holds a connection of the pool; it goes  *)
(* on when its client hangs up.  The server and the pool are libraries,    *)
(* modelled by what main.ts can see of them.                               *)
(***************************************************************************)
EXTENDS Integers, FiniteSets

CONSTANTS
    Conn,           \* client connections that may be opened
    MaxQueries,     \* statements of a handler at most
    MaxSweeps       \* bound: cleanups in all

ASSUME LifecycleAssumption ==
    {MaxQueries, MaxSweeps} \subseteq Nat

Signal == {"SIGINT", "SIGTERM"}

VARIABLES
    phase,      \* "connecting", "serving", "exited"
    exitCode,   \* 0 after a graceful stop, 1 after a failure, 130 after a kill
    listening,  \* the server accepts connections
    conn,       \* conn[c]: "closed", "receiving" from the start until a whole
                \* request is there, "busy" in it, "idle" after
    work,       \* work[c]: the handler of the last request of c: "none",
                \* "computing", or "querying" with a connection of the pool
    left,       \* left[c]: the statements it may still make
    pool,       \* "open", "draining", "closed"
    timer,      \* the interval of the cleanup job is set
    sweep,      \* the cleanups whose DELETE holds a connection of the pool
    shutdown,   \* shutdown[s]: "unset", "armed", "closing", "draining"
    sweeps      \* cleanups so far

vars == <<phase, exitCode, listening, conn, work, left, pool, timer, sweep,
          shutdown, sweeps>>
server == <<listening, conn, work, left>>
job == <<timer, sweep, sweeps>>

Init ==
    /\ phase = "connecting" /\ exitCode = 0
    /\ listening = FALSE
    /\ conn = [c \in Conn |-> "closed"] /\ work = [c \in Conn |-> "none"]
    /\ left = [c \in Conn |-> 0]
    /\ pool = "open"
    /\ timer = FALSE /\ sweep = 0
    /\ shutdown = [s \in Signal |-> "unset"]
    /\ sweeps = 0

Running == phase # "exited"
InUse == Cardinality({c \in Conn : work[c] = "querying"}) + sweep

\* The process is gone, and with it its connections, handlers and statements.
Exit(code) ==
    /\ phase' = "exited" /\ exitCode' = code
    /\ listening' = FALSE
    /\ UNCHANGED <<conn, work, left, pool, job, shutdown>>

------------------------------------------------------------------------------
(* Start.                                                                  *)

\* authenticate succeeded: listen, start the job, which runs at once, and only
\* then arm both signals.
Bootstrap ==
    /\ phase = "connecting"
    /\ phase' = "serving"
    /\ listening' = TRUE
    /\ timer' = TRUE
    /\ sweep' = sweep + 1 /\ sweeps' = sweeps + 1
    /\ shutdown' = [s \in Signal |-> "armed"]
    /\ UNCHANGED <<exitCode, conn, work, left, pool>>

\* authenticate failed; or, anywhere, an exception nobody catches.
Crash == Running /\ Exit(1)

------------------------------------------------------------------------------
(* Requests.                                                               *)

Open(c) ==
    /\ Running /\ listening /\ conn[c] = "closed" /\ work[c] = "none"
    /\ conn' = [conn EXCEPT ![c] = "receiving"]
    /\ UNCHANGED <<phase, exitCode, listening, work, left, pool, job, shutdown>>

\* The first bytes of another request.
Receive(c) ==
    /\ Running /\ conn[c] = "idle"
    /\ conn' = [conn EXCEPT ![c] = "receiving"]
    /\ UNCHANGED <<phase, exitCode, listening, work, left, pool, job, shutdown>>

\* The request is complete.  A connection that was open when the server closed
\* may still send one, and another after it.
Request(c) ==
    /\ Running /\ conn[c] = "receiving" /\ work[c] = "none"
    /\ conn' = [conn EXCEPT ![c] = "busy"]
    /\ work' = [work EXCEPT ![c] = "computing"]
    /\ left' = [left EXCEPT ![c] = MaxQueries]
    /\ UNCHANGED <<phase, exitCode, listening, pool, job, shutdown>>

StartQuery(c) ==
    /\ Running /\ work[c] = "computing" /\ pool = "open" /\ left[c] > 0
    /\ work' = [work EXCEPT ![c] = "querying"]
    /\ left' = [left EXCEPT ![c] = @ - 1]
    /\ UNCHANGED <<phase, exitCode, listening, conn, pool, job, shutdown>>

EndQuery(c) ==
    /\ Running /\ work[c] = "querying"
    /\ work' = [work EXCEPT ![c] = "computing"]
    /\ UNCHANGED <<phase, exitCode, listening, conn, left, pool, job, shutdown>>

\* The handler answers, at the latest when it finds the pool closed.
Finish(c) ==
    /\ Running /\ work[c] = "computing"
    /\ work' = [work EXCEPT ![c] = "none"]
    /\ left' = [left EXCEPT ![c] = 0]
    /\ conn' = [conn EXCEPT ![c] = IF @ = "busy" THEN "idle" ELSE @]
    /\ UNCHANGED <<phase, exitCode, listening, pool, job, shutdown>>

\* The client hangs up; its handler does not notice.
HangUp(c) ==
    /\ Running /\ conn[c] # "closed"
    /\ conn' = [conn EXCEPT ![c] = "closed"]
    /\ UNCHANGED <<phase, exitCode, listening, work, left, pool, job, shutdown>>

\* keepAliveTimeout closes a connection that sends nothing after its answer.  One
\* that keeps the server waiting for a whole request is closed only while it
\* listens: server.close() ends the checks of headersTimeout and requestTimeout.
TimeOut(c) ==
    /\ Running
    /\ conn[c] = "idle" \/ (conn[c] = "receiving" /\ listening)
    /\ conn' = [conn EXCEPT ![c] = "closed"]
    /\ UNCHANGED <<phase, exitCode, listening, work, left, pool, job, shutdown>>

------------------------------------------------------------------------------
(* The cleanup job.                                                        *)

\* Every tick runs, whatever became of the one before; a pool that is closed
\* fails it at once.
JobTick ==
    /\ Running /\ timer /\ sweeps < MaxSweeps
    /\ sweeps' = sweeps + 1
    /\ sweep' = IF pool = "open" THEN sweep + 1 ELSE sweep
    /\ UNCHANGED <<phase, exitCode, server, pool, timer, shutdown>>

\* Defect: the end of a run is counted whether or not one is in flight.
SweepEndsAnyway ==
    /\ Running /\ sweep' = sweep - 1 /\ sweep > -1
    /\ UNCHANGED <<phase, exitCode, server, pool, timer, sweeps, shutdown>>

SweepEnds ==
    /\ Running /\ sweep > 0
    /\ sweep' = sweep - 1
    /\ UNCHANGED <<phase, exitCode, server, pool, timer, sweeps, shutdown>>

------------------------------------------------------------------------------
(* Stop.                                                                   *)

\* Defect: the job is left running.
StopServing(s) ==
    /\ shutdown' = [shutdown EXCEPT ![s] = "closing"]
    /\ listening' = FALSE
    /\ conn' = [c \in Conn |-> IF conn[c] = "idle" THEN "closed" ELSE conn[c]]
    /\ UNCHANGED <<phase, exitCode, work, left, pool, job>>

\* Defect: server.close() is awaited but never called.
StopJobOnly(s) ==
    /\ shutdown' = [shutdown EXCEPT ![s] = "closing"]
    /\ timer' = FALSE
    /\ UNCHANGED <<phase, exitCode, server, pool, sweep, sweeps>>

\* shutdown(signal), up to its first await: the job stops, and server.close()
\* stops listening and closes the connections between two requests, not those
\* that have sent none yet.
StopIntake(s) ==
    /\ shutdown' = [shutdown EXCEPT ![s] = "closing"]
    /\ timer' = FALSE
    /\ listening' = FALSE
    /\ conn' = [c \in Conn |-> IF conn[c] = "idle" THEN "closed" ELSE conn[c]]
    /\ UNCHANGED <<phase, exitCode, work, left, pool, sweep, sweeps>>

\* A signal is handled once; before it is armed, and the second time, it kills.
Deliver(s) ==
    /\ Running
    /\ IF shutdown[s] = "armed" THEN StopIntake(s) ELSE Exit(130)

\* Defect: the pool is closed without waiting for the server.
DrainAtOnce(s) ==
    /\ Running /\ shutdown[s] = "closing"
    /\ shutdown' = [shutdown EXCEPT ![s] = "draining"]
    /\ pool' = "draining"
    /\ UNCHANGED <<phase, exitCode, server, job>>

\* The server has closed: sequelize.close() takes no statement any more.
ServerClosed(s) ==
    /\ Running /\ shutdown[s] = "closing"
    /\ ~listening /\ \A c \in Conn : conn[c] = "closed"
    /\ shutdown' = [shutdown EXCEPT ![s] = "draining"]
    /\ pool' = "draining"
    /\ UNCHANGED <<phase, exitCode, server, job>>

\* Defect: exit does not wait for the pool.
ExitAtOnce(s) ==
    /\ Running /\ shutdown[s] = "draining"
    /\ Exit(0)

\* The pool has got all its connections back: process.exit(0).
PoolDrained(s) ==
    /\ Running /\ shutdown[s] = "draining" /\ InUse = 0
    /\ Exit(0)

Handler(c) == StartQuery(c) \/ EndQuery(c) \/ Finish(c)

Next ==
    \/ Bootstrap \/ Crash
    \/ \E c \in Conn :
         Open(c) \/ Receive(c) \/ Request(c) \/ Handler(c) \/ HangUp(c) \/ TimeOut(c)
    \/ JobTick \/ SweepEnds
    \/ \E s \in Signal : Deliver(s) \/ ServerClosed(s) \/ PoolDrained(s)

Spec == Init /\ [][Next]_vars

\* Statements end, handlers run, what TimeOut says is closed, and main.ts is resumed
\* when what it awaits is done.  Clients, signals and crashes owe nothing.
FairSpec ==
    /\ Spec
    /\ \A c \in Conn : WF_vars(Handler(c)) /\ WF_vars(TimeOut(c))
    /\ WF_vars(SweepEnds)
    /\ \A s \in Signal : WF_vars(ServerClosed(s)) /\ WF_vars(PoolDrained(s))

------------------------------------------------------------------------------
(* Properties.                                                             *)

\* Every variable has its type.
TypeOK ==
    /\ phase \in {"connecting", "serving", "exited"} /\ exitCode \in {0, 1, 130}
    /\ listening \in BOOLEAN /\ timer \in BOOLEAN
    /\ conn \in [Conn -> {"closed", "receiving", "idle", "busy"}]
    /\ work \in [Conn -> {"none", "computing", "querying"}]
    /\ left \in [Conn -> 0..MaxQueries]
    /\ pool \in {"open", "draining"}
    /\ shutdown \in [Signal -> {"unset", "armed", "closing", "draining"}]
    /\ sweep \in Nat /\ sweeps \in Nat

\* A request whose client still waits never finds the pool closed, even if both
\* signals arrive and two shutdowns run at once.
PoolOutlivesRequests ==
    \A c \in Conn : conn[c] = "busy" => pool = "open"

\* A graceful stop (exit code 0) leaves no client without its answer and cuts no
\* statement short, not even one of a cleanup or of a handler nobody waits for
\* (ARCHITECTURE.md: "apagado graceful, incluyendo el ciclo de vida del job").
CleanStop ==
    phase = "exited" /\ exitCode = 0 =>
      InUse = 0 /\ \A c \in Conn : conn[c] # "busy"

\* No cleanup starts once a shutdown has begun.
NoSweepDuringShutdown ==
    [][sweeps' > sweeps => \A s \in Signal : shutdown[s] \in {"unset", "armed"}]_vars

\* A shutdown ends, whatever statements, cleanups, hang-ups and second signals
\* meet it, unless a client prevents it, since nothing in main.ts limits the time
\* of the drain: one that never completes its request, or one that always sends
\* another on a connection it has.
ShutdownEnds ==
    \A s \in Signal :
      shutdown[s] = "closing" ~>
        \/ phase = "exited"
        \/ \E c \in Conn : [](conn[c] = "receiving")
        \/ \E c \in Conn : []<>(conn[c] = "busy")

=============================================================================
