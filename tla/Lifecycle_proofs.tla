-------------------------- MODULE Lifecycle_proofs --------------------------
(***************************************************************************)
(* Theorems about Lifecycle, for every number of connections, statements   *)
(* and cleanups, for any requests, and signals delivered in any order.     *)
(***************************************************************************)
EXTENDS Lifecycle, TLAPS

------------------------------------------------------------------------------
(* The inductive invariant behind the safety properties.                   *)

Stopping == \E s \in Signal : shutdown[s] \in {"closing", "draining"}

\* Once a shutdown has begun nothing new comes in, from clients or from the
\* job; once one drains the pool, no connection is left, and none can come.
\* The signals are armed after the server listens, so that nothing stops
\* before it has started.
LifecycleInv ==
    /\ phase = "connecting" => \A s \in Signal : shutdown[s] = "unset"
    /\ Stopping => ~listening /\ ~timer
    /\ pool = "draining" <=> \E s \in Signal : shutdown[s] = "draining"
    /\ pool = "draining" => \A c \in Conn : conn[c] = "closed"
    /\ CleanStop

------------------------------------------------------------------------------
(* Types.                                                                  *)

LEMMA LifecycleConstants ==
    MaxQueries \in Nat /\ MaxSweeps \in Nat
BY LifecycleAssumption DEF LifecycleAssumption

LEMMA ExitType ==
    ASSUME TypeOK, NEW code \in {0, 1, 130}, Exit(code)
    PROVE  TypeOK'
BY DEF TypeOK, Exit, job

LEMMA TypeInit ==
    ASSUME Init
    PROVE  TypeOK
<1>1. 0 \in 0..MaxQueries
  BY LifecycleConstants
<1> QED
  BY <1>1 DEF Init, TypeOK

LEMMA RequestType ==
    ASSUME TypeOK, NEW c \in Conn,
           Open(c) \/ Receive(c) \/ Request(c) \/ Handler(c) \/ HangUp(c)
             \/ TimeOut(c)
    PROVE  TypeOK'
<1> USE LifecycleConstants DEF TypeOK, job
<1>1. CASE Open(c)
  BY <1>1 DEF Open
<1>2. CASE Request(c)
  BY <1>2 DEF Request
<1>3. CASE StartQuery(c)
  BY <1>3 DEF StartQuery
<1>4. CASE EndQuery(c)
  BY <1>4 DEF EndQuery
<1>5. CASE Finish(c)
  BY <1>5 DEF Finish
<1>6. CASE Receive(c) \/ HangUp(c) \/ TimeOut(c)
  BY <1>6 DEF Receive, HangUp, TimeOut
<1> QED
  BY <1>1, <1>2, <1>3, <1>4, <1>5, <1>6 DEF Handler

LEMMA StopType ==
    ASSUME TypeOK, NEW s \in Signal, Deliver(s) \/ ServerClosed(s) \/ PoolDrained(s)
    PROVE  TypeOK'
<1>1. CASE StopIntake(s)
  BY <1>1 DEF TypeOK, StopIntake
<1>2. CASE ServerClosed(s)
  BY <1>2 DEF TypeOK, ServerClosed, server, job
<1>3. CASE Exit(130) \/ Exit(0)
  BY <1>3, ExitType
<1> QED
  BY <1>1, <1>2, <1>3 DEF Deliver, PoolDrained

LEMMA TypeStep ==
    ASSUME TypeOK, [Next]_vars
    PROVE  TypeOK'
<1>1. CASE Bootstrap
  BY <1>1 DEF Bootstrap, TypeOK
<1>2. CASE Crash
  BY <1>2, ExitType DEF Crash
<1>3. CASE JobTick
  BY <1>3 DEF JobTick, TypeOK, server
<1>4. CASE SweepEnds
  BY <1>4 DEF SweepEnds, TypeOK, server
<1>5. CASE UNCHANGED vars
  BY <1>5 DEF vars, TypeOK
<1> QED
  BY <1>1, <1>2, <1>3, <1>4, <1>5, RequestType, StopType DEF Next

\* Every variable has its type.
THEOREM LifecycleTypeCorrect == Spec => []TypeOK
<1>1. TypeOK /\ [Next]_vars => TypeOK'
  BY TypeStep
<1> QED
  BY <1>1, TypeInit, PTL DEF Spec

------------------------------------------------------------------------------
(* The invariant of the stop.                                              *)

LEMMA InvInit ==
    ASSUME Init
    PROVE  LifecycleInv
BY DEF Init, LifecycleInv, Stopping, CleanStop

LEMMA RequestInv ==
    ASSUME TypeOK, LifecycleInv, NEW c \in Conn,
           Open(c) \/ Receive(c) \/ Request(c) \/ Handler(c) \/ HangUp(c)
             \/ TimeOut(c)
    PROVE  LifecycleInv'
<1>1. UNCHANGED <<phase, listening, pool, timer, shutdown>> /\ phase # "exited"
  BY DEF Open, Receive, Request, Handler, StartQuery, EndQuery, Finish, HangUp, TimeOut, job, Running
<1>2. (\A d \in Conn : conn[d] = "closed") /\ ~listening => \A d \in Conn : conn'[d] = "closed"
  BY DEF Open, Receive, Request, Handler, StartQuery, EndQuery, Finish, HangUp, TimeOut, TypeOK
<1> QED
  BY <1>1, <1>2 DEF LifecycleInv, Stopping, CleanStop

LEMMA ExitInv ==
    ASSUME TypeOK, LifecycleInv, Running, NEW code \in {0, 1, 130}, Exit(code),
           code = 0 => InUse = 0 /\ \A c \in Conn : conn[c] = "closed"
    PROVE  LifecycleInv'
<1>1. UNCHANGED <<conn, work, sweep, pool, timer, shutdown>>
  BY DEF Exit, job
<1>2. InUse' = InUse
  BY <1>1 DEF InUse
<1>3. CleanStop'
  BY <1>1, <1>2 DEF Exit, CleanStop
<1> QED
  BY <1>1, <1>3 DEF Exit, LifecycleInv, Stopping

LEMMA StopInv ==
    ASSUME TypeOK, LifecycleInv, NEW s \in Signal,
           Deliver(s) \/ ServerClosed(s) \/ PoolDrained(s)
    PROVE  LifecycleInv'
<1>1. CASE Running /\ shutdown[s] = "armed" /\ StopIntake(s)
  <2>1. phase' = phase /\ phase = "serving" /\ pool' = pool
    BY <1>1 DEF Running, StopIntake, LifecycleInv, TypeOK
  <2>2. shutdown' = [shutdown EXCEPT ![s] = "closing"] /\ ~listening' /\ ~timer'
    BY <1>1 DEF StopIntake
  <2>3. \A t \in Signal : shutdown'[t] = "draining" <=> shutdown[t] = "draining"
    BY <1>1, <2>2 DEF TypeOK
  <2>4. \A c \in Conn : conn[c] = "closed" => conn'[c] = "closed"
    BY <1>1 DEF StopIntake
  <2> QED
    BY <2>1, <2>2, <2>3, <2>4 DEF LifecycleInv, CleanStop
<1>2. CASE ServerClosed(s)
  BY <1>2 DEF ServerClosed, Running, server, job, LifecycleInv, Stopping, CleanStop, TypeOK
<1>3. CASE Running /\ Exit(130)
  BY <1>3, ExitInv
<1>4. CASE PoolDrained(s)
  <2>1. \A c \in Conn : conn[c] = "closed"
    BY <1>4 DEF PoolDrained, LifecycleInv
  <2> QED
    BY <1>4, <2>1, ExitInv DEF PoolDrained
<1> QED
  BY <1>1, <1>2, <1>3, <1>4 DEF Deliver

LEMMA InvStep ==
    ASSUME TypeOK, LifecycleInv, [Next]_vars
    PROVE  LifecycleInv'
<1>1. CASE Bootstrap
  BY <1>1 DEF Bootstrap, LifecycleInv, Stopping, CleanStop
<1>2. CASE Crash
  BY <1>2, ExitInv DEF Crash
<1>3. CASE JobTick \/ SweepEnds
  BY <1>3 DEF JobTick, SweepEnds, server, Running, LifecycleInv, Stopping, CleanStop
<1>4. CASE UNCHANGED vars
  <2>1. InUse' = InUse
    BY <1>4 DEF vars, InUse
  <2> QED
    BY <1>4, <2>1 DEF vars, LifecycleInv, Stopping, CleanStop
<1> QED
  BY <1>1, <1>2, <1>3, <1>4, RequestInv, StopInv DEF Next

\* The invariant of the stop: TypeOK and LifecycleInv together are inductive.
THEOREM LifecycleInvariant == Spec => [](TypeOK /\ LifecycleInv)
<1>1. Init => TypeOK /\ LifecycleInv
  BY TypeInit, InvInit
<1>2. TypeOK /\ LifecycleInv /\ [Next]_vars => (TypeOK /\ LifecycleInv)'
  BY TypeStep, InvStep
<1> QED
  BY <1>1, <1>2, PTL DEF Spec

\* Whichever signals arrive, in whichever order, no request whose client waits
\* finds the pool closed.
THEOREM PoolOutlives == Spec => []PoolOutlivesRequests
<1>1. TypeOK /\ LifecycleInv => PoolOutlivesRequests
  BY DEF TypeOK, LifecycleInv, PoolOutlivesRequests
<1> QED
  BY <1>1, LifecycleInvariant, PTL

\* The process exits with 0 only after every client has its answer and every
\* statement, a cleanup's too, has ended.
THEOREM StopsClean == Spec => []CleanStop
<1>1. LifecycleInv => CleanStop
  BY DEF LifecycleInv
<1> QED
  BY <1>1, LifecycleInvariant, PTL

\* No cleanup starts once a signal is being handled.
THEOREM NoLateSweep == Spec => NoSweepDuringShutdown
<1>1. TypeOK /\ LifecycleInv /\ [Next]_vars =>
        [sweeps' > sweeps => \A s \in Signal : shutdown[s] \in {"unset", "armed"}]_vars
  <2> SUFFICES ASSUME TypeOK, LifecycleInv, Next, sweeps' > sweeps, NEW s \in Signal
               PROVE  shutdown[s] \in {"unset", "armed"}
    OBVIOUS
  <2>1. CASE Bootstrap
    BY <2>1 DEF Bootstrap, LifecycleInv
  <2>2. CASE JobTick
    BY <2>2 DEF JobTick, LifecycleInv, Stopping, TypeOK
  <2>3. CASE ~Bootstrap /\ ~JobTick
    <3>1. sweeps' = sweeps
      BY <2>3 DEF Next, Crash, Exit, Open, Receive, Request, Handler, StartQuery, EndQuery,
                  Finish, HangUp, TimeOut, SweepEnds, Deliver, StopIntake, ServerClosed,
                  PoolDrained, job
    <3> QED
      BY <3>1 DEF TypeOK
  <2> QED
    BY <2>1, <2>2, <2>3
<1> QED
  BY <1>1, LifecycleInvariant, PTL DEF Spec, NoSweepDuringShutdown

=============================================================================
