------------------------------ MODULE Process ------------------------------
(***************************************************************************)
(* The server process: background workers, requests in flight, the         *)
(* connection pool and the one shutdown that stops, drains, joins and      *)
(* closes them in this order.                                              *)
(*                                                                         *)
(* A worker that has passed its gate starts a pass whatever happens next.  *)
(* A pass takes a connection, and the assignment sweep a second one while  *)
(* the rows of the first are open; neither wait of the sweep has a         *)
(* deadline (context.Background()).  A request may need two connections    *)
(* as well, and gives up after its budget.                                 *)
(***************************************************************************)
EXTENDS Naturals, FiniteSets

CONSTANTS
    BackgroundWorkers,  \* periodic workers
    Sweeper,            \* the one that runs RecoverAssigns
    FailureSlots,       \* room in the channel of fatal failures, 4 in the code
    HttpRequests,       \* requests served at once
    PoolConns,          \* MaxConns, 20 in the code
    MaxServed           \* bound on requests

ASSUME ProcessAssumption ==
    /\ Sweeper \in BackgroundWorkers
    /\ {FailureSlots, PoolConns, MaxServed} \subseteq Nat

VARIABLES
    shutdown,   \* up, stopping, draining, joining, closing, exited
    stopped,    \* workers whose stop channel is closed
    worker,     \* where each worker is
    failures,   \* failures in the channel
    http,       \* where each request is
    served,     \* requests begun
    poolOpen,   \* the pool hands out connections
    hole        \* the database no longer answers

processVars == <<shutdown, stopped, worker, failures, http, served, poolOpen, hole>>

\* Connections each step holds.
Held(step) == IF step \in {"one", "second"} THEN 1 ELSE IF step = "two" THEN 2 ELSE 0

InUse ==
    LET Busy(f, k) == {x \in DOMAIN f : Held(f[x]) >= k}
    IN  Cardinality(Busy(worker, 1)) + Cardinality(Busy(worker, 2))
        + Cardinality(Busy(http, 1)) + Cardinality(Busy(http, 2))

CanAcquire == poolOpen /\ InUse < PoolConns

\* A worker in the middle of a pass, or about to begin one.
Passing(w) == worker[w] \in {"gated", "first", "one", "second", "two"}

keepProcess == <<shutdown, stopped, poolOpen, hole>>

-----------------------------------------------------------------------------
(* Background workers (runPeriodic).                                       *)

Moves(w, from, to) ==
    /\ worker[w] = from
    /\ worker' = [worker EXCEPT ![w] = to]
    /\ UNCHANGED <<keepProcess, failures, http, served>>

\* A tick and its look at the stop channel; with both ready select takes either.
TickPassesGate(w) == w \notin stopped /\ Moves(w, "wait", "gated")
WorkerStops(w) == w \in stopped /\ Moves(w, "wait", "exited")

\* fn: a pass over the database, or the limiter's GC, which needs no connection.
BeginPass(w) == Moves(w, "gated", "first")
CollectGarbage(w) == w # Sweeper /\ Moves(w, "gated", "wait")

AcquireFirst(w) == CanAcquire /\ Moves(w, "first", "one")
EndPass(w) == ~hole /\ Moves(w, "one", "wait")

\* RecoverAssigns: every row it has ended is announced over a connection of its own.
SecondWanted(w) == w = Sweeper /\ ~hole /\ Moves(w, "one", "second")
AcquireSecond(w) == CanAcquire /\ Moves(w, "second", "two")
Announced(w) == ~hole /\ Moves(w, "two", "one")

\* The budget of a pass ends every statement but those of the sweep.
PassBudget(w) == w # Sweeper /\ \E step \in {"first", "one"} : Moves(w, step, "wait")

Panic(w) ==
    /\ worker[w] \in {"gated", "one"}
    /\ worker' = [worker EXCEPT ![w] = "panicked"]
    /\ UNCHANGED <<keepProcess, failures, http, served>>

\* Mutant: room for one failure, whoever else fails.
RoomForOne == failures < 1

FailureRoom == failures < FailureSlots

\* Mutant: a panic is logged and the worker ends.
LogFailure(w) == Moves(w, "panicked", "exited")

\* The report goes into the channel before the worker is seen as done.
ReportFailure(w) ==
    /\ worker[w] = "panicked"
    /\ FailureRoom
    /\ failures' = failures + 1
    /\ worker' = [worker EXCEPT ![w] = "exited"]
    /\ UNCHANGED <<keepProcess, http, served>>

-----------------------------------------------------------------------------
(* Requests.                                                               *)

Serves(r, from, to) ==
    /\ http[r] = from
    /\ http' = [http EXCEPT ![r] = to]
    /\ UNCHANGED <<keepProcess, worker, failures>>

BeginRequest(r) ==
    /\ shutdown \in {"up", "stopping"} /\ served < MaxServed
    /\ Serves(r, "idle", "first")
    /\ served' = served + 1

\* A redemption asks for a second connection inside its transaction.
RequestStep(r) ==
    /\ \/ CanAcquire /\ (Serves(r, "first", "one") \/ Serves(r, "second", "two"))
       \/ ~hole /\ (Serves(r, "one", "idle") \/ Serves(r, "one", "second") \/ Serves(r, "two", "one"))
    /\ UNCHANGED served

\* Mutant: the deadline is not seen by a request that waits for a connection.
RequestBudgetOfQueries(r) ==
    (\E step \in {"one", "two"} : Serves(r, step, "idle")) /\ UNCHANGED served

\* requestDeadlineMiddleware: 25 seconds; also an acquire from the closed pool.
RequestBudget(r) ==
    (\E step \in {"first", "one", "second", "two"} : Serves(r, step, "idle")) /\ UNCHANGED served

-----------------------------------------------------------------------------
(* Shutdown (ServeLifecycle).                                              *)

Shuts(from, to) ==
    /\ shutdown = from
    /\ shutdown' = to
    /\ UNCHANGED <<worker, http, served, hole>>

\* A signal or a fatal serve error.
Signal == Shuts("up", "stopping") /\ UNCHANGED <<stopped, failures, poolOpen>>

\* A fatal failure of a worker is received.
BackgroundError ==
    /\ failures > 0
    /\ Shuts("up", "stopping")
    /\ failures' = failures - 1
    /\ UNCHANGED <<stopped, poolOpen>>

StopWorkers ==
    /\ Shuts("stopping", "draining")
    /\ stopped' = BackgroundWorkers
    /\ UNCHANGED <<failures, poolOpen>>

\* httpServer.Shutdown returns: nothing in flight, or ten seconds are over.
Drained == Shuts("draining", "joining") /\ UNCHANGED <<stopped, failures, poolOpen>>

\* Mutant: the pool is closed as soon as the requests are drained.
JoinNobody == TRUE

Joined == \A w \in BackgroundWorkers : worker[w] = "exited"

\* pool.Close: no connection is handed out any more, and those in use are waited for.
ClosePool ==
    /\ Joined
    /\ Shuts("joining", "closing")
    /\ poolOpen' = FALSE
    /\ UNCHANGED <<stopped, failures>>

Exit == InUse = 0 /\ Shuts("closing", "exited") /\ UNCHANGED <<stopped, failures, poolOpen>>

\* The database stops answering.
DatabaseHangs ==
    /\ ~hole
    /\ hole' = TRUE
    /\ UNCHANGED <<shutdown, stopped, poolOpen, worker, failures, http, served>>

-----------------------------------------------------------------------------
ProcessInit ==
    /\ shutdown = "up" /\ stopped = {} /\ poolOpen = TRUE /\ hole = FALSE
    /\ worker = [w \in BackgroundWorkers |-> "wait"] /\ failures = 0
    /\ http = [r \in HttpRequests |-> "idle"] /\ served = 0

\* What a worker does of itself once it runs.
WorkerRuns(w) ==
    \/ WorkerStops(w) \/ BeginPass(w) \/ CollectGarbage(w) \/ EndPass(w) \/ Announced(w)
    \/ PassBudget(w) \/ ReportFailure(w)

ShutdownStep == BackgroundError \/ StopWorkers \/ Drained \/ ClosePool \/ Exit

ProcessNext ==
    /\ shutdown # "exited"
    /\ \/ \E w \in BackgroundWorkers :
            \/ WorkerRuns(w) \/ TickPassesGate(w) \/ Panic(w)
            \/ AcquireFirst(w) \/ SecondWanted(w) \/ AcquireSecond(w)
       \/ \E r \in HttpRequests : BeginRequest(r) \/ RequestStep(r) \/ RequestBudget(r)
       \/ ShutdownStep \/ Signal \/ DatabaseHangs

\* The runtime schedules every goroutine, a deadline fires, a batch is finite, and the pool
\* serves those who wait in the order they came: strong fairness for a worker's turn.
ProcessFairness ==
    /\ \A w \in BackgroundWorkers :
         /\ WF_processVars(WorkerRuns(w))
         /\ SF_processVars(AcquireFirst(w)) /\ SF_processVars(AcquireSecond(w))
         /\ SF_processVars(EndPass(w))
    /\ \A r \in HttpRequests : WF_processVars(RequestBudget(r))
    /\ WF_processVars(ShutdownStep)

-----------------------------------------------------------------------------
(* Properties.                                                             *)

\* No pass finds the pool closed, a pass that began after the stop included (lifecycle.go:
\* "a recovery pass mid-HTTP must finish its DB writes before pool.Close()").
PoolOutlivesPasses == \A w \in BackgroundWorkers : Passing(w) => poolOpen

\* The sweep waits for an answer that will not come.
SweepHangs == hole /\ worker[Sweeper] \in {"one", "two"}

\* Once begun, a shutdown drains and comes to wait for the workers, every worker but the sweep
\* ends, with passes and requests in flight, whatever workers panic meanwhile and whether the
\* database answers or not: these waits have deadlines.  The join has none: the process exits
\* unless the sweep waits for ever in a statement of its own, which runs without a deadline.
ShutdownCompletes ==
    /\ (shutdown # "up") ~> (shutdown \in {"joining", "closing", "exited"})
    /\ (shutdown # "up") ~> (\A w \in BackgroundWorkers \ {Sweeper} : worker[w] = "exited")
    /\ (shutdown # "up") ~> (shutdown = "exited" \/ []SweepHangs)

\* A process in which a worker has died does not go on serving without it.
WorkerDeathEndsServing ==
    (\E w \in BackgroundWorkers : worker[w] = "exited") ~> (shutdown # "up")

\* The sweep gets the connections it waits for without a deadline, although requests hold
\* all of them and wait for more: their own deadlines give them back.
SweepIsServed ==
    (worker[Sweeper] \in {"first", "second"}) ~> (worker[Sweeper] \notin {"first", "second"})

\* When it is told to, or when a worker has died, the process goes to its end in the order that keeps
\* the pool under the passes, and gets there unless a statement of the sweep hangs for ever.
EndsInOrder == []PoolOutlivesPasses /\ ShutdownCompletes /\ WorkerDeathEndsServing
=============================================================================
