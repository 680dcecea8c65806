------------------------------ MODULE Process ------------------------------
(***************************************************************************)
(* The process of backend/internal/app: start-up, the API server of        *)
(* internal/api/services, the worker pool, and the order in which they are *)
(* shut down after a signal, with the timers that bound it.                *)
(*                                                                         *)
(* The pool is that of PoolSummary, how many jobs are owed and where its   *)
(* monitor is, plus the two timers of the monitor.  The clock counts from  *)
(* the signal.  A goroutine that can run does so within `latency`, which says  *)
(* how busy the machine is: "by" is the instant its next step must have    *)
(* been taken, and time waits for it.                                      *)
(***************************************************************************)
EXTENDS Integers, Sequences, Config

CONSTANTS
    ShutdownTimeout,  \* cfg.ShutdownTimeout: drain timer and HTTP shutdown
    Margin,           \* workerShutdownMargin
    UnwindWindow,     \* unwindWindow of the pool
    Latencies,        \* how late goroutines may run
    MaxLatency,       \* no latency is greater
    MaxJobs,          \* bound: jobs owed at the same time
    MaxRequests       \* bound: HTTP requests in flight

ASSUME TimersAssumption ==
    /\ ShutdownTimeout \in Nat \ {0} /\ Margin \in Nat
    /\ UnwindWindow \in Nat
    /\ MaxLatency \in Nat /\ Latencies \subseteq 0 .. MaxLatency
ASSUME BoundsAssumption == MaxJobs \in Nat /\ MaxRequests \in Nat

VARIABLES
    latency,     \* how late a goroutine may run
    env,         \* the environment and the arguments of the process
    cfg,         \* the configuration, once loaded
    signalled,   \* ctx of Run is cancelled
    clock,       \* time since the signal
    main,        \* where Run is
    mainBy,      \* the latest instant of its next step
    timer,       \* when the context main waits under expires
    code,        \* the exit code, once decided
    database,    \* "none", "open" or "closed"
    listener,    \* "none", "open" or "closed"
    serveFailed, \* server.Serve returned something but ErrServerClosed
    inflight,    \* HTTP requests being handled, or awaited on a new connection
    pinging,     \* those of them that wait for database.Ping
    busy,        \* history: requests were in flight when the shutdown began
    budget,      \* ShutdownBudget.end, the zero time while not anchored
    pool,        \* "none", or where the pool's monitor is
    poolBy,      \* the latest instant of its next step
    poolTimer,   \* when its timer fires
    owed,        \* jobs accepted and not settled
    reported     \* what recordAbandoned reported

bootVars == <<latency, env, cfg>>
timeVars == <<bootVars, signalled, clock, budget>>
runVars == <<main, mainBy, timer, code, database>>
serverVars == <<listener, serveFailed, busy>>
httpVars == <<serverVars, inflight, pinging>>
poolVars == <<pool, poolBy, poolTimer, owed, reported>>
vars == <<timeVars, runVars, httpVars, poolVars>>

Never == ShutdownTimeout + Margin + UnwindWindow + 10 * MaxLatency + 1
NoCode == -1

\* budget.end before it is anchored: a deadline that has passed for whoever reads it.
Unanchored == 0

\* The margin covers the unwind window and the five steps of the pool that may
\* each run late, and the six of Run when the signal comes during start-up; with
\* 1s and 100ms, any latency below 166ms.
Timely ==
    /\ UnwindWindow + 5 * latency < Margin /\ 6 * latency < Margin
    /\ latency < ShutdownTimeout

StartupSteps == {"load", "open", "role", "start", "listen"}
Soon == IF signalled THEN clock + latency ELSE Never

NoConfig == [loaded |-> FALSE]

Summary == INSTANCE PoolSummary

Init ==
    /\ latency \in Latencies
    /\ env \in Environments
    /\ cfg = NoConfig
    /\ signalled = FALSE
    /\ clock = 0
    /\ main = "load"
    /\ mainBy = Never
    /\ timer = Never
    /\ code = NoCode
    /\ database = "none"
    /\ listener = "none"
    /\ serveFailed = FALSE
    /\ inflight = 0
    /\ pinging = 0
    /\ busy = FALSE
    /\ budget = Unanchored
    /\ pool = "none"
    /\ poolBy = Never
    /\ poolTimer = Never
    /\ owed = 0
    /\ reported = 0

-----------------------------------------------------------------------------
(* The environment: the signal, time, clients and jobs.                     *)

\* SIGINT or SIGTERM, at any moment; whoever waits for ctx.Done is woken.
Signal ==
    /\ ~signalled
    /\ main # "exited"
    /\ signalled' = TRUE
    /\ mainBy' = latency
    /\ poolBy' = IF pool = "watching" THEN latency ELSE poolBy
    /\ UNCHANGED <<bootVars, clock, main, timer, code, database, httpVars, budget, pool,
                   poolTimer, owed, reported>>

\* Time matters until Run has decided its exit code.  The budget's goroutine
\* may have been started late, too, when the signal comes during Load.
Tick ==
    /\ signalled
    /\ main \notin {"returning", "exited"}
    /\ clock < mainBy /\ clock < poolBy
    /\ budget = Unanchored /\ main # "load" => clock < 2 * latency
    /\ clock' = clock + 1
    /\ UNCHANGED <<bootVars, signalled, runVars, httpVars, budget, poolVars>>

RequestArrives ==
    /\ listener = "open"
    /\ inflight < MaxRequests
    /\ main # "exited"
    /\ inflight' = inflight + 1
    /\ UNCHANGED <<timeVars, runVars, serverVars, pinging, poolVars>>

RequestEnds ==
    /\ inflight > pinging
    /\ main # "exited"
    /\ inflight' = inflight - 1
    /\ UNCHANGED <<timeVars, runVars, serverVars, pinging, poolVars>>

\* readinessHandler: the ping holds a connection of the database and has no
\* deadline of its own; it ends when the database answers or the client goes.
PingBegins ==
    /\ pinging < inflight
    /\ main \notin {"returning", "exited"}
    /\ pinging' = pinging + 1
    /\ UNCHANGED <<timeVars, runVars, serverVars, inflight, poolVars>>

PingEnds ==
    /\ pinging > 0
    /\ main # "exited"
    /\ pinging' = pinging - 1
    /\ UNCHANGED <<timeVars, runVars, serverVars, inflight, poolVars>>

\* Accept fails for good, for a reason that is not a shutdown.
ServerFails ==
    /\ listener = "open"
    /\ main \in {"serve", "shutdown"}
    /\ serveFailed' = TRUE
    /\ listener' = "closed"
    /\ UNCHANGED <<timeVars, runVars, inflight, pinging, busy, poolVars>>

\* Submit, by whoever holds the pool, as long as it accepts.
JobAccepted ==
    /\ main # "exited"
    /\ Summary!Accepted
    /\ UNCHANGED <<timeVars, runVars, httpVars, poolBy, poolTimer>>

JobSettled ==
    /\ main # "exited"
    /\ Summary!JobSettled
    /\ UNCHANGED <<timeVars, runVars, httpVars, poolBy, poolTimer>>

-----------------------------------------------------------------------------
(* The goroutine of ShutdownBudget.                                         *)

\* ctx is done: budget.end is set and ready closed.  Run makes the budget when
\* it has its configuration.
Anchor(end) ==
    /\ signalled /\ cfg # NoConfig
    /\ budget = Unanchored
    /\ main # "exited"
    /\ budget' = end
    /\ UNCHANGED <<bootVars, signalled, clock, runVars, httpVars, poolVars>>

\* Broken: no time for the cleanup after the drain.
BudgetWithoutMargin == Anchor(clock + ShutdownTimeout)

\* now().Add(timeout + cleanupMargin)
AnchorBudget == Anchor(clock + ShutdownTimeout + Margin)

-----------------------------------------------------------------------------
(* The monitor of the pool, from Start to close(done).                      *)

StopAccepting ==
    /\ main # "exited"
    /\ Summary!Stopped
    /\ poolTimer' = clock + ShutdownTimeout
    /\ poolBy' = clock + ShutdownTimeout + latency
    /\ UNCHANGED <<timeVars, runVars, httpVars>>

DrainExpired ==
    /\ main # "exited"
    /\ clock >= poolTimer
    /\ Summary!Expired
    /\ poolTimer' = clock + UnwindWindow
    /\ poolBy' = clock + UnwindWindow + latency
    /\ UNCHANGED <<timeVars, runVars, httpVars>>

\* close(done), which wakes a main that waits for it.
CloseDone ==
    /\ main # "exited"
    /\ poolBy' = Never
    /\ poolTimer' = Never
    /\ IF main = "wait"
       THEN main' = "drained" /\ mainBy' = clock + latency
       ELSE UNCHANGED <<main, mainBy>>
    /\ UNCHANGED <<timeVars, timer, code, database, httpVars>>

PoolSettled == Summary!Settled /\ CloseDone

\* Broken: recordAbandoned is forgotten.
UnwindUnreported == clock >= poolTimer /\ Summary!Unwound(0) /\ CloseDone

\* case <-unwind.C, with what recordAbandoned reports.
UnwindExpired == clock >= poolTimer /\ Summary!Reports /\ CloseDone

-----------------------------------------------------------------------------
(* Run.                                                                     *)

\* Run returns: deferred calls, then os.Exit.
Return(status) ==
    /\ main' = "returning"
    /\ mainBy' = Soon
    /\ code' = status

Step(next) ==
    /\ main' = next
    /\ mainBy' = Soon
    /\ UNCHANGED code

LoadConfig ==
    /\ main = "load"
    /\ \/ LoadSucceeds(env) /\ Step("open") /\ cfg' = Load(env)
       \/ ~LoadSucceeds(env) /\ Return(1) /\ UNCHANGED cfg
    /\ UNCHANGED <<latency, env, signalled, clock, budget, timer, database,
                   httpVars, poolVars>>

\* The ping fails when the database is down and when ctx is cancelled.
OpenDatabase ==
    /\ main = "open"
    /\ \/ ~signalled /\ Step("role") /\ database' = "open"
       \/ Return(1) /\ UNCHANGED database
    /\ UNCHANGED <<timeVars, timer, httpVars, poolVars>>

\* role(): the first argument, or else what was configured.
Role == IF env.args = <<>> THEN cfg.role ELSE TrimSpace(env.args[1])

\* An invalid argument, the worker role, or the API.
ChooseRole ==
    /\ main = "role"
    /\ \/ ~IsRole(Role) /\ Return(1)
       \/ Role = "worker" /\ Step("idle")
       \/ Role = "api" /\ Step("start")
    /\ UNCHANGED <<timeVars, timer, database, httpVars, poolVars>>

\* workers.Run: nothing but waiting for the signal.
WorkerRole ==
    /\ main = "idle"
    /\ signalled
    /\ Return(0)
    /\ UNCHANGED <<timeVars, timer, database, httpVars, poolVars>>

StartPool ==
    /\ main = "start"
    /\ Step("listen")
    /\ pool' = "watching"
    /\ poolBy' = Soon
    /\ UNCHANGED <<timeVars, timer, database, httpVars, poolTimer, owed,
                   reported>>

\* What a TCP listener may be given.
Ports == 1 .. 65535

\* Listen fails for a port that is none, and whenever the system refuses.
Listen ==
    /\ main = "listen"
    /\ \/ cfg.counts["PORT"] \in Ports /\ Step("serve") /\ listener' = "open"
       \/ Return(1) /\ UNCHANGED listener
    /\ UNCHANGED <<timeVars, timer, database, serveFailed, inflight, pinging,
                   busy, poolVars>>

\* Serve: case err := <-serveResult.
ServeFails ==
    /\ main = "serve"
    /\ serveFailed
    /\ Return(1)
    /\ UNCHANGED <<timeVars, timer, database, httpVars, poolVars>>

\* Serve: case <-ctx.Done(); Shutdown closes the listener and waits for the
\* requests in flight, at most ShutdownTimeout.
BeginShutdown ==
    /\ main = "serve"
    /\ signalled
    /\ main' = "shutdown"
    /\ timer' = clock + ShutdownTimeout
    /\ mainBy' = IF inflight = 0 THEN clock + latency
                 ELSE clock + ShutdownTimeout + latency
    /\ listener' = "closed"
    /\ busy' = (inflight > 0)
    /\ UNCHANGED <<timeVars, code, database, serveFailed, inflight, pinging,
                   poolVars>>

\* Broken: Shutdown waits without a limit.
ShutdownExpiresNever == FALSE

\* server.Shutdown returns an error, and so does Serve: it polls, and may not
\* have noticed that the last request has ended.
ShutdownExpires ==
    /\ main = "shutdown"
    /\ clock >= timer
    /\ Return(1)
    /\ UNCHANGED <<timeVars, timer, database, httpVars, poolVars>>

\* server.Shutdown returns nil, and serveResult what server.Serve returned.
ShutdownReturns ==
    /\ main = "shutdown"
    /\ IF serveFailed THEN Return(1) ELSE Step("budget")
    /\ UNCHANGED <<timeVars, timer, database, httpVars, poolVars>>

\* It does so once no request is in flight.
ServerStops == inflight = 0 /\ ShutdownReturns

\* The select of pool.Wait, under the deadline of the budget.
WaitUntilBudget ==
    /\ main = "budget"
    /\ timer' = budget
    /\ IF pool = "closed" /\ clock < budget
       THEN main' = "drained" /\ mainBy' = Soon
       ELSE IF pool = "closed"
       THEN main' \in {"drained", "expired"} /\ mainBy' = Soon
       ELSE main' = "wait" /\ mainBy' = budget + latency
    /\ UNCHANGED <<timeVars, code, database, httpVars, poolVars>>

\* Broken: deadline() does not wait for ready.
BeginWaitEarly == WaitUntilBudget

\* budget.Context(), once ready; ctx is done by then, for Serve has returned nil.
BeginWait == budget # Unanchored /\ WaitUntilBudget

WaitExpires ==
    /\ main = "wait"
    /\ clock >= timer
    /\ Step("expired")
    /\ UNCHANGED <<timeVars, timer, database, httpVars, poolVars>>

\* pool.Wait returns: nil or a loss after "drained", the context's error after
\* "expired".
ReturnFromWait(status) ==
    /\ main \in {"drained", "expired"}
    /\ Return(status)
    /\ UNCHANGED <<timeVars, timer, database, httpVars, poolVars>>

\* Broken: a loss has an exit code of its own.
WaitReturnsDistinct ==
    ReturnFromWait(IF main = "expired" THEN 1 ELSE IF reported > 0 THEN 2 ELSE 0)

\* A loss is logged and is no failure; an expired wait is one.
WaitReturns == ReturnFromWait(IF main = "expired" THEN 1 ELSE 0)

\* defer database.Close(), which waits for every connection to be returned,
\* and os.Exit, which ends every goroutine.
Exit ==
    /\ main = "returning"
    /\ database = "open" => pinging = 0
    /\ main' = "exited"
    /\ mainBy' = Never
    /\ database' = IF database = "open" THEN "closed" ELSE database
    /\ listener' = IF listener = "open" THEN "closed" ELSE listener
    /\ UNCHANGED <<timeVars, timer, code, serveFailed, inflight, pinging, busy,
                   poolVars>>

Exited == main = "exited" /\ UNCHANGED vars

-----------------------------------------------------------------------------
Startup == LoadConfig \/ OpenDatabase \/ ChooseRole \/ StartPool \/ Listen
Serving == \/ WorkerRole \/ ServeFails \/ BeginShutdown \/ ShutdownExpires
           \/ ServerStops
Leaving == BeginWait \/ WaitExpires \/ WaitReturns \/ Exit
Draining == StopAccepting \/ DrainExpired \/ PoolSettled \/ UnwindExpired
Environment == \/ Signal \/ RequestArrives \/ RequestEnds \/ PingBegins
               \/ PingEnds \/ ServerFails \/ JobAccepted \/ JobSettled

Next == \/ Startup \/ Serving \/ Leaving \/ Draining
        \/ AnchorBudget \/ Tick \/ Environment \/ Exited

Spec == Init /\ [][Next]_vars

\* Goroutines that can run do, and time passes; neither clients nor jobs owe
\* anything, and no signal need come.
FairSpec == Spec /\ WF_vars(Startup \/ Serving \/ Leaving)
                 /\ WF_vars(Draining) /\ WF_vars(AnchorBudget) /\ WF_vars(Tick)

-----------------------------------------------------------------------------
(* Properties.                                                              *)

TypeOK ==
    /\ latency \in Latencies /\ env \in Environments
    /\ signalled \in BOOLEAN /\ serveFailed \in BOOLEAN /\ busy \in BOOLEAN
    /\ clock \in 0 .. Never
    /\ main \in StartupSteps \cup {"idle", "serve", "shutdown", "budget", "wait",
                                   "drained", "expired", "returning", "exited"}
    /\ pool \in {"none", "watching", "draining", "unwinding", "closed"}
    /\ mainBy \in 0 .. Never /\ timer \in 0 .. Never /\ budget \in 0 .. Never
    /\ poolBy \in 0 .. Never /\ poolTimer \in 0 .. Never
    /\ code \in {NoCode, 0, 1}
    /\ database \in {"none", "open", "closed"}
    /\ listener \in {"none", "open", "closed"}
    /\ inflight \in 0 .. MaxRequests /\ pinging \in 0 .. inflight
    /\ owed \in 0 .. MaxJobs /\ reported \in 0 .. MaxJobs

\* What Run does with its configuration, it may do.  The database is opened
\* with a secret that is not blank; the pool is started for the API only, with
\* counts that NewPool takes as they are, so that the capacity on /metrics is
\* the queue's; and a server listens on the port that was configured.  Load
\* lets a port pass that is none: that process has opened the database and
\* started its pool before it fails.
ConfigSound ==
    /\ database # "none" => \A n \in Secrets : Trimmed[cfg.secrets[n]] # ""
    /\ pool # "none" => /\ Role = "api"
                        /\ \A n \in Counts : cfg.counts[n] \in Nat \ {0}
    /\ listener # "none" => cfg.counts["PORT"] \in Ports

\* The budget outlasts the pool: its two timers, started late and fired late,
\* still end before the deadline that was anchored to the same signal.
WaitInBudget == Timely => main # "expired"

\* Exit code 0 never hides a loss, however late goroutines run: jobs the
\* process leaves behind were reported by the pool before.
ExitZeroAccounts == main = "exited" /\ code = 0 => owed <= reported

\* Exit code 1 after the API was listening means that the server failed or had
\* requests to wait for; jobs, stuck or lost, never fail the container.
FailureMeansServer ==
    Timely /\ main = "exited" /\ code = 1 /\ listener # "none"
       => serveFailed \/ busy

\* Requests keep the database until they end, unless the process has failed.
RequestsKeepDatabase == database = "closed" /\ inflight > 0 => code = 1

\* After a signal the process always exits, whatever jobs and clients do; the
\* one thing it may wait for without a limit is a ping of the database.
SignalEnds ==
    signalled ~> (main = "exited" \/ (main = "returning" /\ pinging > 0))

\* What process.go says of a loss, that "this surfaces on /metrics": when the
\* pool reports it, someone can still ask or is just being answered.
LossScrapable ==
    [][reported' > reported => listener = "open" \/ inflight > 0]_vars
=============================================================================
