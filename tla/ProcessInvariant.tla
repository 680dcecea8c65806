-------------------------- MODULE ProcessInvariant --------------------------
(***************************************************************************)
(* The inductive invariant behind the theorems of ProcessProofs: where Run *)
(* and the pool can be together, and how late after the signal each of     *)
(* their steps can come.                                                   *)
(***************************************************************************)
EXTENDS Process

Running == {"watching", "draining", "unwinding"}

\* The steps of Run that only the API role takes, the pool being started.
Started == {"listen", "serve", "shutdown", "budget", "wait", "drained", "expired"}

\* What the station of Run says of pool, listener and requests.
StationInv ==
    /\ main \notin Started \cup {"returning", "exited"} => pool = "none"
    /\ main \in Started => pool # "none"
    /\ main \notin {"serve", "shutdown", "budget", "wait", "drained", "expired",
                    "returning", "exited"} => listener = "none"
    /\ main \in {"serve", "shutdown"} => listener # "none"
    /\ main \in {"shutdown", "budget", "wait", "drained", "expired"} => listener = "closed"
    /\ listener = "none" => inflight = 0
    /\ main \in {"budget", "wait", "drained", "expired"} => inflight = 0
    /\ main = "wait" => pool \in Running
    /\ main = "drained" => pool = "closed"
    /\ main \in {"shutdown", "budget", "wait", "drained", "expired"} => signalled
    /\ pool \in {"draining", "unwinding"} => signalled
    /\ database = "closed" => main = "exited"

\* What Run returns zero for.
OutcomeInv ==
    /\ main \notin {"returning", "exited"} => code = NoCode
    /\ main \in {"returning", "exited"} => code \in {0, 1}
    /\ pool = "none" => owed = 0
    /\ pool = "closed" => owed <= reported
    /\ code = 0 /\ pool # "none" => pool = "closed"
    /\ code = 0 => listener # "open" /\ inflight = 0

\* The latest instant of a step of Run at a station, after the signal.
MainBounded(station, t) ==
    /\ station \in {"load", "role"} => t <= latency
    /\ station \in {"open", "start", "idle"} => t <= 2 * latency
    /\ station = "listen" => t <= 3 * latency
    /\ station = "serve" => t <= 4 * latency
    /\ station = "shutdown" => t <= 5 * latency + ShutdownTimeout
    /\ station = "budget" => t <= 6 * latency + ShutdownTimeout
    /\ station = "wait" => t <= 7 * latency + ShutdownTimeout + Margin
    /\ station \in {"drained", "expired"} => t <= 8 * latency + ShutdownTimeout + Margin
    /\ station = "returning" => t <= 9 * latency + ShutdownTimeout + Margin

\* And of a step of the pool's monitor.
PoolBounded(station, t) ==
    /\ station = "watching" => t <= 3 * latency
    /\ station = "draining" => t <= 4 * latency + ShutdownTimeout
    /\ station = "unwinding" => t <= 5 * latency + ShutdownTimeout + UnwindWindow

TimeInv ==
    /\ ~signalled => clock = 0 /\ budget = Unanchored
    /\ signalled => MainBounded(main, clock) /\ MainBounded(main, mainBy)
    /\ signalled /\ pool \in Running => clock <= poolBy /\ PoolBounded(pool, poolBy)
    /\ budget = Unanchored => clock <= 2 * latency
    /\ budget # Unanchored => /\ ShutdownTimeout + Margin <= budget
                              /\ budget <= 2 * latency + ShutdownTimeout + Margin
    /\ main = "wait" => budget # Unanchored /\ timer = budget
    /\ main = "shutdown" => clock <= mainBy
    /\ main = "shutdown" /\ latency < ShutdownTimeout /\ ~busy => mainBy < timer

\* What is shown under Timely.
TimelyInv ==
    Timely =>
        /\ main # "expired"
        /\ main \in {"returning", "exited"} /\ code = 1 /\ listener # "none"
              => serveFailed \/ busy

IInv == TypeOK /\ StationInv /\ OutcomeInv /\ TimeInv /\ TimelyInv

\* How long after the signal Run may still be undecided, and the pool not
\* ended: a consequence of TimeInv.
DecidedInTime ==
    /\ signalled /\ main \notin {"returning", "exited"}
         => clock <= 8 * latency + ShutdownTimeout + Margin
    /\ signalled /\ pool \in Running
         => clock <= 5 * latency + ShutdownTimeout + UnwindWindow
=============================================================================
