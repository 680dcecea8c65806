----------------------------- MODULE DrainLedger -----------------------------
(***************************************************************************)
(* What the worker pool promises to its callers, without goroutines,       *)
(* channels or timers.  A job the pool accepts is owed until it is         *)
(* settled.  Shutdown refuses new jobs, may end with jobs still owed, and  *)
(* then has reported at least as many as lost.  It always ends.            *)
(***************************************************************************)
EXTENDS Naturals, FiniteSets

CONSTANT Jobs

VARIABLES
    phase,   \* "open", "closing" or "closed"
    job,     \* "outside", "owed" or "settled", for each job
    report   \* how many jobs shutdown has reported as lost

ledgerVars == <<phase, job, report>>

OwedJobs == {j \in Jobs : job[j] = "owed"}
AcceptedJobs == {j \in Jobs : job[j] # "outside"}

Init ==
    /\ phase = "open"
    /\ job = [j \in Jobs |-> "outside"]
    /\ report = 0

\* Submit returns nil.
Accept(j) ==
    /\ phase = "open"
    /\ job[j] = "outside"
    /\ job' = [job EXCEPT ![j] = "owed"]
    /\ UNCHANGED <<phase, report>>

\* A consumer has recorded the job's outcome: possible in every phase.
Settle(j) ==
    /\ job[j] = "owed"
    /\ job' = [job EXCEPT ![j] = "settled"]
    /\ UNCHANGED <<phase, report>>

BeginShutdown ==
    /\ phase = "open"
    /\ phase' = "closing"
    /\ UNCHANGED <<job, report>>

\* The loss is reported once, and may include jobs that settle meanwhile.
Report(n) ==
    /\ phase = "closing"
    /\ report = 0
    /\ n > 0
    /\ Cardinality(OwedJobs) <= n
    /\ n <= Cardinality(AcceptedJobs)
    /\ report' = n
    /\ UNCHANGED <<phase, job>>

Close ==
    /\ phase = "closing"
    /\ Cardinality(OwedJobs) <= report
    /\ phase' = "closed"
    /\ UNCHANGED <<job, report>>

FinishShutdown == Close \/ \E n \in 1 .. Cardinality(AcceptedJobs) : Report(n)

Next ==
    \/ \E j \in Jobs : Accept(j) \/ Settle(j)
    \/ BeginShutdown
    \/ FinishShutdown

\* What the pool never does, and with it what it must do in the end: the drain
\* timer and the unwind timer bound a shutdown that has begun.
SafetySpec == Init /\ [][Next]_ledgerVars
Spec == SafetySpec /\ WF_ledgerVars(FinishShutdown)
=============================================================================
