---------------------------- MODULE PoolSummary ----------------------------
(***************************************************************************)
(* What the process needs to know of its worker pool: how many jobs it     *)
(* owes, where the monitor of its shutdown is, and what it reported when   *)
(* done was closed.  Process runs these steps beside its own, under its    *)
(* clock; PoolRefinement says that the pool takes no others.               *)
(***************************************************************************)
EXTENDS Naturals

CONSTANT MaxJobs   \* bound: jobs owed at the same time

VARIABLES
    signalled,  \* the context given to Start is cancelled
    pool,       \* where the monitor is
    owed,       \* jobs accepted and not settled
    reported    \* what recordAbandoned had reported when done was closed

summaryVars == <<signalled, pool, owed, reported>>

Init ==
    /\ signalled = FALSE
    /\ pool = "watching"
    /\ owed = 0
    /\ reported = 0

Cancelled ==
    /\ ~signalled
    /\ signalled' = TRUE
    /\ UNCHANGED <<pool, owed, reported>>

\* Submit returns nil.
Accepted ==
    /\ pool = "watching"
    /\ owed < MaxJobs
    /\ owed' = owed + 1
    /\ UNCHANGED <<pool, reported>>

\* A consumer settles a job: possible at every station, after the report too.
JobSettled ==
    /\ owed > 0
    /\ owed' = owed - 1
    /\ UNCHANGED <<pool, reported>>

Advance(from, to) ==
    /\ pool = from
    /\ pool' = to
    /\ UNCHANGED <<owed, reported>>

\* stopAccepting.
Stopped == signalled /\ Advance("watching", "draining")

\* case <-drain.C.
Expired == Advance("draining", "unwinding")

\* workersDone, or settled: every job is settled, and done is closed.
Settled ==
    /\ owed = 0
    /\ Advance("draining", "closed") \/ Advance("unwinding", "closed")

\* case <-unwind.C: done is closed after a report.
Unwound(loss) ==
    /\ pool = "unwinding"
    /\ pool' = "closed"
    /\ reported' = loss
    /\ UNCHANGED owed

\* Jobs that settled since the loss was counted are in it.
Reports == \E loss \in owed .. MaxJobs : Unwound(loss)

Next ==
    \/ Cancelled
    \/ (Accepted \/ JobSettled \/ Stopped \/ Expired \/ Settled \/ Reports)
         /\ UNCHANGED signalled

Spec == Init /\ [][Next]_summaryVars
=============================================================================
