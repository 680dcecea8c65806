--------------------------- MODULE PoolRefinement ---------------------------
(***************************************************************************)
(* The pool implements the ledger, and the summary that Process runs.  A   *)
(* job is owed from the moment Submit returns nil until settled.Add, and   *)
(* what is reported is p.abandoned, the number Wait gives its caller.      *)
(***************************************************************************)
EXTENDS Pool

LedgerPhase == CASE monitor = "closed" -> "closed"
                 [] stopping /\ monitor # "closed" -> "closing"
                 [] OTHER -> "open"

LedgerJob == [j \in Jobs |-> IF call[j] # "ok" THEN "outside"
                             ELSE IF stage[j] = "settled" THEN "settled"
                             ELSE "owed"]

Ledger == INSTANCE DrainLedger WITH
            phase <- LedgerPhase, job <- LedgerJob, report <- abandoned

\* Every behaviour of the pool under the scheduler's fairness is one of the
\* ledger: no job is accepted after shutdown began, settled twice or taken
\* back, done is closed only when the report covers the loss, and it is closed.
ImplementsLedger == Ledger!Spec

\* Whether the monitor went by the drain timer shows in the drainer it started;
\* it is on its way until it closes done.
SummaryPool == CASE monitor = "watching" -> "watching"
                 [] monitor = "closed" -> "closed"
                 [] monitor \notin {"watching", "closed"} /\ drainer = "off" -> "draining"
                 [] OTHER -> "unwinding"

\* Owed is the difference recordAbandoned takes.
Summary == INSTANCE PoolSummary WITH
             MaxJobs <- Cardinality(Jobs), signalled <- ctxDone,
             pool <- SummaryPool, owed <- accepted - settled,
             reported <- IF monitor = "closed" THEN abandoned ELSE 0

\* Every behaviour of the pool is one that Process reckons with.
ImplementsSummary == Summary!Spec
=============================================================================
