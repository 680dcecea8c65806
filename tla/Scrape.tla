------------------------------- MODULE Scrape -------------------------------
(***************************************************************************)
(* A reader of /metrics beside a running pool: the handler of              *)
(* api/handlers/metrics.go takes a Snapshot of metrics/counters.go, whose  *)
(* five atomic loads happen one after another while workers, submitters    *)
(* and the shutdown go on.  One scraper asks again and again; an answer is *)
(* complete when nothing is left to load.                                  *)
(***************************************************************************)
EXTENDS Pool

VARIABLES
    loads,      \* the fields Snapshot has yet to load, in their order
    shown,      \* the last answer, being replaced load by load
    afterDone   \* history: the pool was done when this scrape began

scrapeVars == <<loads, shown, afterDone>>
allVars == <<vars, scrapeVars>>

\* The counters an exposition calls _total; depth is a gauge.
Totals == {"processed", "failed", "deadLettered", "abandoned"}

ScrapeInit ==
    /\ Init
    /\ loads = <<>>
    /\ shown = metrics
    /\ afterDone = FALSE

\* A request reaches metricsHandler, which calls Snapshot.
Begin(order) ==
    /\ loads = <<>>
    /\ loads' = order
    /\ afterDone' = (monitor = "closed")
    /\ UNCHANGED <<shown, vars>>

\* Broken: dead letters are loaded before failures.
BeginReordered ==
    Begin(<<"depth", "processed", "deadLettered", "failed", "abandoned">>)

\* The order of the struct literal of Snapshot.
ScrapeBegins ==
    Begin(<<"depth", "processed", "failed", "deadLettered", "abandoned">>)

\* Broken: a load takes what it reads, as a Swap would.
LoadResets ==
    /\ loads # <<>>
    /\ shown' = [shown EXCEPT ![Head(loads)] = metrics[Head(loads)]]
    /\ metrics' = [metrics EXCEPT ![Head(loads)] = 0]
    /\ loads' = Tail(loads)
    /\ UNCHANGED <<afterDone, shutVars, jobVars, counters, history>>

\* One atomic load.  After the last the response is written.
Load ==
    /\ loads # <<>>
    /\ shown' = [shown EXCEPT ![Head(loads)] = metrics[Head(loads)]]
    /\ loads' = Tail(loads)
    /\ UNCHANGED <<afterDone, vars>>

ScrapeNext ==
    \/ Next /\ UNCHANGED scrapeVars
    \/ ScrapeBegins
    \/ Load

ScrapeSpec == ScrapeInit /\ [][ScrapeNext]_allVars

-----------------------------------------------------------------------------
(* What a torn snapshot still promises its reader.                          *)

Answered == loads = <<>>

\* A total in one answer is never below the same total in an earlier answer,
\* also when jobs settle after they were counted as abandoned: a scraper that
\* sees a total fall takes it for a restart of the process.
TotalsNeverFall == [][\A c \in Totals : shown[c] <= shown'[c]]_allVars

\* A job is in at most one of processed and dead-lettered although the two are
\* loaded at different times, and no answer runs ahead of what was accepted.
ShownOnce ==
    Answered => shown.processed + shown.deadLettered <= accepted

\* An answer begun after done was closed misses no accepted job: what is not
\* processed or dead-lettered in it is in abandoned.
LossShown ==
    (Answered /\ afterDone)
        => shown.processed + shown.deadLettered + shown.abandoned >= accepted

\* failed is loaded before deadLettered, so an answer shows at most one failure
\* per consumer that is not yet a dead letter, however long the scrape takes.
SkewBounded ==
    Answered => shown.failed - shown.deadLettered <= Cardinality(Consumers)
=============================================================================
