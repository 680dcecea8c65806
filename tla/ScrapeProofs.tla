---------------------------- MODULE ScrapeProofs ----------------------------
(***************************************************************************)
(* Theorems about an answer of /metrics that is torn apart by the pool,    *)
(* for any finite set of jobs and workers, any capacity and any number of  *)
(* attempts.                                                               *)
(***************************************************************************)
EXTENDS Scrape, PoolProofs

USE DEF shutVars, startVars, workerVars, countVars, counters, jobVars, history,
        work, vars, At, Goto

-----------------------------------------------------------------------------
(* What the pool does to the counters meanwhile.                            *)

\* The totals of one set of metrics are at least those of another.
AtLeast(new, old) ==
    /\ old.processed <= new.processed /\ old.failed <= new.failed
    /\ old.deadLettered <= new.deadLettered /\ old.abandoned <= new.abandoned

\* Every update of a total adds to it.
LEMMA TotalsGrow ==
    ASSUME NEW m \in Metrics
    PROVE  /\ AtLeast(m, m)
           /\ AtLeast([m EXCEPT !.depth = @ + 1], m)
           /\ [m EXCEPT !.depth = @ + 1].abandoned = m.abandoned
           /\ AtLeast([m EXCEPT !.depth = @ - 1], m)
           /\ [m EXCEPT !.depth = @ - 1].abandoned = m.abandoned
           /\ AtLeast([m EXCEPT !.processed = @ + 1], m)
           /\ [m EXCEPT !.processed = @ + 1].abandoned = m.abandoned
           /\ AtLeast([m EXCEPT !.failed = @ + 1], m)
           /\ [m EXCEPT !.failed = @ + 1].abandoned = m.abandoned
           /\ AtLeast([m EXCEPT !.deadLettered = @ + 1], m)
           /\ [m EXCEPT !.deadLettered = @ + 1].abandoned = m.abandoned
           /\ \A n \in Nat :
                 /\ AtLeast([m EXCEPT !.abandoned = @ + n], m)
                 /\ [m EXCEPT !.abandoned = @ + n].abandoned = m.abandoned + n
           /\ m.processed \in Nat /\ m.failed \in Nat /\ m.deadLettered \in Nat
           /\ m.abandoned \in Nat
BY DEF Metrics, AtLeast

\* The exported counter is not behind the one Wait reads.
Exported == abandoned <= metrics.abandoned

LEMMA SubmitAdds ==
    ASSUME TypeOK, NEW j \in Jobs, Submitting(j)
    PROVE  /\ AtLeast(metrics', metrics) /\ UNCHANGED <<abandoned, monitor>>
           /\ metrics'.abandoned = metrics.abandoned
           /\ ~InLock(j) => accepted' = accepted
<1>t. metrics \in Metrics
  BY DEF TypeOK
<1>1. metrics' = metrics \/ metrics' = [metrics EXCEPT !.depth = @ + 1]
  BY DEF Submitting, SubmitEnter, SubmitStopped, Enter, SubmitSend, Send, SubmitFull,
     SubmitCount
<1>2. AtLeast(metrics', metrics) /\ metrics'.abandoned = metrics.abandoned
  BY <1>1, <1>t, TotalsGrow
<1>3. UNCHANGED <<abandoned, monitor>> /\ (~InLock(j) => accepted' = accepted)
  BY DEF Submitting, SubmitEnter, SubmitStopped, Enter, SubmitSend, Send, SubmitFull,
     SubmitCount, InLock
<1> QED
  BY <1>2, <1>3

LEMMA ConsumersAdd ==
    ASSUME TypeOK,
           \/ \E w \in Workers : Working(w) /\ ~Exit(w)
           \/ \E c \in Consumers : Consuming(c)
    PROVE  /\ AtLeast(metrics', metrics) /\ UNCHANGED <<abandoned, monitor, accepted>>
           /\ metrics'.abandoned = metrics.abandoned
<1>t. metrics \in Metrics
  BY DEF TypeOK
<1>1. /\ \/ metrics' = metrics \/ metrics' = [metrics EXCEPT !.depth = @ - 1]
         \/ metrics' = [metrics EXCEPT !.processed = @ + 1]
         \/ metrics' = [metrics EXCEPT !.failed = @ + 1]
         \/ metrics' = [metrics EXCEPT !.deadLettered = @ + 1]
      /\ UNCHANGED <<abandoned, monitor, accepted>>
  <2>1. CASE \E w \in Workers : Working(w) /\ ~Exit(w)
    BY <2>1 DEF Working, CheckContext, BeginAttempt, Succeed, Fail, RetryOrGiveUp,
       AfterFailure, Exhausted
  <2>2. CASE \E c \in Consumers : Consuming(c)
    BY <2>2 DEF Consuming, Receive, Dequeued, Dequeue, CountFailed, DeadLetter,
       HookReturns, Settle
  <2> QED
    BY <2>1, <2>2
<1> QED
  BY <1>1, <1>t, TotalsGrow

LEMMA ControlAdds ==
    ASSUME TypeOK, Exported, Control
    PROVE  /\ AtLeast(metrics', metrics) /\ accepted' = accepted
           /\ Exported'
           /\ monitor = "closed" => monitor' = "closed"
<1>t. metrics \in Metrics /\ count \in Int /\ abandoned \in Nat
  BY DEF TypeOK
<1>s. AtLeast(metrics, metrics)
  BY <1>t, TotalsGrow
<1>1. CASE RecordAbandoned
  <2>1. CASE count <= 0
    BY <1>1, <1>s, <2>1 DEF RecordAbandoned, Exported
  <2>2. CASE count > 0
    <3>1. count \in Nat /\ metrics' = [metrics EXCEPT !.abandoned = @ + count]
            /\ abandoned' = count /\ accepted' = accepted /\ monitor # "closed"
      BY <1>1, <1>t, <2>2 DEF RecordAbandoned
    <3>2. AtLeast(metrics', metrics) /\ metrics'.abandoned = metrics.abandoned + count
            /\ metrics.abandoned \in Nat
      BY <3>1, <1>t, TotalsGrow
    <3> QED
      BY <3>1, <3>2 DEF Exported
  <2> QED
    BY <1>t, <2>1, <2>2
<1>2. CASE ~RecordAbandoned
  <2>1. UNCHANGED <<metrics, abandoned, accepted>>
          /\ (monitor = "closed" => monitor' = "closed")
    <3>1. CASE Shutdown
      BY <1>2, <3>1 DEF Shutdown, CloseWorkersDone, StopAccepting, CloseJobs,
         DrainFinished, DrainExpired, ExpireDrain, DrainerFinish, DrainerSettled,
         UnwindSettled, UnwindExpired, Unwound, CloseDone
    <3>2. CASE CancelCtx \/ Start \/ Terminated \/ UNCHANGED vars
      BY <3>2 DEF CancelCtx, Cancel, Start, Terminated
    <3>3. CASE \E w \in Workers : Exit(w)
      BY <3>3 DEF Exit, Leave
    <3> QED
      BY <3>1, <3>2, <3>3 DEF Control
  <2> QED
    BY <1>s, <2>1 DEF Exported
<1> QED
  BY <1>1, <1>2

\* The totals never fall; and once done is closed nothing more is accepted or
\* abandoned.
LEMMA PoolAdds ==
    ASSUME IInv, Exported, [Next]_vars
    PROVE  /\ AtLeast(metrics', metrics)
           /\ Exported'
           /\ monitor = "closed" => monitor' = "closed" /\ accepted' = accepted
<1>t. TypeOK /\ LockInv /\ ShutdownInv
  BY DEF IInv
<1>1. CASE \E j \in Jobs : Submitting(j)
  <2>1. PICK j \in Jobs : Submitting(j)
    BY <1>1
  <2>2. monitor = "closed" => ~InLock(j)
    BY <1>t DEF LockInv, ShutdownInv
  <2> QED
    BY <1>t, <2>1, <2>2, SubmitAdds DEF Exported
<1>2. CASE \/ \E w \in Workers : Working(w) /\ ~Exit(w)
           \/ \E c \in Consumers : Consuming(c)
  BY <1>t, <1>2, ConsumersAdd DEF Exported
<1>3. CASE Control
  BY <1>t, <1>3, ControlAdds
<1> QED
  BY <1>1, <1>2, <1>3 DEF Next, Control

-----------------------------------------------------------------------------
(* The jobs between the two counts of recordDeadLetter.                     *)

\* Each of them is held by a consumer of its own.
LEMMA FailedHeld ==
    ASSUME IInv
    PROVE  /\ Cardinality(Consumers) \in Nat
           /\ metrics.failed <= metrics.deadLettered + Cardinality(Consumers)
<1> DEFINE holder == [j \in FailedJobs |-> CHOOSE c \in Consumers : hold[c] = j]
<1>1. IsFiniteSet(Consumers)
  BY WorkersAssumption, FS_AddElement DEF Consumers
<1>2. ASSUME NEW j \in FailedJobs
      PROVE  holder[j] \in Consumers /\ hold[holder[j]] = j
  <2>1. \E c \in Consumers : hold[c] = j
    BY DEF IInv, HoldInv, FailedJobs, HeldStages
  <2> QED
    BY <2>1
<1>3. holder \in [FailedJobs -> Consumers]
  BY <1>2
<1> HIDE DEF holder
<1>4. holder \in Injection(FailedJobs, Consumers)
  BY <1>2, <1>3 DEF Injection, IsInjective
<1>5. Cardinality(FailedJobs) <= Cardinality(Consumers)
  BY <1>1, <1>4, FS_Injection
<1>6. Cardinality(Consumers) \in Nat /\ Cardinality(FailedJobs) \in Nat
  BY <1>1, FS_CardinalityType, JobSets DEF FailedJobs
<1>7. metrics.failed = metrics.deadLettered + Cardinality(FailedJobs)
        /\ metrics.deadLettered \in Nat
  BY MetricsFields DEF IInv, CountInv, TypeOK
<1> QED
  BY <1>5, <1>6, <1>7

-----------------------------------------------------------------------------
(* The scrape.                                                              *)

\* What Snapshot may have left to load.
Pending == {<<>>, <<"abandoned">>, <<"deadLettered", "abandoned">>,
            <<"failed", "deadLettered", "abandoned">>,
            <<"processed", "failed", "deadLettered", "abandoned">>,
            <<"depth", "processed", "failed", "deadLettered", "abandoned">>}

\* What is known of an answer by the number of loads it still misses.
AnswerInv ==
    /\ loads \in Pending
    /\ shown \in Metrics /\ AtLeast(metrics, shown)
    /\ Exported
    /\ Len(loads) = 2 => shown.failed <= metrics.deadLettered + Cardinality(Consumers)
    /\ Len(loads) < 2 => shown.failed <= shown.deadLettered + Cardinality(Consumers)
    /\ afterDone =>
          /\ monitor = "closed"
          /\ Len(loads) \in {2, 3}
                => shown.processed + metrics.deadLettered + metrics.abandoned >= accepted
          /\ Len(loads) = 1
                => shown.processed + shown.deadLettered + metrics.abandoned >= accepted
          /\ Len(loads) = 0
                => shown.processed + shown.deadLettered + shown.abandoned >= accepted

LEMMA PendingLength ==
    ASSUME loads \in Pending
    PROVE  Len(loads) \in 0 .. 5 /\ (loads = <<>> <=> Len(loads) = 0)
BY DEF Pending

\* Which load is next, by the number of those that are left.
LEMMA NextLoad ==
    ASSUME loads \in Pending, loads # <<>>
    PROVE  \/ Len(loads) = 5 /\ Head(loads) = "depth"
              /\ Tail(loads) = <<"processed", "failed", "deadLettered", "abandoned">>
           \/ Len(loads) = 4 /\ Head(loads) = "processed"
              /\ Tail(loads) = <<"failed", "deadLettered", "abandoned">>
           \/ Len(loads) = 3 /\ Head(loads) = "failed"
              /\ Tail(loads) = <<"deadLettered", "abandoned">>
           \/ Len(loads) = 2 /\ Head(loads) = "deadLettered"
              /\ Tail(loads) = <<"abandoned">>
           \/ Len(loads) = 1 /\ Head(loads) = "abandoned" /\ Tail(loads) = <<>>
<1>1. CASE loads = <<"abandoned">>
  BY <1>1
<1>2. CASE loads = <<"deadLettered", "abandoned">>
  BY <1>2
<1>3. CASE loads = <<"failed", "deadLettered", "abandoned">>
  BY <1>3
<1>4. CASE loads = <<"processed", "failed", "deadLettered", "abandoned">>
  BY <1>4
<1>5. CASE loads = <<"depth", "processed", "failed", "deadLettered", "abandoned">>
  BY <1>5
<1> QED
  BY <1>1, <1>2, <1>3, <1>4, <1>5 DEF Pending

\* A load fills the field that is next and leaves the others alone.
LEMMA LoadFills ==
    ASSUME loads \in Pending, shown \in Metrics, metrics \in Metrics, Load
    PROVE  /\ loads' \in Pending /\ Len(loads') = Len(loads) - 1
           /\ Len(loads) \in 1 .. 5
           /\ shown' \in Metrics
           /\ shown'.processed = IF Len(loads) = 4 THEN metrics.processed
                                                  ELSE shown.processed
           /\ shown'.failed = IF Len(loads) = 3 THEN metrics.failed ELSE shown.failed
           /\ shown'.deadLettered = IF Len(loads) = 2 THEN metrics.deadLettered
                                                     ELSE shown.deadLettered
           /\ shown'.abandoned = IF Len(loads) = 1 THEN metrics.abandoned
                                                  ELSE shown.abandoned
<1>1. /\ loads # <<>> /\ loads' = Tail(loads)
      /\ shown' = [shown EXCEPT ![Head(loads)] = metrics[Head(loads)]]
  BY DEF Load
<1>2. CASE Len(loads) = 5 /\ Head(loads) = "depth"
           /\ Tail(loads) = <<"processed", "failed", "deadLettered", "abandoned">>
  <2>1. loads' \in Pending /\ Len(loads') = 4
    BY <1>1, <1>2 DEF Pending
  <2>2. shown' = [shown EXCEPT !.depth = metrics.depth]
    BY <1>1, <1>2
  <2>3. shown' \in Metrics
    BY <2>2 DEF Metrics
  <2> QED
    BY <1>2, <2>1, <2>2, <2>3 DEF Metrics
<1>3. CASE Len(loads) = 4 /\ Head(loads) = "processed"
           /\ Tail(loads) = <<"failed", "deadLettered", "abandoned">>
  <2>1. loads' \in Pending /\ Len(loads') = 3
    BY <1>1, <1>3 DEF Pending
  <2>2. shown' = [shown EXCEPT !.processed = metrics.processed]
    BY <1>1, <1>3
  <2>3. shown' \in Metrics
    BY <2>2 DEF Metrics
  <2> QED
    BY <1>3, <2>1, <2>2, <2>3 DEF Metrics
<1>4. CASE Len(loads) = 3 /\ Head(loads) = "failed"
           /\ Tail(loads) = <<"deadLettered", "abandoned">>
  BY <1>1, <1>4 DEF Pending, Metrics
<1>5. CASE Len(loads) = 2 /\ Head(loads) = "deadLettered"
           /\ Tail(loads) = <<"abandoned">>
  BY <1>1, <1>5 DEF Pending, Metrics
<1>6. CASE Len(loads) = 1 /\ Head(loads) = "abandoned" /\ Tail(loads) = <<>>
  BY <1>1, <1>6 DEF Pending, Metrics
<1> QED
  BY <1>1, <1>2, <1>3, <1>4, <1>5, <1>6, NextLoad

\* What each load finds, as numbers.
LEMMA NumbersFound ==
    ASSUME IInv, AnswerInv
    PROVE  /\ Cardinality(Consumers) \in Nat
           /\ metrics.failed <= metrics.deadLettered + Cardinality(Consumers)
           /\ metrics.processed + metrics.deadLettered <= accepted
           /\ afterDone => metrics.processed + metrics.deadLettered + metrics.abandoned
                              >= accepted
           /\ metrics \in Metrics /\ accepted \in Nat
           /\ metrics.processed \in Nat /\ metrics.failed \in Nat
           /\ metrics.deadLettered \in Nat /\ metrics.abandoned \in Nat
           /\ shown.processed \in Nat /\ shown.failed \in Nat
           /\ shown.deadLettered \in Nat /\ shown.abandoned \in Nat
<1>1. /\ metrics \in Metrics /\ accepted \in Nat /\ settled \in Nat /\ abandoned \in Nat
      /\ shown \in Metrics
  BY DEF IInv, TypeOK, AnswerInv
<1>2. /\ metrics.processed \in Nat /\ metrics.failed \in Nat
      /\ metrics.deadLettered \in Nat /\ metrics.abandoned \in Nat
      /\ shown.processed \in Nat /\ shown.failed \in Nat
      /\ shown.deadLettered \in Nat /\ shown.abandoned \in Nat
  BY <1>1, TotalsGrow
<1>3. /\ settled <= metrics.processed + metrics.deadLettered
      /\ metrics.processed + metrics.deadLettered <= accepted
  BY CountersFollow DEF CountersOrdered
<1>4. afterDone => accepted - settled <= metrics.abandoned
  BY <1>1, <1>2 DEF IInv, LossInv, AnswerInv, Exported
<1> QED
  BY <1>1, <1>2, <1>3, <1>4, FailedHeld

LEMMA AnswerLoad ==
    ASSUME IInv, AnswerInv, Load
    PROVE  AnswerInv' /\ AtLeast(shown', shown)
<1> DEFINE n == Len(loads)
<1>1. /\ loads' \in Pending /\ Len(loads') = n - 1 /\ n \in 1 .. 5
      /\ shown' \in Metrics
      /\ shown'.processed = IF n = 4 THEN metrics.processed ELSE shown.processed
      /\ shown'.failed = IF n = 3 THEN metrics.failed ELSE shown.failed
      /\ shown'.deadLettered = IF n = 2 THEN metrics.deadLettered ELSE shown.deadLettered
      /\ shown'.abandoned = IF n = 1 THEN metrics.abandoned ELSE shown.abandoned
  BY LoadFills DEF AnswerInv, IInv, TypeOK
<1>2. UNCHANGED <<metrics, abandoned, accepted, monitor, afterDone>>
  BY DEF Load
<1>3. AtLeast(metrics, shown) /\ Exported
  BY DEF AnswerInv
<1> HIDE DEF n
<1>4. AtLeast(metrics', shown') /\ Exported' /\ AtLeast(shown', shown)
  <2> HIDE DEF Pending
  <2>1. \A f \in Totals : shown'[f] \in {shown[f], metrics[f]}
    BY <1>1 DEF Totals
  <2>2. \A f \in Totals : shown[f] \in Nat /\ metrics[f] \in Nat /\ shown[f] <= metrics[f]
    BY <1>3, NumbersFound DEF AtLeast, Totals
  <2>3. \A f \in Totals : shown'[f] <= metrics[f] /\ shown[f] <= shown'[f]
    BY <2>1, <2>2
  <2> QED
    BY <1>2, <1>3, <2>3 DEF AtLeast, Exported, Totals
<1>5. /\ n - 1 = 2 => shown'.failed <= metrics.deadLettered + Cardinality(Consumers)
      /\ n - 1 < 2 => shown'.failed <= shown'.deadLettered + Cardinality(Consumers)
  <2>1. /\ n = 2 => shown.failed <= metrics.deadLettered + Cardinality(Consumers)
        /\ n < 2 => shown.failed <= shown.deadLettered + Cardinality(Consumers)
    BY DEF AnswerInv, n
  <2>2. metrics.failed <= metrics.deadLettered + Cardinality(Consumers)
    BY NumbersFound
  <2> QED
    BY <1>1, <2>1, <2>2
<1>6. ASSUME afterDone
      PROVE  /\ n - 1 \in {2, 3} => shown'.processed + metrics.deadLettered
                                        + metrics.abandoned >= accepted
             /\ n - 1 = 1 => shown'.processed + shown'.deadLettered
                               + metrics.abandoned >= accepted
             /\ n - 1 = 0 => shown'.processed + shown'.deadLettered
                               + shown'.abandoned >= accepted
  <2>1. /\ n \in {2, 3} => shown.processed + metrics.deadLettered
                               + metrics.abandoned >= accepted
        /\ n = 1 => shown.processed + shown.deadLettered + metrics.abandoned >= accepted
    BY <1>6 DEF AnswerInv, n
  <2>2. metrics.processed + metrics.deadLettered + metrics.abandoned >= accepted
    BY <1>6, NumbersFound
  <2> QED
    BY <1>1, <2>1, <2>2
<1>7. afterDone => monitor = "closed"
  BY DEF AnswerInv
<1> QED
  BY <1>1, <1>2, <1>4, <1>5, <1>6, <1>7 DEF AnswerInv

LEMMA AnswerBegin ==
    ASSUME IInv, AnswerInv, ScrapeBegins
    PROVE  AnswerInv' /\ AtLeast(shown', shown)
<1>1. /\ loads' = <<"depth", "processed", "failed", "deadLettered", "abandoned">>
      /\ afterDone' = (monitor = "closed") /\ shown' = shown /\ UNCHANGED vars
  BY DEF ScrapeBegins, Begin
<1>2. loads' \in Pending /\ Len(loads') = 5
  BY <1>1 DEF Pending
<1>3. afterDone' => monitor' = "closed"
  BY <1>1
<1>4. AtLeast(metrics', shown') /\ Exported' /\ shown' \in Metrics
  BY <1>1 DEF AnswerInv, AtLeast, Exported
<1>5. AtLeast(shown', shown)
  BY <1>1, NumbersFound DEF AtLeast
<1> QED
  BY <1>2, <1>3, <1>4, <1>5 DEF AnswerInv

LEMMA AnswerPool ==
    ASSUME IInv, AnswerInv, [Next]_vars, UNCHANGED scrapeVars, metrics' \in Metrics,
           accepted' \in Nat
    PROVE  AnswerInv' /\ AtLeast(shown', shown)
<1>1. UNCHANGED <<loads, shown, afterDone>>
  BY DEF scrapeVars
<1>2. /\ AtLeast(metrics', metrics) /\ Exported'
      /\ monitor = "closed" => monitor' = "closed" /\ accepted' = accepted
  BY PoolAdds DEF AnswerInv
<1>3. /\ metrics'.processed \in Nat /\ metrics'.failed \in Nat
      /\ metrics'.deadLettered \in Nat /\ metrics'.abandoned \in Nat
  BY TotalsGrow
<1>4. Len(loads) \in 0 .. 5
  BY PendingLength DEF AnswerInv
<1>5. AtLeast(metrics', shown') /\ AtLeast(shown', shown) /\ shown' \in Metrics
  <2>1. AtLeast(metrics, shown) /\ shown \in Metrics
    BY DEF AnswerInv
  <2>2. AtLeast(metrics', shown)
    BY <1>2, <1>3, <2>1, NumbersFound DEF AtLeast
  <2>3. AtLeast(shown, shown)
    BY <2>1, TotalsGrow
  <2> QED
    BY <1>1, <2>1, <2>2, <2>3
<1>6. /\ metrics.deadLettered <= metrics'.deadLettered
      /\ metrics.abandoned <= metrics'.abandoned
  BY <1>2 DEF AtLeast
<1>7. Len(loads) = 2 => shown.failed <= metrics'.deadLettered + Cardinality(Consumers)
  BY <1>3, <1>6, NumbersFound DEF AnswerInv
<1>8. ASSUME afterDone
      PROVE  /\ monitor' = "closed" /\ accepted' = accepted
             /\ Len(loads) \in {2, 3} => shown.processed + metrics'.deadLettered
                                             + metrics'.abandoned >= accepted
             /\ Len(loads) = 1 => shown.processed + shown.deadLettered
                                    + metrics'.abandoned >= accepted
  <2>1. /\ Len(loads) \in {2, 3} => shown.processed + metrics.deadLettered
                                        + metrics.abandoned >= accepted
        /\ Len(loads) = 1 => shown.processed + shown.deadLettered
                               + metrics.abandoned >= accepted
        /\ monitor = "closed"
    BY <1>8 DEF AnswerInv
  <2> DEFINE p == shown.processed  q == shown.deadLettered
             d == metrics.deadLettered  a == metrics.abandoned
             d2 == metrics'.deadLettered  a2 == metrics'.abandoned
  <2>2. /\ p \in Nat /\ q \in Nat /\ d \in Nat /\ a \in Nat /\ d2 \in Nat /\ a2 \in Nat
        /\ accepted \in Nat /\ d <= d2 /\ a <= a2
    BY <1>3, <1>6, NumbersFound
  <2> HIDE DEF p, q, d, a, d2, a2
  <2>3. /\ p + d + a >= accepted => p + d2 + a2 >= accepted
        /\ p + q + a >= accepted => p + q + a2 >= accepted
    BY <2>2
  <2> QED
    BY <1>2, <2>1, <2>3 DEF p, q, d, a, d2, a2
<1> QED
  BY <1>1, <1>2, <1>5, <1>7, <1>8 DEF AnswerInv

LEMMA AnswerInit == ScrapeInit => AnswerInv
<1> SUFFICES ASSUME ScrapeInit PROVE AnswerInv
  OBVIOUS
<1>1. /\ Init /\ loads = <<>> /\ shown = metrics /\ afterDone = FALSE
  BY DEF ScrapeInit
<1>2. /\ shown \in Metrics /\ shown.failed = 0 /\ shown.deadLettered = 0
      /\ shown.processed = 0 /\ shown.abandoned = 0 /\ abandoned = 0
  BY <1>1 DEF Init, Metrics
<1>3. Cardinality(Consumers) \in Nat
  BY <1>1, InvInit, FailedHeld
<1>4. loads \in Pending /\ Len(loads) = 0
  BY <1>1 DEF Pending
<1> QED
  BY <1>1, <1>2, <1>3, <1>4 DEF AnswerInv, AtLeast, Exported

\* The scraper only reads: the pool beside it is the pool.
LEMMA PoolBeside == ScrapeSpec => []IInv
<1>1. [ScrapeNext]_allVars => [Next]_vars
  BY DEF ScrapeNext, ScrapeBegins, Begin, Load, allVars
<1>2. ScrapeInit => Init
  BY DEF ScrapeInit
<1>3. ScrapeSpec => Spec
  BY <1>1, <1>2, PTL DEF ScrapeSpec, Spec
<1> QED
  BY <1>3, Inductive, PTL

LEMMA AnswerStep ==
    ASSUME IInv, IInv', AnswerInv, [ScrapeNext]_allVars
    PROVE  AnswerInv' /\ AtLeast(shown', shown)
<1>t. metrics' \in Metrics /\ accepted' \in Nat
  BY DEF IInv, TypeOK
<1>1. CASE (Next /\ UNCHANGED scrapeVars) \/ UNCHANGED allVars
  <2>1. [Next]_vars /\ UNCHANGED scrapeVars
    BY <1>1 DEF allVars
  <2> QED
    BY <1>t, <2>1, AnswerPool
<1>2. CASE ScrapeBegins
  BY <1>2, AnswerBegin
<1>3. CASE Load
  BY <1>3, AnswerLoad
<1> QED
  BY <1>1, <1>2, <1>3 DEF ScrapeNext

LEMMA AnswersHold == ScrapeSpec => []AnswerInv
<1>1. IInv /\ IInv' /\ AnswerInv /\ [ScrapeNext]_allVars => AnswerInv'
  BY AnswerStep
<1> QED
  BY PoolBeside, AnswerInit, <1>1, PTL DEF ScrapeSpec

-----------------------------------------------------------------------------
\* No total falls from one answer to the next, however the pool moves between
\* and during the loads.
THEOREM ShownTotalsRise == ScrapeSpec => TotalsNeverFall
<1>1. IInv /\ IInv' /\ AnswerInv /\ [ScrapeNext]_allVars
         => [\A c \in Totals : shown[c] <= shown'[c]]_allVars
  BY AnswerStep DEF AtLeast, Totals
<1> QED
  BY PoolBeside, AnswersHold, <1>1, PTL DEF ScrapeSpec, TotalsNeverFall

\* An answer counts a job once, and none that was not accepted.
THEOREM ShownAtMostOnce == ScrapeSpec => []ShownOnce
<1>1. IInv /\ AnswerInv => ShownOnce
  BY NumbersFound DEF AnswerInv, AtLeast, ShownOnce
<1> QED
  BY PoolBeside, AnswersHold, <1>1, PTL

\* An answer begun after done was closed accounts for every accepted job.
THEOREM LossIsShown == ScrapeSpec => []LossShown
<1>1. IInv /\ AnswerInv => LossShown
  BY PendingLength DEF AnswerInv, LossShown, Answered
<1> QED
  BY PoolBeside, AnswersHold, <1>1, PTL

\* An answer shows at most one failure per consumer that is not yet a dead
\* letter, because failed is loaded first.
THEOREM SkewIsBounded == ScrapeSpec => []SkewBounded
<1>1. IInv /\ AnswerInv => SkewBounded
  BY PendingLength, NumbersFound DEF AnswerInv, SkewBounded, Answered
<1> QED
  BY PoolBeside, AnswersHold, <1>1, PTL
=============================================================================
