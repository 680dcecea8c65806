-------------------------------- MODULE Pool --------------------------------
(***************************************************************************)
(* The worker pool of backend/internal/workers/pool.go: a bounded channel  *)
(* of jobs, a fixed set of worker goroutines, and the goroutines that shut *)
(* the pool down when the context given to Start is cancelled.             *)
(*                                                                         *)
(* Every action is one step of one goroutine between two points where      *)
(* another goroutine can observe or change what it uses.  A job is its     *)
(* identity; what it computes is the choice between Succeed and Fail.      *)
(***************************************************************************)
EXTENDS Integers, Sequences, FiniteSets

CONSTANTS
    Jobs,          \* the jobs callers may submit, each submitted by one caller
    Workers,       \* the worker goroutines of Start
    Drainer,       \* the goroutine that runs drainQueue after the deadline
    NoJob,         \* what an idle consumer holds
    Capacity,      \* the buffer of the jobs channel
    MaxAttempts,   \* how often a failing job is tried
    StuckJobs      \* jobs that ignore the cancellation of their context

ASSUME JobsAssumption == IsFiniteSet(Jobs) /\ NoJob \notin Jobs
ASSUME WorkersAssumption ==
    IsFiniteSet(Workers) /\ Workers # {} /\ Drainer \notin Workers
ASSUME OptionsAssumption ==        \* NewPool replaces values <= 0 by 1
    Capacity \in Nat \ {0} /\ MaxAttempts \in Nat \ {0}
ASSUME StuckAssumption == StuckJobs \subseteq Jobs

Consumers == Workers \cup {Drainer}

VARIABLES
    ctxDone,       \* the context given to Start is cancelled
    started,       \* Start has run (startOnce)
    stopping,      \* p.stopping; the jobs channel is closed with it
    queue,         \* the buffer of p.jobs
    call,          \* where the Submit of a job is, or how it returned
    stage,         \* where an accepted job is on its way to being settled
    hold,          \* the job a consumer took from the channel
    attempt,       \* the attempts begun for a job
    exited,        \* the workers whose range over p.jobs has ended
    workersDone,   \* the channel workersDone is closed
    execCancelled, \* p.executionCtx is cancelled
    monitor,       \* where the goroutine that watches ctx is
    drainer,       \* where the goroutine that runs drainQueue is
    accepted, settled, abandoned,  \* the three atomic counters
    count,         \* the local variable of recordAbandoned
    metrics,       \* the gauges and counters of metrics.Counters
    recorded,      \* history: how often a job's outcome was recorded
    late           \* history: attempts a worker began after cancellation

startVars == <<ctxDone, started>>
workerVars == <<exited, workersDone>>
shutVars == <<startVars, stopping, workerVars, execCancelled, monitor, drainer>>
counters == <<accepted, settled, abandoned, count>>
countVars == <<counters, metrics>>
jobVars == <<queue, call, stage, hold, attempt>>
history == <<recorded, late>>
work == <<jobVars, countVars, history>>
vars == <<shutVars, work>>

CallStates == {"none", "sending", "counting", "ok", "full", "stopped"}
Stages == {"new", "queued", "pulled", "check", "start", "running", "failed",
           "dead", "counted", "hook", "settling", "settled"}
Metrics == [depth : Int, processed : Nat, failed : Nat, deadLettered : Nat,
            abandoned : Nat]
MonitorStates == {"watching", "draining", "unwinding", "recording", "closing",
                  "closed"}
DrainerStates == {"off", "pulling", "awaiting", "done"}

Init ==
    /\ ctxDone = FALSE
    /\ started = FALSE
    /\ stopping = FALSE
    /\ queue = <<>>
    /\ call = [j \in Jobs |-> "none"]
    /\ stage = [j \in Jobs |-> "new"]
    /\ hold = [c \in Consumers |-> NoJob]
    /\ attempt = [j \in Jobs |-> 0]
    /\ exited = {}
    /\ workersDone = FALSE
    /\ execCancelled = FALSE
    /\ monitor = "watching"
    /\ drainer = "off"
    /\ accepted = 0
    /\ settled = 0
    /\ abandoned = 0
    /\ count = 0
    /\ metrics = [depth |-> 0, processed |-> 0, failed |-> 0,
                  deadLettered |-> 0, abandoned |-> 0]
    /\ recorded = [j \in Jobs |-> 0]
    /\ late = [w \in Workers |-> 0]

-----------------------------------------------------------------------------
(* The caller of Submit.  stateMu is held from the test of p.stopping to    *)
(* the return, so a job in "sending" or "counting" is the lock's owner.     *)

LockFree == \A j \in Jobs : call[j] \notin {"sending", "counting"}

\* What the cancellation of ctx makes of executionCtx.
Cancel(execution) ==
    /\ ~ctxDone
    /\ ctxDone' = TRUE
    /\ execCancelled' = execution
    /\ UNCHANGED <<started, stopping, workerVars, monitor, drainer, work>>

\* Broken: jobs run under the context of Start itself, not WithoutCancel.
CancelCtxInherited == Cancel(TRUE)

\* The caller of Start cancels its context: SIGTERM in the process.
CancelCtx == Cancel(execCancelled)

\* startOnce: the workers, the closer of workersDone and the monitor exist.
Start ==
    /\ ~started
    /\ started' = TRUE
    /\ UNCHANGED <<ctxDone, stopping, workerVars, execCancelled, monitor,
                   drainer, work>>

\* Lock and test p.stopping; a caller refused for a full queue may come again.
Enter(j, outcome) ==
    /\ LockFree
    /\ call[j] \in {"none", "full"}
    /\ call' = [call EXCEPT ![j] = outcome]
    /\ UNCHANGED <<queue, stage, hold, attempt, shutVars, countVars, history>>

SubmitEnter(j) == ~stopping /\ Enter(j, "sending")

\* Submit returns ErrPoolStopped.
SubmitStopped(j) == stopping /\ Enter(j, "stopped")

\* The send: consumers can see the job from here on.
Send(j) ==
    /\ call[j] = "sending"
    /\ queue' = Append(queue, j)
    /\ call' = [call EXCEPT ![j] = "counting"]
    /\ stage' = [stage EXCEPT ![j] = "queued"]
    /\ UNCHANGED <<hold, attempt, shutVars, countVars, history>>

\* The send branch of the select is ready while the buffer has room.
SubmitSend(j) == Len(queue) < Capacity /\ Send(j)

\* Broken: the caller waits for room, and keeps the lock.
SubmitBlocks(j) ==
    /\ call[j] = "sending"
    /\ Len(queue) = Capacity
    /\ UNCHANGED vars

\* The default branch: ErrQueueFull, the caller never waits for room.
SubmitFull(j) ==
    /\ call[j] = "sending"
    /\ Len(queue) = Capacity
    /\ call' = [call EXCEPT ![j] = "full"]
    /\ UNCHANGED <<queue, stage, hold, attempt, shutVars, countVars, history>>

\* accepted.Add(1), AddQueueDepth(1), return nil and unlock.
SubmitCount(j) ==
    /\ call[j] = "counting"
    /\ call' = [call EXCEPT ![j] = "ok"]
    /\ accepted' = accepted + 1
    /\ metrics' = [metrics EXCEPT !.depth = @ + 1]
    /\ UNCHANGED <<queue, stage, hold, attempt, settled, abandoned, count,
                   shutVars, history>>

-----------------------------------------------------------------------------
(* The consumers of the channel: work and drainQueue.                       *)

At(c, s) == hold[c] # NoJob /\ stage[hold[c]] = s

\* The consumer goes on with the job it holds.
Goto(c, s) ==
    /\ stage' = [stage EXCEPT ![hold[c]] = s]
    /\ UNCHANGED <<queue, call, hold, shutVars, counters>>

MayReceive(c) ==
    IF c = Drainer THEN drainer = "pulling" ELSE started /\ c \notin exited

\* range p.jobs: the oldest job, which needs no lock.
Receive(c) ==
    /\ MayReceive(c)
    /\ hold[c] = NoJob
    /\ queue # <<>>
    /\ hold' = [hold EXCEPT ![c] = Head(queue)]
    /\ stage' = [stage EXCEPT ![Head(queue)] = "pulled"]
    /\ queue' = Tail(queue)
    /\ UNCHANGED <<call, attempt, shutVars, countVars, history>>

\* The gauge falls by n.  drainQueue goes on to recordDeadLetter, a worker to
\* the test of executionCtx.
Dequeue(c, n) ==
    /\ At(c, "pulled")
    /\ metrics' = [metrics EXCEPT !.depth = @ - n]
    /\ Goto(c, IF c = Drainer THEN "dead" ELSE "check")
    /\ UNCHANGED <<attempt, history>>

\* Broken: drainQueue forgets jobDequeued.
DequeuedByWorkersOnly(c) == LockFree /\ Dequeue(c, IF c = Drainer THEN 0 ELSE 1)

\* jobDequeued, under stateMu.
Dequeued(c) == LockFree /\ Dequeue(c, 1)

\* work: a job met after the deadline is dead-lettered without being run.
CheckContext(w) ==
    /\ At(w, "check")
    /\ Goto(w, IF execCancelled THEN "dead" ELSE "start")
    /\ UNCHANGED <<attempt, metrics, history>>

\* execute: the next iteration of the loop calls runJob.
BeginAttempt(w) ==
    /\ At(w, "start")
    /\ Goto(w, "running")
    /\ attempt' = [attempt EXCEPT ![hold[w]] = @ + 1]
    /\ late' = IF execCancelled THEN [late EXCEPT ![w] = @ + 1] ELSE late
    /\ UNCHANGED <<metrics, recorded>>

\* runJob returns nil: JobProcessed; settled.Add follows in Settle.
Succeed(w) ==
    /\ At(w, "running")
    /\ Goto(w, "settling")
    /\ metrics' = [metrics EXCEPT !.processed = @ + 1]
    /\ recorded' = [recorded EXCEPT ![hold[w]] = @ + 1]
    /\ UNCHANGED <<attempt, late>>

\* runJob returns an error, which a recovered panic is too.
Fail(w) ==
    /\ At(w, "running")
    /\ Goto(w, "failed")
    /\ UNCHANGED <<attempt, metrics, history>>

\* execute after a failure, with the condition that ends its loop.
AfterFailure(w, last) ==
    /\ At(w, "failed")
    /\ Goto(w, IF last THEN "dead" ELSE "start")
    /\ UNCHANGED <<attempt, metrics, history>>

Exhausted(w) == attempt[hold[w]] = MaxAttempts

\* Broken: the loop in execute does not look at the context.
RetryUntilExhausted(w) == AfterFailure(w, Exhausted(w))

\* Stop when cancelled or when the attempts are used.
RetryOrGiveUp(w) == AfterFailure(w, execCancelled \/ Exhausted(w))

\* recordDeadLetter: JobFailed and then JobDeadLettered, two atomic adds.
CountFailed(c) ==
    /\ At(c, "dead")
    /\ Goto(c, "counted")
    /\ metrics' = [metrics EXCEPT !.failed = @ + 1]
    /\ UNCHANGED <<attempt, history>>

\* The outcome is recorded; the dead-letter sink is called next.
DeadLetter(c) ==
    /\ At(c, "counted")
    /\ Goto(c, "hook")
    /\ metrics' = [metrics EXCEPT !.deadLettered = @ + 1]
    /\ recorded' = [recorded EXCEPT ![hold[c]] = @ + 1]
    /\ UNCHANGED <<attempt, late>>

\* Broken: work lacks the continue after a late job's recordDeadLetter.
HookReturnsToExecute(c) ==
    /\ At(c, "hook")
    /\ Goto(c, IF c # Drainer /\ attempt[hold[c]] = 0 THEN "start" ELSE "settling")
    /\ UNCHANGED <<attempt, metrics, history>>

\* The sink, or its absence, returns.
HookReturns(c) ==
    /\ At(c, "hook")
    /\ Goto(c, "settling")
    /\ UNCHANGED <<attempt, metrics, history>>

\* settled.Add(1), the last thing a consumer does for a job.
Settle(c) ==
    /\ At(c, "settling")
    /\ settled' = settled + 1
    /\ stage' = [stage EXCEPT ![hold[c]] = "settled"]
    /\ hold' = [hold EXCEPT ![c] = NoJob]
    /\ UNCHANGED <<queue, call, attempt, accepted, abandoned, count, metrics,
                   shutVars, history>>

\* A worker leaves between two jobs.
Leave(w) ==
    /\ started
    /\ w \notin exited
    /\ hold[w] = NoJob
    /\ stopping
    /\ exited' = exited \cup {w}
    /\ UNCHANGED <<startVars, stopping, workersDone, execCancelled, monitor,
                   drainer, work>>

\* The worker's range ends: the channel is closed and empty.
Exit(w) == queue = <<>> /\ Leave(w)

-----------------------------------------------------------------------------
(* Shutdown: the monitor goroutine, the closer of workersDone, the drainer. *)

CloseWorkersDone ==
    /\ ~workersDone
    /\ exited = Workers
    /\ workersDone' = TRUE
    /\ UNCHANGED <<startVars, stopping, exited, execCancelled, monitor, drainer,
                   work>>

\* <-ctx.Done(), p.stopping and close(p.jobs); the drain timer starts.
CloseJobs ==
    /\ monitor = "watching"
    /\ started
    /\ ctxDone
    /\ stopping' = TRUE
    /\ monitor' = "draining"
    /\ UNCHANGED <<startVars, workerVars, execCancelled, drainer, work>>

\* stopAccepting, under stateMu.
StopAccepting == LockFree /\ CloseJobs

\* The workers returned before the drain deadline.
DrainFinished ==
    /\ monitor = "draining"
    /\ workersDone
    /\ monitor' = "closing"
    /\ UNCHANGED <<startVars, stopping, workerVars, execCancelled, drainer, work>>

\* The drain timer fires; select may take this branch with workersDone ready.
ExpireDrain(next) ==
    /\ monitor = "draining"
    /\ execCancelled' = TRUE
    /\ drainer' = next
    /\ monitor' = "unwinding"
    /\ UNCHANGED <<startVars, stopping, workerVars, work>>

\* Broken: the backlog is left to the workers.
DrainExpiredWithoutDrainer == ExpireDrain("off")

\* cancelJobs, and the goroutine that runs drainQueue exists.
DrainExpired == ExpireDrain("pulling")

\* drainQueue returns; the drainer waits for the workers.
DrainerFinish ==
    /\ drainer = "pulling"
    /\ hold[Drainer] = NoJob
    /\ stopping
    /\ queue = <<>>
    /\ drainer' = "awaiting"
    /\ UNCHANGED <<startVars, stopping, workerVars, execCancelled, monitor, work>>

\* <-workersDone, close(settled).
DrainerSettled ==
    /\ drainer = "awaiting"
    /\ workersDone
    /\ drainer' = "done"
    /\ UNCHANGED <<startVars, stopping, workerVars, execCancelled, monitor, work>>

\* case <-settled.
UnwindSettled ==
    /\ monitor = "unwinding"
    /\ drainer = "done"
    /\ monitor' = "closing"
    /\ UNCHANGED <<startVars, stopping, workerVars, execCancelled, drainer, work>>

\* case <-unwind.C: recordAbandoned computes the loss.
Unwound(loss) ==
    /\ monitor = "unwinding"
    /\ count' = loss
    /\ monitor' = "recording"
    /\ UNCHANGED <<startVars, stopping, workerVars, execCancelled, drainer,
                   accepted, settled, abandoned, metrics, jobVars, history>>

\* Broken: drainQueue runs in the monitor, before the unwind timer can fire.
UnwindExpiredAfterDrain ==
    drainer \in {"awaiting", "done"} /\ Unwound(accepted - settled)

\* Broken: a job still in the dead-letter sink counts as accounted for.
UnwindExpiredByRecords ==
    Unwound(accepted - (metrics.processed + metrics.deadLettered))

\* Broken: the pool is declared done without a loss.
UnwindExpiredUnrecorded == Unwound(0)

\* accepted cannot grow any more, so the two loads are one of settled.
UnwindExpired == Unwound(accepted - settled)

\* recordAbandoned stores what it counted, if anything.
RecordAbandoned ==
    /\ monitor = "recording"
    /\ monitor' = "closing"
    /\ IF count <= 0
       THEN UNCHANGED <<abandoned, metrics>>
       ELSE /\ abandoned' = count
            /\ metrics' = [metrics EXCEPT !.abandoned = @ + count]
    /\ UNCHANGED <<startVars, stopping, workerVars, execCancelled, drainer,
                   accepted, settled, count, jobVars, history>>

\* cancelJobs and close(p.done).
CloseDone ==
    /\ monitor = "closing"
    /\ execCancelled' = TRUE
    /\ monitor' = "closed"
    /\ UNCHANGED <<startVars, stopping, workerVars, drainer, work>>

-----------------------------------------------------------------------------
(* What is left standing when every goroutine has returned.                 *)
Terminated ==
    /\ monitor = "closed"
    /\ workersDone
    /\ drainer \in {"off", "done"}
    /\ \A j \in Jobs : call[j] \in {"ok", "stopped"}
    /\ UNCHANGED vars

Submitting(j) == \/ SubmitEnter(j) \/ SubmitStopped(j) \/ SubmitSend(j)
                 \/ SubmitFull(j) \/ SubmitCount(j)
Working(w) == \/ CheckContext(w) \/ BeginAttempt(w) \/ Succeed(w) \/ Fail(w)
              \/ RetryOrGiveUp(w) \/ Exit(w)
Consuming(c) == \/ Receive(c) \/ Dequeued(c) \/ CountFailed(c)
                \/ DeadLetter(c) \/ HookReturns(c) \/ Settle(c)
Shutdown == \/ CloseWorkersDone \/ StopAccepting \/ DrainFinished
            \/ DrainExpired \/ DrainerFinish \/ DrainerSettled
            \/ UnwindSettled \/ UnwindExpired \/ RecordAbandoned \/ CloseDone

Next ==
    \/ CancelCtx
    \/ Start
    \/ \E j \in Jobs : Submitting(j)
    \/ \E w \in Workers : Working(w)
    \/ \E c \in Consumers : Consuming(c)
    \/ Shutdown
    \/ Terminated

Spec == Init /\ [][Next]_vars

-----------------------------------------------------------------------------
(* Fairness.  A runnable goroutine eventually runs (weak).  A goroutine     *)
(* that waits for stateMu eventually gets it although others take it again  *)
(* and again (strong): sync.Mutex hands over to a waiter of 1ms.  Nothing   *)
(* is assumed of CancelCtx, of callers, of jobs before the cancellation, or *)
(* of the dead-letter sink.                                                 *)

WorkerSteps(w) == \/ Receive(w) \/ CheckContext(w) \/ BeginAttempt(w)
                  \/ RetryOrGiveUp(w) \/ CountFailed(w) \/ DeadLetter(w)
                  \/ Settle(w) \/ Exit(w)

Scheduling ==
    /\ \A j \in Jobs : WF_vars(SubmitSend(j) \/ SubmitFull(j) \/ SubmitCount(j))
    /\ \A w \in Workers : WF_vars(WorkerSteps(w)) /\ SF_vars(Dequeued(w))
    /\ WF_vars(Receive(Drainer) \/ CountFailed(Drainer) \/ DeadLetter(Drainer)
               \/ Settle(Drainer) \/ DrainerFinish \/ DrainerSettled)
    /\ SF_vars(Dequeued(Drainer))
    /\ WF_vars(CloseWorkersDone)
    /\ SF_vars(StopAccepting)
    /\ WF_vars(DrainFinished \/ DrainExpired)
    /\ WF_vars(UnwindSettled \/ UnwindExpired)
    /\ WF_vars(RecordAbandoned \/ CloseDone)

\* A job that honours its context returns once the context is cancelled.
Returns(w) == /\ execCancelled
              /\ hold[w] # NoJob
              /\ hold[w] \notin StuckJobs
              /\ Succeed(w) \/ Fail(w)

Cooperation == /\ \A w \in Workers : WF_vars(Returns(w))
               /\ \A c \in Consumers : WF_vars(HookReturns(c))

FairSpec == Spec /\ Scheduling
CooperativeSpec == FairSpec /\ Cooperation
-----------------------------------------------------------------------------
(* Properties.                                                              *)

TypeOK ==
    /\ ctxDone \in BOOLEAN /\ started \in BOOLEAN /\ stopping \in BOOLEAN
    /\ workersDone \in BOOLEAN /\ execCancelled \in BOOLEAN
    /\ queue \in Seq(Jobs) /\ Len(queue) <= Capacity
    /\ call \in [Jobs -> CallStates]
    /\ stage \in [Jobs -> Stages]
    /\ hold \in [Consumers -> Jobs \cup {NoJob}]
    /\ attempt \in [Jobs -> Nat]
    /\ exited \subseteq Workers
    /\ monitor \in MonitorStates
    /\ drainer \in DrainerStates
    /\ accepted \in Nat /\ settled \in Nat /\ abandoned \in Nat
    /\ count \in Int
    /\ metrics \in Metrics
    /\ recorded \in [Jobs -> Nat]
    /\ late \in [Workers -> Nat]

\* The jobs Submit took responsibility for and no consumer has finished with.
Owed == {j \in Jobs : call[j] = "ok" /\ stage[j] # "settled"}

\* A Submit that has passed the test of p.stopping never meets a closed
\* channel: the send in its select would panic.
NoSendOnClosed ==
    \A j \in Jobs : call[j] \in {"sending", "counting"} => ~stopping

\* The depth gauge is never negative, and it is the length of the buffer
\* whenever no Submit and no consumer is between the channel and the gauge.
QueueDepthSound ==
    /\ metrics.depth >= 0
    /\ (\A j \in Jobs : call[j] # "counting" /\ stage[j] # "pulled")
          => metrics.depth = Len(queue)

\* No reader of the atomics sees more dead-lettered than failed, more settled
\* than recorded, or more recorded than accepted: the difference that
\* recordAbandoned takes is never negative.
CountersOrdered ==
    /\ metrics.deadLettered <= metrics.failed
    /\ settled <= metrics.processed + metrics.deadLettered
    /\ metrics.processed + metrics.deadLettered <= accepted

\* A job's outcome is recorded at most once whoever consumes it, and a job is
\* not settled without one ("each job is recorded exactly once").
RecordedOnce ==
    \A j \in Jobs : /\ recorded[j] <= 1
                    /\ stage[j] = "settled" => recorded[j] = 1

\* Once done is closed, the loss Wait reports covers every accepted job that
\* is not settled; when Wait returns nil there is none.
LossReported == monitor = "closed" => Cardinality(Owed) <= abandoned

\* Until the drain deadline a job is dead-lettered only after every attempt
\* it is entitled to: the shutdown signal alone cancels nothing.
GraceHonoured ==
    \A j \in Jobs : stage[j] \in {"dead", "counted", "hook"} /\ attempt[j] < MaxAttempts
                      => drainer # "off"

\* After the cancellation a worker begins at most one more attempt, the one it
\* had decided on before: the tests in work and execute stop every other.
LateBounded == \A w \in Workers : late[w] <= 1

\* Shutdown always ends, whatever jobs and the dead-letter sink do.
ShutdownBounded == (ctxDone /\ started) ~> (monitor = "closed")

\* With jobs and a sink that return, every accepted job is settled after the
\* signal, even when the pool has already reported it abandoned, and beside
\* jobs that never return.
AcceptedSettles ==
    \A j \in Jobs \ StuckJobs :
        (ctxDone /\ started /\ call[j] = "ok") ~> (stage[j] = "settled")

\* A stuck job does not bury the jobs behind it: after the deadline whatever
\* is still in the channel is settled although no worker may come back.
StuckDoesNotBury ==
    \A j \in Jobs : (execCancelled /\ stage[j] = "queued") ~> (stage[j] = "settled")
=============================================================================
