---------------------------- MODULE PoolInvariant ----------------------------
(***************************************************************************)
(* Why the pool is correct: an inductive invariant of Pool, in named parts. *)
(* TLC checks it on small instances, PoolProofs proves it for all.          *)
(***************************************************************************)
EXTENDS Pool

\* The stages in which some consumer holds the job.
HeldStages == {"pulled", "check", "start", "running", "failed", "dead",
               "counted", "hook", "settling"}
\* The stages only a worker's job goes through.
ExecuteStages == {"check", "start", "running", "failed"}
\* The stages after the outcome has been recorded.
RecordedStages == {"hook", "settling", "settled"}

InLock(j) == call[j] \in {"sending", "counting"}

\* At most one Submit is in its critical section, none once the channel is
\* closed, and a job is in the channel or beyond exactly when it was sent.
LockInv ==
    /\ \A i, j \in Jobs : InLock(i) /\ InLock(j) => i = j
    /\ \A j \in Jobs : InLock(j) => ~stopping
    /\ \A j \in Jobs : stage[j] # "new" <=> call[j] \in {"counting", "ok"}
    /\ \A j \in Jobs : call[j] = "counting" => stage[j] \in {"queued", "pulled"}

\* The buffer holds each queued job once and nothing else.
QueueInv ==
    /\ \A i \in 1 .. Len(queue) : stage[queue[i]] = "queued"
    /\ \A i, k \in 1 .. Len(queue) : queue[i] = queue[k] => i = k
    /\ \A j \in Jobs : stage[j] = "queued"
          => \E i \in 1 .. Len(queue) : queue[i] = j

\* A job taken from the buffer has exactly one consumer until it is settled;
\* the drainer's jobs are never run.
HoldInv ==
    /\ \A c \in Consumers : hold[c] # NoJob => stage[hold[c]] \in HeldStages
    /\ \A c, d \in Consumers : hold[c] # NoJob /\ hold[c] = hold[d] => c = d
    /\ \A j \in Jobs : stage[j] \in HeldStages => \E c \in Consumers : hold[c] = j
    /\ hold[Drainer] # NoJob => /\ drainer = "pulling"
                                /\ stage[hold[Drainer]] \notin ExecuteStages

\* The order in which shutdown happens, and what its stations imply.
ShutdownInv ==
    /\ monitor = "watching" <=> ~stopping
    /\ monitor \in {"watching", "draining"} => drainer = "off" /\ ~execCancelled
    /\ monitor \in {"unwinding", "recording"} => drainer # "off"
    /\ drainer # "off" => execCancelled
    /\ monitor \in {"closing", "closed"} => drainer # "off" \/ workersDone
    /\ \A w \in exited : stopping /\ queue = <<>> /\ hold[w] = NoJob
    /\ workersDone => exited = Workers
    /\ drainer \in {"awaiting", "done"} => queue = <<>> /\ hold[Drainer] = NoJob
    /\ drainer = "done" => workersDone

\* Attempts are counted up to MaxAttempts, and a job is dead-lettered without
\* them only once the drainer exists.
AttemptInv ==
    /\ \A j \in Jobs :
         /\ attempt[j] <= MaxAttempts
         /\ stage[j] \in {"new", "queued", "pulled", "check"} => attempt[j] = 0
         /\ stage[j] = "start" => attempt[j] < MaxAttempts
    /\ GraceHonoured

\* After the cancellation only the attempt already decided on may begin.
LateInv ==
    \A w \in Workers :
       /\ late[w] <= 1
       /\ late[w] > 0 => execCancelled
       /\ late[w] > 0 /\ hold[w] # NoJob => stage[hold[w]] # "start"

\* Each job's outcome has been recorded exactly when its stage says so.
RecordInv ==
    \A j \in Jobs : recorded[j] = IF stage[j] \in RecordedStages THEN 1 ELSE 0

AcceptedJobs == {j \in Jobs : call[j] = "ok"}
SettledJobs == {j \in Jobs : stage[j] = "settled"}
RecordedJobs == {j \in Jobs : stage[j] \in RecordedStages}
FailedJobs == {j \in Jobs : stage[j] = "counted"}
WaitingJobs == {j \in Jobs : call[j] = "ok" /\ stage[j] \in {"queued", "pulled"}}

\* The atomic counters and gauges count what they are named for.
CountInv ==
    /\ metrics.failed = metrics.deadLettered + Cardinality(FailedJobs)
    /\ accepted = Cardinality(AcceptedJobs)
    /\ settled = Cardinality(SettledJobs)
    /\ metrics.processed + metrics.deadLettered = Cardinality(RecordedJobs)
    /\ metrics.depth = Cardinality(WaitingJobs)

\* Once the deadline has passed, what was counted covers what is not settled.
LossInv ==
    /\ monitor = "recording" => accepted - settled <= count
    /\ monitor \in {"closing", "closed"} => accepted - settled <= abandoned

IInv == /\ TypeOK
        /\ LockInv
        /\ QueueInv
        /\ HoldInv
        /\ ShutdownInv
        /\ AttemptInv
        /\ LateInv
        /\ RecordInv
        /\ CountInv
        /\ LossInv

\* A consequence of HoldInv and AttemptInv: a job is run by one worker at a
\* time, MaxAttempts times at most, and never by the drainer.
RunByOne ==
    /\ \A c, d \in Consumers : hold[c] # NoJob /\ hold[c] = hold[d] => c = d
    /\ \A j \in Jobs : stage[j] \in ExecuteStages => \E w \in Workers : hold[w] = j
    /\ \A j \in Jobs : attempt[j] <= MaxAttempts

\* And one of CountInv and LossInv, about a Wait that returns nil: every job
\* accepted is settled, and the counters say of each whether it was processed
\* or dead-lettered, leaving none out.
NilAccounts ==
    monitor = "closed" /\ abandoned = 0 =>
        /\ Owed = {}
        /\ metrics.processed + metrics.deadLettered = accepted
        /\ metrics.failed = metrics.deadLettered
=============================================================================
