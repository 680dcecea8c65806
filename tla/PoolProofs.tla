----------------------------- MODULE PoolProofs -----------------------------
(***************************************************************************)
(* Proofs about the worker pool, for any finite set of jobs and workers,   *)
(* any capacity and any number of attempts.                                *)
(***************************************************************************)
EXTENDS PoolInvariant, FiniteSetTheorems, TLAPS

\* Tuples of variables and the two steps of a consumer are abbreviations, which
\* every proof may look into.
USE DEF shutVars, startVars, workerVars, countVars, counters, jobVars, history,
        work, vars, At, Goto

-----------------------------------------------------------------------------
(* Type correctness. *)

\* A consumer that holds something holds a job.
LEMMA HeldJob ==
    ASSUME TypeOK, NEW c \in Consumers, hold[c] # NoJob
    PROVE  hold[c] \in Jobs
BY DEF TypeOK

\* Adding to one counter of metrics.Counters leaves the record well typed.
LEMMA MetricsUpdates ==
    ASSUME NEW m \in Metrics, NEW n \in Nat
    PROVE  /\ [m EXCEPT !.depth = @ + 1] \in Metrics
           /\ [m EXCEPT !.depth = @ - 1] \in Metrics
           /\ [m EXCEPT !.processed = @ + 1] \in Metrics
           /\ [m EXCEPT !.failed = @ + 1] \in Metrics
           /\ [m EXCEPT !.deadLettered = @ + 1] \in Metrics
           /\ [m EXCEPT !.abandoned = @ + n] \in Metrics
BY DEF Metrics

\* Every initial state is well typed: what NewPool and the caller hold.
LEMMA TypeInit == Init => TypeOK
<1> SUFFICES ASSUME Init PROVE TypeOK
  OBVIOUS
<1>1. metrics \in Metrics
  BY DEF Init, Metrics
<1>2. queue \in Seq(Jobs) /\ Len(queue) <= Capacity
  BY OptionsAssumption DEF Init
<1>3. stage \in [Jobs -> Stages] /\ call \in [Jobs -> CallStates]
  BY DEF Init, CallStates, Stages
<1>4. hold \in [Consumers -> Jobs \cup {NoJob}]
  BY DEF Init
<1>5. /\ attempt \in [Jobs -> Nat] /\ recorded \in [Jobs -> Nat]
      /\ late \in [Workers -> Nat]
  BY DEF Init
<1>6. monitor \in MonitorStates /\ drainer \in DrainerStates
  BY DEF Init, MonitorStates, DrainerStates
<1>7. /\ accepted \in Nat /\ settled \in Nat /\ abandoned \in Nat
      /\ count \in Int /\ exited \subseteq Workers
  BY DEF Init
<1>8. /\ ctxDone \in BOOLEAN /\ started \in BOOLEAN /\ stopping \in BOOLEAN
      /\ workersDone \in BOOLEAN /\ execCancelled \in BOOLEAN
  BY DEF Init
<1> QED
  BY <1>1, <1>2, <1>3, <1>4, <1>5, <1>6, <1>7, <1>8 DEF TypeOK

\* The calls of Submit keep the state well typed, the buffer's bound included.
LEMMA TypeSubmit ==
    ASSUME TypeOK, NEW j \in Jobs, Submitting(j)
    PROVE  TypeOK'
<1> USE OptionsAssumption DEF TypeOK, CallStates, Stages
<1>1. CASE SubmitEnter(j)
  BY <1>1 DEF SubmitEnter, Enter
<1>2. CASE SubmitStopped(j)
  BY <1>2 DEF SubmitStopped, Enter
<1>3. CASE SubmitSend(j)
  BY <1>3 DEF SubmitSend, Send
<1>4. CASE SubmitFull(j)
  BY <1>4 DEF SubmitFull
<1>5. CASE SubmitCount(j)
  <2>1. metrics' \in Metrics
    BY <1>5, MetricsUpdates DEF SubmitCount
  <2> QED
    BY <1>5, <2>1 DEF SubmitCount
<1> QED BY <1>1, <1>2, <1>3, <1>4, <1>5 DEF Submitting

\* The steps only a worker takes keep the state well typed.
LEMMA TypeWork ==
    ASSUME TypeOK, NEW w \in Workers, Working(w)
    PROVE  TypeOK'
<1> w \in Consumers
  BY DEF Consumers
<1> USE OptionsAssumption DEF TypeOK, Stages
<1>1. CASE CheckContext(w)
  BY <1>1 DEF CheckContext
<1>2. CASE BeginAttempt(w)
  <2>1. hold[w] \in Jobs
    BY <1>2, HeldJob DEF BeginAttempt
  <2>2. attempt' \in [Jobs -> Nat]
    BY <1>2, <2>1 DEF BeginAttempt
  <2>3. late' \in [Workers -> Nat]
    BY <1>2 DEF BeginAttempt
  <2> QED
    BY <1>2, <2>2, <2>3 DEF BeginAttempt
<1>3. CASE Succeed(w)
  <2>1. metrics' \in Metrics
    BY <1>3, MetricsUpdates DEF Succeed
  <2>2. hold[w] \in Jobs
    BY <1>3, HeldJob DEF Succeed
  <2>3. recorded' \in [Jobs -> Nat]
    BY <1>3, <2>2 DEF Succeed
  <2> QED
    BY <1>3, <2>1, <2>3 DEF Succeed
<1>4. CASE Fail(w)
  BY <1>4 DEF Fail
<1>5. CASE RetryOrGiveUp(w)
  BY <1>5 DEF RetryOrGiveUp, AfterFailure, Exhausted
<1>6. CASE Exit(w)
  BY <1>6 DEF Exit, Leave
<1> QED BY <1>1, <1>2, <1>3, <1>4, <1>5, <1>6 DEF Working

\* The steps workers and the drainer share keep the state well typed.
LEMMA TypeConsume ==
    ASSUME TypeOK, NEW c \in Consumers, Consuming(c)
    PROVE  TypeOK'
<1> USE OptionsAssumption DEF TypeOK, Stages
<1>1. CASE Receive(c)
  BY <1>1 DEF Receive
<1>2. CASE Dequeued(c)
  <2>1. metrics' \in Metrics
    BY <1>2, MetricsUpdates DEF Dequeued, Dequeue
  <2> QED
    BY <1>2, <2>1 DEF Dequeued, Dequeue
<1>3. CASE DeadLetter(c)
  <2>1. metrics' \in Metrics
    BY <1>3, MetricsUpdates DEF DeadLetter
  <2>2. hold[c] \in Jobs
    BY <1>3, HeldJob DEF DeadLetter
  <2>3. recorded' \in [Jobs -> Nat]
    BY <1>3, <2>2 DEF DeadLetter
  <2> QED
    BY <1>3, <2>1, <2>3 DEF DeadLetter
<1>4. CASE HookReturns(c)
  BY <1>4 DEF HookReturns
<1>5. CASE Settle(c)
  BY <1>5 DEF Settle
<1>6. CASE CountFailed(c)
  <2>1. metrics' \in Metrics
    BY <1>6, MetricsUpdates DEF CountFailed
  <2> QED
    BY <1>6, <2>1 DEF CountFailed
<1> QED BY <1>1, <1>2, <1>3, <1>4, <1>5, <1>6 DEF Consuming

\* The goroutines of shutdown keep the state well typed.
LEMMA TypeShutdown ==
    ASSUME TypeOK, Shutdown
    PROVE  TypeOK'
<1> USE OptionsAssumption DEF TypeOK, MonitorStates, DrainerStates
<1>1. CASE CloseWorkersDone BY <1>1 DEF CloseWorkersDone
<1>2. CASE StopAccepting    BY <1>2 DEF StopAccepting, CloseJobs
<1>3. CASE DrainFinished    BY <1>3 DEF DrainFinished
<1>4. CASE DrainExpired     BY <1>4 DEF DrainExpired, ExpireDrain
<1>5. CASE DrainerFinish    BY <1>5 DEF DrainerFinish
<1>6. CASE DrainerSettled   BY <1>6 DEF DrainerSettled
<1>7. CASE UnwindSettled    BY <1>7 DEF UnwindSettled
<1>8. CASE UnwindExpired    BY <1>8 DEF UnwindExpired, Unwound
<1>9. CASE RecordAbandoned
  <2>1. CASE count <= 0
    BY <1>9, <2>1 DEF RecordAbandoned
  <2>2. CASE ~(count <= 0)
    <3>1. count \in Nat
      BY <2>2
    <3>2. metrics' = [metrics EXCEPT !.abandoned = @ + count]
      BY <1>9, <2>2 DEF RecordAbandoned
    <3>3. metrics' \in Metrics
      BY <3>1, <3>2, MetricsUpdates
    <3> QED
      BY <1>9, <2>2, <3>1, <3>3 DEF RecordAbandoned
  <2> QED
    BY <2>1, <2>2
<1>10. CASE CloseDone       BY <1>10 DEF CloseDone
<1> QED
  BY <1>1, <1>2, <1>3, <1>4, <1>5, <1>6, <1>7, <1>8, <1>9, <1>10 DEF Shutdown

\* Every step of every goroutine keeps the state well typed.
LEMMA TypeNext == TypeOK /\ [Next]_vars => TypeOK'
<1> SUFFICES ASSUME TypeOK, [Next]_vars PROVE TypeOK'
  OBVIOUS
<1>1. CASE CancelCtx
  BY <1>1 DEF TypeOK, CancelCtx, Cancel
<1>2. CASE Start
  BY <1>2 DEF TypeOK, Start
<1>3. CASE Terminated \/ UNCHANGED vars
  BY <1>3 DEF TypeOK, Terminated
<1> QED
  BY <1>1, <1>2, <1>3, TypeSubmit, TypeWork, TypeConsume, TypeShutdown DEF Next

\* The state of the pool is always well typed: the buffer never exceeds the
\* capacity of the channel, and the counters stay natural numbers.
THEOREM TypeCorrect == Spec => []TypeOK
BY TypeInit, TypeNext, PTL DEF Spec
-----------------------------------------------------------------------------
(* The shapes a step can have, as far as the channel and its consumers are  *)
(* concerned: a consumer moves its job on, finishes it, or neither the      *)
(* buffer nor any job's place changes.                                      *)

MoveOn(c) ==
    \E s \in HeldStages \ {"pulled"} :
       /\ hold[c] \in Jobs
       /\ stage[hold[c]] \in HeldStages
       /\ stage[hold[c]] = "pulled" => LockFree
       /\ c = Drainer /\ stage[hold[c]] \notin ExecuteStages
             => s \notin ExecuteStages
       /\ stage' = [stage EXCEPT ![hold[c]] = s]
       /\ UNCHANGED <<queue, call, hold, shutVars>>

Finish(c) ==
    /\ hold[c] \in Jobs
    /\ stage[hold[c]] = "settling"
    /\ stage' = [stage EXCEPT ![hold[c]] = "settled"]
    /\ hold' = [hold EXCEPT ![c] = NoJob]
    /\ UNCHANGED <<queue, call, shutVars>>

\* A step of the goroutines that only start, stop and watch.
Control == \/ CancelCtx \/ Start \/ Shutdown \/ Terminated \/ UNCHANGED vars
           \/ \E w \in Workers : Exit(w)

\* jobDequeued moves one held job on, to recordDeadLetter or to the test of
\* executionCtx, and touches neither the channel nor the holders.
LEMMA DequeuedMoves ==
    ASSUME TypeOK, NEW c \in Consumers, Dequeued(c)
    PROVE  MoveOn(c)
<1>1. hold[c] \in Jobs
  BY HeldJob DEF Dequeued, Dequeue
<1> DEFINE s == IF c = Drainer THEN "dead" ELSE "check"
<1>2. s \in HeldStages \ {"pulled"} /\ (c = Drainer => s \notin ExecuteStages)
  BY DEF HeldStages, ExecuteStages
<1>3. stage[hold[c]] \in HeldStages
  BY DEF Dequeued, Dequeue, HeldStages
<1> QED
  BY <1>1, <1>2, <1>3 DEF Dequeued, Dequeue, MoveOn

\* A step of work or execute moves the held job on and releases nothing.
LEMMA WorkMoves ==
    ASSUME TypeOK, NEW w \in Workers, Working(w), ~Exit(w)
    PROVE  MoveOn(w)
<1>1. w \in Consumers /\ w # Drainer
  BY WorkersAssumption DEF Consumers
<1> USE <1>1, HeldJob DEF HeldStages
<1>2. CASE CheckContext(w)
  BY <1>2 DEF CheckContext, MoveOn
<1>3. CASE BeginAttempt(w)
  BY <1>3 DEF BeginAttempt, MoveOn
<1>4. CASE Succeed(w)
  BY <1>4 DEF Succeed, MoveOn
<1>5. CASE Fail(w)
  BY <1>5 DEF Fail, MoveOn
<1>6. CASE RetryOrGiveUp(w)
  BY <1>6 DEF RetryOrGiveUp, AfterFailure, Exhausted, MoveOn
<1> QED
  BY <1>2, <1>3, <1>4, <1>5, <1>6 DEF Working

\* After the receive, a consumer only moves its own job on, or releases it
\* settled.
LEMMA ConsumeMoves ==
    ASSUME TypeOK, NEW c \in Consumers, Consuming(c), ~Receive(c)
    PROVE  MoveOn(c) \/ Finish(c)
<1> USE HeldJob DEF HeldStages
<1>1. CASE Dequeued(c)
  BY <1>1, DequeuedMoves
<1>2. CASE CountFailed(c)
  BY <1>2 DEF CountFailed, MoveOn, ExecuteStages
<1>3. CASE DeadLetter(c)
  BY <1>3 DEF DeadLetter, MoveOn, ExecuteStages
<1>4. CASE HookReturns(c)
  BY <1>4 DEF HookReturns, MoveOn, ExecuteStages
<1>5. CASE Settle(c)
  BY <1>5 DEF Settle, Finish
<1> QED
  BY <1>1, <1>2, <1>3, <1>4, <1>5 DEF Consuming

\* Every step is a step of Submit, a receive, a move of one held job, or leaves
\* the channel, the holders and the stages alone.
LEMMA Shapes ==
    ASSUME TypeOK, [Next]_vars
    PROVE  \/ \E j \in Jobs : Submitting(j)
           \/ \E c \in Consumers : Receive(c) \/ MoveOn(c) \/ Finish(c)
           \/ Control
<1>1. CASE \E j \in Jobs : Submitting(j)
  BY <1>1
<1>2. CASE \E w \in Workers : Working(w)
  <2>1. PICK w \in Workers : Working(w)
    BY <1>2
  <2>2. w \in Consumers
    BY DEF Consumers
  <2> QED
    BY <2>1, <2>2, WorkMoves DEF Control
<1>3. CASE \E c \in Consumers : Consuming(c)
  BY <1>3, ConsumeMoves
<1> QED
  BY <1>1, <1>2, <1>3 DEF Next, Control

\* The steps of the shutdown goroutines change no job.
LEMMA ControlLeaves ==
    ASSUME Control
    PROVE  UNCHANGED <<queue, call, stage, hold, attempt, recorded, late>>
<1>1. CASE Shutdown
  BY <1>1 DEF Shutdown, CloseWorkersDone, StopAccepting, CloseJobs,
     DrainFinished, DrainExpired, ExpireDrain, DrainerFinish, DrainerSettled,
     UnwindSettled, UnwindExpired, Unwound, RecordAbandoned, CloseDone
<1>2. CASE CancelCtx \/ Start \/ Terminated \/ UNCHANGED vars
  BY <1>2 DEF CancelCtx, Cancel, Start, Terminated
<1>3. CASE \E w \in Workers : Exit(w)
  BY <1>3 DEF Exit, Leave
<1> QED
  BY <1>1, <1>2, <1>3 DEF Control

-----------------------------------------------------------------------------
(* The lock of Submit. *)

\* stateMu keeps at most one Submit between its test and its return, and
\* stopAccepting out of it.
LEMMA LockStep ==
    ASSUME TypeOK, LockInv, QueueInv, [Next]_vars
    PROVE  LockInv'
<1> USE DEF LockInv, InLock, TypeOK
<1>1. ASSUME NEW j \in Jobs, Submitting(j)
      PROVE  LockInv'
  <2>1. CASE SubmitEnter(j)
    BY <2>1 DEF SubmitEnter, Enter, LockFree
  <2>2. CASE SubmitStopped(j)
    BY <2>2 DEF SubmitStopped, Enter, LockFree
  <2>3. CASE SubmitSend(j)
    BY <2>3 DEF SubmitSend, Send
  <2>4. CASE SubmitFull(j)
    BY <2>4 DEF SubmitFull
  <2>5. CASE SubmitCount(j)
    BY <2>5 DEF SubmitCount
  <2> QED
    BY <1>1, <2>1, <2>2, <2>3, <2>4, <2>5 DEF Submitting
<1>2. ASSUME NEW c \in Consumers, Receive(c)
      PROVE  LockInv'
  <2>1. Head(queue) \in Jobs /\ stage[Head(queue)] = "queued"
    BY <1>2 DEF Receive, QueueInv
  <2> QED
    BY <1>2, <2>1 DEF Receive
<1>3. ASSUME NEW c \in Consumers, MoveOn(c)
      PROVE  LockInv'
  BY <1>3 DEF MoveOn, LockFree, HeldStages
<1>4. ASSUME NEW c \in Consumers, Finish(c)
      PROVE  LockInv'
  BY <1>4 DEF Finish
<1>5. CASE Control
  <2>1. UNCHANGED <<call, stage>>
    BY <1>5, ControlLeaves
  <2>2. UNCHANGED stopping \/ LockFree
    BY <1>5 DEF Control, Shutdown, CancelCtx, Cancel, Start, Terminated, Exit,
       Leave, CloseWorkersDone, StopAccepting, CloseJobs, DrainFinished,
       DrainExpired, ExpireDrain, DrainerFinish, DrainerSettled, UnwindSettled,
       UnwindExpired, Unwound, RecordAbandoned, CloseDone
  <2> QED
    BY <2>1, <2>2 DEF LockFree
<1> QED
  BY <1>1, <1>2, <1>3, <1>4, <1>5, Shapes
-----------------------------------------------------------------------------
(* The buffer. *)

\* What Append does to the indices of a sequence.
LEMMA AppendFacts ==
    ASSUME NEW S, NEW q \in Seq(S), NEW x \in S, NEW r, r = Append(q, x)
    PROVE  /\ Len(q) \in Nat
           /\ Len(q) + 1 \in 1 .. Len(r)
           /\ r[Len(q) + 1] = x
           /\ \A i \in 1 .. Len(q) : i \in 1 .. Len(r) /\ r[i] = q[i] /\ q[i] \in S
           /\ \A i \in 1 .. Len(r) : i \in 1 .. Len(q) \/ i = Len(q) + 1
OBVIOUS

\* What Tail does to the indices of a sequence.
LEMMA TailFacts ==
    ASSUME NEW S, NEW q \in Seq(S), q # <<>>, NEW r, r = Tail(q)
    PROVE  /\ 1 \in 1 .. Len(q)
           /\ Head(q) = q[1] /\ q[1] \in S
           /\ \A i \in 1 .. Len(r) :
                /\ i \in Int
                /\ i + 1 \in 1 .. Len(q)
                /\ i + 1 # 1
                /\ r[i] = q[i + 1] /\ r[i] \in S
           /\ \A i \in 1 .. Len(q) : i # 1 => \E k \in 1 .. Len(r) : i = k + 1
<1>1. Len(q) \in Nat \ {0} /\ Len(r) = Len(q) - 1
  OBVIOUS
<1>2. \A i \in 1 .. Len(r) : r[i] = q[i + 1] /\ i + 1 \in 1 .. Len(q)
  BY <1>1
<1>3. ASSUME NEW i \in 1 .. Len(q), i # 1
      PROVE  \E k \in 1 .. Len(r) : i = k + 1
  <2>1. i - 1 \in 1 .. Len(r) /\ i = (i - 1) + 1
    BY <1>1, <1>3
  <2> QED
    BY <2>1
<1>4. \A i \in 1 .. Len(q) : q[i] \in S
  OBVIOUS
<1>5. Head(q) = q[1]
  OBVIOUS
<1> QED
  BY <1>1, <1>2, <1>3, <1>4, <1>5

\* The channel holds each queued job once: only the send adds one, only a
\* receive takes one.
LEMMA QueueStep ==
    ASSUME TypeOK, LockInv, QueueInv, [Next]_vars
    PROVE  QueueInv'
<1>t. queue \in Seq(Jobs) /\ stage \in [Jobs -> Stages]
  BY DEF TypeOK
<1>1. ASSUME NEW j \in Jobs, Submitting(j), ~SubmitSend(j)
      PROVE  QueueInv'
  BY <1>1 DEF Submitting, SubmitEnter, Enter, SubmitStopped, SubmitFull,
     SubmitCount, QueueInv
<1>2. ASSUME NEW j \in Jobs, SubmitSend(j)
      PROVE  QueueInv'
  <2>1. /\ queue' = Append(queue, j)
        /\ stage' = [stage EXCEPT ![j] = "queued"]
        /\ stage[j] = "new"
    BY <1>2 DEF SubmitSend, Send, LockInv
  <2>2. /\ Len(queue) \in Nat
        /\ Len(queue) + 1 \in 1 .. Len(queue')
        /\ queue'[Len(queue) + 1] = j
        /\ \A i \in 1 .. Len(queue) : /\ i \in 1 .. Len(queue')
                                      /\ queue'[i] = queue[i]
                                      /\ queue[i] \in Jobs
        /\ \A i \in 1 .. Len(queue') :
              i \in 1 .. Len(queue) \/ i = Len(queue) + 1
    BY <2>1, <1>t, AppendFacts
  <2>3. \A i \in 1 .. Len(queue) : queue[i] # j
    BY <2>1 DEF QueueInv
  <2>4. \A i \in 1 .. Len(queue') : stage'[queue'[i]] = "queued"
    BY <2>1, <2>2, <2>3, <1>t DEF QueueInv
  <2>5. \A i, k \in 1 .. Len(queue') : queue'[i] = queue'[k] => i = k
    BY <2>2, <2>3 DEF QueueInv
  <2>6. ASSUME NEW k \in Jobs, stage'[k] = "queued"
        PROVE  \E i \in 1 .. Len(queue') : queue'[i] = k
    <3>1. CASE k = j
      BY <3>1, <2>2
    <3>2. CASE k # j
      BY <3>2, <2>6, <2>1, <2>2, <1>t DEF QueueInv
    <3> QED
      BY <3>1, <3>2
  <2> QED
    BY <2>4, <2>5, <2>6 DEF QueueInv
<1>3. ASSUME NEW c \in Consumers, Receive(c)
      PROVE  QueueInv'
  <2>1. /\ queue # <<>>
        /\ queue' = Tail(queue)
        /\ stage' = [stage EXCEPT ![Head(queue)] = "pulled"]
    BY <1>3 DEF Receive
  <2>2. /\ 1 \in 1 .. Len(queue)
        /\ Head(queue) = queue[1] /\ queue[1] \in Jobs
        /\ \A i \in 1 .. Len(queue') :
              /\ i \in Int
              /\ i + 1 \in 1 .. Len(queue)
              /\ i + 1 # 1
              /\ queue'[i] = queue[i + 1] /\ queue'[i] \in Jobs
        /\ \A i \in 1 .. Len(queue) :
              i # 1 => \E k \in 1 .. Len(queue') : i = k + 1
    BY <2>1, <1>t, TailFacts
  <2>3. \A i \in 1 .. Len(queue') :
           queue'[i] # queue[1] /\ stage[queue'[i]] = "queued"
    BY <2>2 DEF QueueInv
  <2>4. \A i \in 1 .. Len(queue') : stage'[queue'[i]] = "queued"
    BY <2>1, <2>2, <2>3, <1>t
  <2>5. \A i, k \in 1 .. Len(queue') : queue'[i] = queue'[k] => i = k
    <3> SUFFICES ASSUME NEW i \in 1 .. Len(queue'), NEW k \in 1 .. Len(queue'),
                        queue'[i] = queue'[k]
                 PROVE  i = k
      OBVIOUS
    <3>1. i + 1 = k + 1
      BY <2>2 DEF QueueInv
    <3> QED
      BY <3>1, <2>2
  <2>6. ASSUME NEW k \in Jobs, stage'[k] = "queued"
        PROVE  \E i \in 1 .. Len(queue') : queue'[i] = k
    <3>1. k # queue[1] /\ stage[k] = "queued"
      BY <2>6, <2>1, <2>2, <1>t
    <3>2. PICK i \in 1 .. Len(queue) : queue[i] = k
      BY <3>1 DEF QueueInv
    <3>3. PICK m \in 1 .. Len(queue') : i = m + 1
      BY <3>1, <3>2, <2>2
    <3> QED
      BY <3>2, <3>3, <2>2
  <2> QED
    BY <2>4, <2>5, <2>6 DEF QueueInv
<1>4. ASSUME NEW c \in Consumers, MoveOn(c) \/ Finish(c)
      PROVE  QueueInv'
  <2>1. PICK s \in Stages \ {"queued"} :
           /\ hold[c] \in Jobs
           /\ stage[hold[c]] # "queued"
           /\ stage' = [stage EXCEPT ![hold[c]] = s]
           /\ queue' = queue
    BY <1>4 DEF MoveOn, Finish, HeldStages, Stages
  <2> QED
    BY <2>1, <1>t DEF QueueInv
<1>5. CASE Control
  BY <1>5, ControlLeaves DEF QueueInv
<1> QED
  BY <1>1, <1>2, <1>3, <1>4, <1>5, Shapes

-----------------------------------------------------------------------------
(* The consumers. *)

\* A job taken from the channel stays with the one goroutine that took it.
LEMMA HoldStep ==
    ASSUME TypeOK, LockInv, QueueInv, HoldInv, [Next]_vars
    PROVE  HoldInv'
<1> USE DEF TypeOK
<1>d. Drainer \in Consumers /\ NoJob \notin Jobs
  BY JobsAssumption DEF Consumers
<1>1. ASSUME NEW j \in Jobs, Submitting(j)
      PROVE  HoldInv'
  <2>1. hold' = hold /\ drainer' = drainer
    BY <1>1 DEF Submitting, SubmitEnter, Enter, SubmitStopped, SubmitSend, Send,
       SubmitFull, SubmitCount
  <2>2. \/ stage' = stage
        \/ stage[j] = "new" /\ stage' = [stage EXCEPT ![j] = "queued"]
    BY <1>1 DEF Submitting, SubmitEnter, Enter, SubmitStopped, SubmitSend, Send,
       SubmitFull, SubmitCount, LockInv
  <2>3. CASE stage' = stage
    BY <2>1, <2>3 DEF HoldInv
  <2>4. CASE stage[j] = "new" /\ stage' = [stage EXCEPT ![j] = "queued"]
    BY <2>1, <2>4, <1>d DEF HoldInv, HeldStages
  <2> QED
    BY <2>2, <2>3, <2>4
<1>2. ASSUME NEW c \in Consumers, Receive(c)
      PROVE  HoldInv'
  <2> DEFINE h == Head(queue)
  <2>1. h \in Jobs /\ stage[h] = "queued" /\ hold[c] = NoJob
    BY <1>2 DEF Receive, QueueInv
  <2>2. /\ hold' = [hold EXCEPT ![c] = h]
        /\ stage' = [stage EXCEPT ![h] = "pulled"]
        /\ drainer' = drainer
        /\ c = Drainer => drainer = "pulling"
    BY <1>2 DEF Receive, MayReceive
  <2> HIDE DEF h
  <2>3. \A d \in Consumers : hold[d] # h
    BY <2>1, <1>d DEF HoldInv, HeldStages
  <2>4. \A d \in Consumers : hold'[d] # NoJob => stage'[hold'[d]] \in HeldStages
    BY <2>1, <2>2, <2>3 DEF HoldInv, HeldStages
  <2>5. \A d, e \in Consumers : hold'[d] # NoJob /\ hold'[d] = hold'[e] => d = e
    BY <2>1, <2>2, <2>3 DEF HoldInv
  <2>6. ASSUME NEW k \in Jobs, stage'[k] \in HeldStages
        PROVE  \E d \in Consumers : hold'[d] = k
    <3>1. CASE k = h
      BY <3>1, <2>2
    <3>2. CASE k # h
      <4>1. PICK d \in Consumers : hold[d] = k
        BY <3>2, <2>6, <2>2 DEF HoldInv
      <4> QED
        BY <4>1, <2>1, <2>2, <1>d
    <3> QED
      BY <3>1, <3>2
  <2>7. hold'[Drainer] # NoJob => /\ drainer' = "pulling"
                                  /\ stage'[hold'[Drainer]] \notin ExecuteStages
    BY <2>1, <2>2, <2>3, <1>d DEF HoldInv, ExecuteStages
  <2> QED
    BY <2>4, <2>5, <2>6, <2>7 DEF HoldInv
<1>3. ASSUME NEW c \in Consumers, MoveOn(c)
      PROVE  HoldInv'
  <2>1. PICK s \in HeldStages :
           /\ hold[c] \in Jobs
           /\ stage[hold[c]] \in HeldStages
           /\ c = Drainer /\ stage[hold[c]] \notin ExecuteStages
                 => s \notin ExecuteStages
           /\ stage' = [stage EXCEPT ![hold[c]] = s]
           /\ hold' = hold
           /\ drainer' = drainer
    BY <1>3 DEF MoveOn
  <2>2. \A d \in Consumers : hold'[d] # NoJob => stage'[hold'[d]] \in HeldStages
    BY <2>1 DEF HoldInv
  <2>3. \A k \in Jobs : stage'[k] \in HeldStages => stage[k] \in HeldStages
    BY <2>1
  <2>4. hold'[Drainer] # NoJob => stage'[hold'[Drainer]] \notin ExecuteStages
    <3>1. CASE c = Drainer
      BY <3>1, <2>1, <1>d DEF HoldInv
    <3>2. CASE c # Drainer
      BY <3>2, <2>1, <1>d DEF HoldInv
    <3> QED
      BY <3>1, <3>2
  <2> QED
    BY <2>1, <2>2, <2>3, <2>4 DEF HoldInv
<1>4. ASSUME NEW c \in Consumers, Finish(c)
      PROVE  HoldInv'
  <2>1. /\ hold[c] \in Jobs
        /\ stage' = [stage EXCEPT ![hold[c]] = "settled"]
        /\ hold' = [hold EXCEPT ![c] = NoJob]
        /\ drainer' = drainer
    BY <1>4 DEF Finish
  <2>2. \A d \in Consumers : d # c => hold[d] # hold[c]
    BY <2>1, <1>d DEF HoldInv
  <2>3. \A d \in Consumers : hold'[d] # NoJob => stage'[hold'[d]] \in HeldStages
    BY <2>1, <2>2 DEF HoldInv
  <2>4. \A d, e \in Consumers : hold'[d] # NoJob /\ hold'[d] = hold'[e] => d = e
    BY <2>1 DEF HoldInv
  <2>5. ASSUME NEW k \in Jobs, stage'[k] \in HeldStages
        PROVE  \E d \in Consumers : hold'[d] = k
    <3>1. k # hold[c] /\ stage[k] \in HeldStages
      BY <2>5, <2>1 DEF HeldStages
    <3>2. PICK d \in Consumers : hold[d] = k
      BY <3>1 DEF HoldInv
    <3> QED
      BY <3>1, <3>2, <2>1
  <2>6. hold'[Drainer] # NoJob => /\ drainer' = "pulling"
                                  /\ stage'[hold'[Drainer]] \notin ExecuteStages
    BY <2>1, <2>2, <1>d DEF HoldInv
  <2> QED
    BY <2>3, <2>4, <2>5, <2>6 DEF HoldInv
<1>5. CASE Control
  <2>1. UNCHANGED <<stage, hold>>
    BY <1>5, ControlLeaves
  <2>2. drainer' = drainer \/ hold[Drainer] = NoJob \/ drainer # "pulling"
    BY <1>5 DEF Control, Shutdown, CancelCtx, Cancel, Start, Terminated, Exit,
       Leave, CloseWorkersDone, StopAccepting, CloseJobs, DrainFinished,
       DrainExpired, ExpireDrain, DrainerFinish, DrainerSettled, UnwindSettled,
       UnwindExpired, Unwound, RecordAbandoned, CloseDone
  <2>3. drainer = "pulling" /\ hold[Drainer] # NoJob => drainer' = "pulling"
    BY <2>2
  <2> QED
    BY <2>1, <2>3 DEF HoldInv
<1> QED
  BY <1>1, <1>2, <1>3, <1>4, <1>5, Shapes
-----------------------------------------------------------------------------
(* Shutdown. *)

\* The monitor, the drainer and the workers end in the order of Start.
LEMMA ShutdownStep ==
    ASSUME TypeOK, LockInv, HoldInv, ShutdownInv, [Next]_vars
    PROVE  ShutdownInv'
<1>d. Drainer \in Consumers /\ Workers \subseteq Consumers /\ Drainer \notin Workers
  BY WorkersAssumption DEF Consumers
<1>t. exited \subseteq Workers /\ hold \in [Consumers -> Jobs \cup {NoJob}]
  BY DEF TypeOK
<1>1. ASSUME NEW j \in Jobs, Submitting(j)
      PROVE  ShutdownInv'
  <2>1. UNCHANGED <<shutVars, hold>>
    BY <1>1 DEF Submitting, SubmitEnter, Enter, SubmitStopped, SubmitSend, Send,
       SubmitFull, SubmitCount
  <2>2. queue' = queue \/ ~stopping
    BY <1>1 DEF Submitting, SubmitEnter, Enter, SubmitStopped, SubmitSend, Send,
       SubmitFull, SubmitCount, LockInv, InLock
  <2> QED
    BY <2>1, <2>2 DEF ShutdownInv, MonitorStates
<1>2. ASSUME NEW c \in Consumers, Receive(c)
      PROVE  ShutdownInv'
  <2>1. /\ UNCHANGED shutVars
        /\ queue # <<>>
        /\ \E x : hold' = [hold EXCEPT ![c] = x]
    BY <1>2 DEF Receive
  <2> QED
    BY <2>1, <1>d, <1>t DEF ShutdownInv
<1>3. ASSUME NEW c \in Consumers, MoveOn(c)
      PROVE  ShutdownInv'
  BY <1>3 DEF MoveOn, ShutdownInv
<1>4. ASSUME NEW c \in Consumers, Finish(c)
      PROVE  ShutdownInv'
  BY <1>4, <1>d, <1>t DEF Finish, ShutdownInv
<1>5. CASE Control
  <2>1. UNCHANGED <<queue, hold>>
    BY <1>5, ControlLeaves
  <2> USE <2>1 DEF ShutdownInv
  <2>2. CASE CancelCtx \/ Start \/ Terminated \/ UNCHANGED vars
    BY <2>2 DEF CancelCtx, Cancel, Start, Terminated
  <2>3. CASE CloseWorkersDone
    BY <2>3 DEF CloseWorkersDone
  <2>4. CASE StopAccepting
    BY <2>4 DEF StopAccepting, CloseJobs
  <2>5. CASE DrainFinished
    BY <2>5 DEF DrainFinished
  <2>6. CASE DrainExpired
    BY <2>6 DEF DrainExpired, ExpireDrain
  <2>7. CASE DrainerFinish
    BY <2>7 DEF DrainerFinish
  <2>8. CASE DrainerSettled
    BY <2>8 DEF DrainerSettled
  <2>9. CASE UnwindSettled
    BY <2>9 DEF UnwindSettled
  <2>10. CASE UnwindExpired
    BY <2>10 DEF UnwindExpired, Unwound
  <2>11. CASE RecordAbandoned
    BY <2>11 DEF RecordAbandoned
  <2>12. CASE CloseDone
    BY <2>12 DEF CloseDone
  <2>13. ASSUME NEW w \in Workers, Exit(w)
         PROVE  ShutdownInv'
    BY <2>13, <1>t DEF Exit, Leave
  <2> QED
    BY <1>5, <2>2, <2>3, <2>4, <2>5, <2>6, <2>7, <2>8, <2>9, <2>10, <2>11,
       <2>12, <2>13 DEF Control, Shutdown
<1> QED
  BY <1>1, <1>2, <1>3, <1>4, <1>5, Shapes

-----------------------------------------------------------------------------
(* Attempts.  The two tests of the context, in work and in execute, are the *)
(* ones that matter here.                                                   *)

\* A worker that still holds a job after the cancellation proves that the
\* drain deadline has passed: after a clean drain no worker holds one.
LEMMA CancelledWorker ==
    ASSUME TypeOK, ShutdownInv, NEW w \in Workers, hold[w] # NoJob, execCancelled
    PROVE  drainer # "off"
BY DEF ShutdownInv, TypeOK, MonitorStates

\* The loop of execute never begins more than maxAttempts attempts, and gives
\* up before that only after the cancellation.
LEMMA AttemptStep ==
    ASSUME TypeOK, LockInv, QueueInv, HoldInv, ShutdownInv, AttemptInv, [Next]_vars
    PROVE  AttemptInv'
<1>t. /\ stage \in [Jobs -> Stages] /\ attempt \in [Jobs -> Nat]
      /\ queue \in Seq(Jobs) /\ MaxAttempts \in Nat \ {0}
  BY OptionsAssumption DEF TypeOK
<1>1. ASSUME NEW j \in Jobs, Submitting(j)
      PROVE  AttemptInv'
  <2>1. attempt' = attempt /\ drainer' = drainer
    BY <1>1 DEF Submitting, SubmitEnter, Enter, SubmitStopped, SubmitSend, Send,
       SubmitFull, SubmitCount
  <2>2. \/ stage' = stage
        \/ stage[j] = "new" /\ stage' = [stage EXCEPT ![j] = "queued"]
    BY <1>1 DEF Submitting, SubmitEnter, Enter, SubmitStopped, SubmitSend, Send,
       SubmitFull, SubmitCount, LockInv
  <2> QED
    BY <2>1, <2>2, <1>t DEF AttemptInv, GraceHonoured
<1>2. ASSUME NEW w \in Workers, Working(w), ~Exit(w)
      PROVE  AttemptInv'
  <2>1. w \in Consumers
    BY DEF Consumers
  <2>2. hold[w] \in Jobs /\ hold[w] # NoJob
    BY <1>2, <2>1, HeldJob DEF Working, CheckContext, BeginAttempt, Succeed,
       Fail, RetryOrGiveUp, AfterFailure, Exhausted
  <2>3. execCancelled => drainer # "off"
    BY <2>2, CancelledWorker
  <2> USE <1>t, <2>2, <2>3 DEF AttemptInv, GraceHonoured
  <2>4. CASE CheckContext(w)
    BY <2>4 DEF CheckContext
  <2>5. CASE BeginAttempt(w)
    BY <2>5 DEF BeginAttempt
  <2>6. CASE Succeed(w)
    BY <2>6 DEF Succeed
  <2>7. CASE Fail(w)
    BY <2>7 DEF Fail
  <2>8. CASE RetryOrGiveUp(w)
    BY <2>8 DEF RetryOrGiveUp, AfterFailure, Exhausted
  <2> QED
    BY <1>2, <2>4, <2>5, <2>6, <2>7, <2>8 DEF Working
<1>3. ASSUME NEW c \in Consumers, Consuming(c)
      PROVE  AttemptInv'
  <2> USE <1>t, HeldJob DEF AttemptInv, GraceHonoured
  <2>1. CASE Receive(c)
    <3>1. Head(queue) \in Jobs /\ stage[Head(queue)] = "queued"
      BY <2>1 DEF Receive, QueueInv
    <3> QED
      BY <2>1, <3>1 DEF Receive
  <2>2. CASE Dequeued(c)
    <3>1. c = Drainer => drainer # "off"
      BY <2>2 DEF Dequeued, Dequeue, HoldInv
    <3> QED
      BY <2>2, <3>1 DEF Dequeued, Dequeue
  <2>3. CASE CountFailed(c)
    BY <2>3 DEF CountFailed
  <2>4. CASE DeadLetter(c)
    BY <2>4 DEF DeadLetter
  <2>5. CASE HookReturns(c)
    BY <2>5 DEF HookReturns
  <2>6. CASE Settle(c)
    BY <2>6 DEF Settle
  <2> QED
    BY <1>3, <2>1, <2>2, <2>3, <2>4, <2>5, <2>6 DEF Consuming
<1>4. CASE Control
  <2>1. UNCHANGED <<stage, attempt>>
    BY <1>4, ControlLeaves
  <2>2. drainer # "off" => drainer' # "off"
    BY <1>4 DEF Control, Shutdown, CancelCtx, Cancel, Start, Terminated, Exit,
       Leave, CloseWorkersDone, StopAccepting, CloseJobs, DrainFinished,
       DrainExpired, ExpireDrain, DrainerFinish, DrainerSettled, UnwindSettled,
       UnwindExpired, Unwound, RecordAbandoned, CloseDone
  <2> QED
    BY <2>1, <2>2 DEF AttemptInv, GraceHonoured
<1> QED
  BY <1>1, <1>2, <1>3, <1>4 DEF Next, Control

\* execCancelled never goes back: cancelJobs is not undone.
LEMMA LateStep ==
    ASSUME TypeOK, QueueInv, HoldInv, LateInv, [Next]_vars
    PROVE  LateInv'
<1>t. /\ stage \in [Jobs -> Stages] /\ late \in [Workers -> Nat]
      /\ hold \in [Consumers -> Jobs \cup {NoJob}]
  BY DEF TypeOK
<1>d. Workers \subseteq Consumers /\ NoJob \notin Jobs
  BY JobsAssumption DEF Consumers
<1>1. ASSUME NEW j \in Jobs, Submitting(j)
      PROVE  LateInv'
  <2>1. UNCHANGED <<late, hold, shutVars>>
    BY <1>1 DEF Submitting, SubmitEnter, Enter, SubmitStopped, SubmitSend, Send,
       SubmitFull, SubmitCount
  <2>2. stage' = stage \/ stage' = [stage EXCEPT ![j] = "queued"]
    BY <1>1 DEF Submitting, SubmitEnter, Enter, SubmitStopped, SubmitSend, Send,
       SubmitFull, SubmitCount
  <2> QED
    BY <2>1, <2>2, <1>t, <1>d DEF LateInv
<1>2. ASSUME NEW c \in Consumers, NEW k \in Jobs, NEW s \in Stages,
             UNCHANGED <<late, execCancelled>>,
             hold[c] = k \/ (\A d \in Consumers : hold[d] # k),
             hold' \in {hold, [hold EXCEPT ![c] = k], [hold EXCEPT ![c] = NoJob]},
             stage' = [stage EXCEPT ![k] = s],
             s = "start" => c \in Workers /\ (~execCancelled \/ late[c] = 0)
      PROVE  LateInv'
  BY <1>2, <1>t, <1>d DEF LateInv, HoldInv
<1>3. ASSUME NEW w \in Workers, Working(w), ~Exit(w)
      PROVE  LateInv'
  <2>1. w \in Consumers
    BY <1>d
  <2>2. hold[w] \in Jobs
    BY <1>3, <2>1, HeldJob DEF Working, CheckContext, BeginAttempt, Succeed,
       Fail, RetryOrGiveUp, AfterFailure, Exhausted
  <2>3. CASE BeginAttempt(w)
    <3>1. /\ stage' = [stage EXCEPT ![hold[w]] = "running"]
          /\ stage[hold[w]] = "start"
          /\ late' = IF execCancelled THEN [late EXCEPT ![w] = @ + 1] ELSE late
          /\ UNCHANGED <<hold, execCancelled>>
      BY <2>3 DEF BeginAttempt
    <3>2. late[w] = 0
      BY <3>1, <2>2, <1>t, <1>d DEF LateInv
    <3> QED
      BY <3>1, <3>2, <2>1, <2>2, <1>t, <1>d DEF LateInv, HoldInv
  <2>4. CASE ~BeginAttempt(w)
    <3>1. PICK s \in Stages :
            /\ stage' = [stage EXCEPT ![hold[w]] = s]
            /\ s = "start" => ~execCancelled
            /\ UNCHANGED <<hold, late, execCancelled>>
      BY <1>3, <2>4 DEF Working, CheckContext, Succeed, Fail, RetryOrGiveUp,
         AfterFailure, Exhausted, Stages
    <3> QED
      BY <3>1, <2>1, <2>2, <1>2
  <2> QED
    BY <2>3, <2>4
<1>4. ASSUME NEW c \in Consumers, Consuming(c), ~Receive(c)
      PROVE  LateInv'
  <2>1. hold[c] \in Jobs
    BY <1>4, HeldJob DEF Consuming, Dequeued, Dequeue, CountFailed, DeadLetter,
       HookReturns, Settle
  <2>2. PICK s \in Stages :
          /\ stage' = [stage EXCEPT ![hold[c]] = s]
          /\ s # "start"
          /\ hold' \in {hold, [hold EXCEPT ![c] = NoJob]}
          /\ UNCHANGED <<late, execCancelled>>
    BY <1>4 DEF Consuming, Dequeued, Dequeue, CountFailed, DeadLetter,
       HookReturns, Settle, Stages
  <2> QED
    BY <2>1, <2>2, <1>2
<1>5. ASSUME NEW c \in Consumers, Receive(c)
      PROVE  LateInv'
  <2>1. Head(queue) \in Jobs /\ stage[Head(queue)] = "queued"
    BY <1>5 DEF Receive, QueueInv, TypeOK
  <2>2. \A d \in Consumers : hold[d] # Head(queue)
    BY <2>1, <1>d DEF HoldInv, HeldStages
  <2>3. "pulled" \in Stages
    BY DEF Stages
  <2>4. /\ hold' = [hold EXCEPT ![c] = Head(queue)]
        /\ stage' = [stage EXCEPT ![Head(queue)] = "pulled"]
        /\ UNCHANGED <<late, execCancelled>>
    BY <1>5 DEF Receive
  <2> QED
    BY <2>1, <2>2, <2>3, <2>4, <1>2
<1>6. CASE Control
  <2>1. UNCHANGED <<stage, hold, late>>
    BY <1>6, ControlLeaves
  <2>2. execCancelled => execCancelled'
    BY <1>6 DEF Control, Shutdown, CancelCtx, Cancel, Start, Terminated, Exit,
       Leave, CloseWorkersDone, StopAccepting, CloseJobs, DrainFinished,
       DrainExpired, ExpireDrain, DrainerFinish, DrainerSettled, UnwindSettled,
       UnwindExpired, Unwound, RecordAbandoned, CloseDone
  <2> QED
    BY <2>1, <2>2 DEF LateInv
<1> QED
  BY <1>1, <1>3, <1>4, <1>5, <1>6 DEF Next, Control
-----------------------------------------------------------------------------
(* Outcomes. *)

\* A job is recorded by the step that takes it past its outcome, once.
LEMMA RecordStep ==
    ASSUME TypeOK, LockInv, QueueInv, RecordInv, [Next]_vars
    PROVE  RecordInv'
<1>t. /\ stage \in [Jobs -> Stages] /\ recorded \in [Jobs -> Nat]
      /\ queue \in Seq(Jobs)
  BY DEF TypeOK
<1> USE <1>t DEF RecordInv, RecordedStages
<1>1. ASSUME NEW j \in Jobs, Submitting(j)
      PROVE  RecordInv'
  <2>1. recorded' = recorded
    BY <1>1 DEF Submitting, SubmitEnter, Enter, SubmitStopped, SubmitSend, Send,
       SubmitFull, SubmitCount
  <2>2. \/ stage' = stage
        \/ stage[j] = "new" /\ stage' = [stage EXCEPT ![j] = "queued"]
    BY <1>1 DEF Submitting, SubmitEnter, Enter, SubmitStopped, SubmitSend, Send,
       SubmitFull, SubmitCount, LockInv
  <2> QED
    BY <2>1, <2>2
<1>2. ASSUME NEW w \in Workers, Working(w), ~Exit(w)
      PROVE  RecordInv'
  <2>1. w \in Consumers
    BY DEF Consumers
  <2> USE HeldJob, <2>1
  <2>2. CASE CheckContext(w)
    BY <2>2 DEF CheckContext
  <2>3. CASE BeginAttempt(w)
    BY <2>3 DEF BeginAttempt
  <2>4. CASE Succeed(w)
    BY <2>4 DEF Succeed
  <2>5. CASE Fail(w)
    BY <2>5 DEF Fail
  <2>6. CASE RetryOrGiveUp(w)
    BY <2>6 DEF RetryOrGiveUp, AfterFailure, Exhausted
  <2> QED
    BY <1>2, <2>2, <2>3, <2>4, <2>5, <2>6 DEF Working
<1>3. ASSUME NEW c \in Consumers, Consuming(c)
      PROVE  RecordInv'
  <2> USE HeldJob
  <2>1. CASE Receive(c)
    <3>1. Head(queue) \in Jobs /\ stage[Head(queue)] = "queued"
      BY <2>1 DEF Receive, QueueInv
    <3> QED
      BY <2>1, <3>1 DEF Receive
  <2>2. CASE Dequeued(c)
    BY <2>2 DEF Dequeued, Dequeue
  <2>3. CASE CountFailed(c)
    BY <2>3 DEF CountFailed
  <2>4. CASE DeadLetter(c)
    BY <2>4 DEF DeadLetter
  <2>5. CASE HookReturns(c)
    BY <2>5 DEF HookReturns
  <2>6. CASE Settle(c)
    BY <2>6 DEF Settle
  <2> QED
    BY <1>3, <2>1, <2>2, <2>3, <2>4, <2>5, <2>6 DEF Consuming
<1>4. CASE Control
  BY <1>4, ControlLeaves
<1> QED
  BY <1>1, <1>2, <1>3, <1>4 DEF Next, Control

-----------------------------------------------------------------------------
(* The counters count sets of jobs. *)

\* How the size of a set of jobs changes by one job.
LEMMA JobSets ==
    ASSUME NEW S \in SUBSET Jobs
    PROVE  /\ IsFiniteSet(S) /\ Cardinality(S) \in Nat
           /\ \A j \in Jobs \ S : Cardinality(S \cup {j}) = Cardinality(S) + 1
           /\ \A j \in S : Cardinality(S \ {j}) = Cardinality(S) - 1
<1>1. IsFiniteSet(S)
  BY JobsAssumption, FS_Subset
<1>2. Cardinality(S) \in Nat
  BY <1>1, FS_CardinalityType
<1>3. ASSUME NEW j \in Jobs \ S
      PROVE  Cardinality(S \cup {j}) = Cardinality(S) + 1
  BY <1>1, FS_AddElement
<1>4. ASSUME NEW j \in S
      PROVE  Cardinality(S \ {j}) = Cardinality(S) - 1
  BY <1>1, FS_RemoveElement
<1> QED
  BY <1>1, <1>2, <1>3, <1>4

\* What each update of the metrics does to its fields.
LEMMA MetricsFields ==
    ASSUME NEW m \in Metrics, NEW n \in Nat
    PROVE  /\ m.depth \in Int /\ m.processed \in Nat
           /\ m.failed \in Nat /\ m.deadLettered \in Nat
           /\ \A d \in Int : LET k == [m EXCEPT !.depth = d] IN
                 /\ k.depth = d /\ k.processed = m.processed
                 /\ k.failed = m.failed /\ k.deadLettered = m.deadLettered
           /\ LET k == [m EXCEPT !.processed = @ + 1] IN
                 /\ k.depth = m.depth /\ k.processed = m.processed + 1
                 /\ k.failed = m.failed /\ k.deadLettered = m.deadLettered
           /\ LET k == [m EXCEPT !.failed = @ + 1] IN
                 /\ k.depth = m.depth /\ k.processed = m.processed
                 /\ k.failed = m.failed + 1 /\ k.deadLettered = m.deadLettered
           /\ LET k == [m EXCEPT !.deadLettered = @ + 1] IN
                 /\ k.depth = m.depth /\ k.processed = m.processed
                 /\ k.failed = m.failed /\ k.deadLettered = m.deadLettered + 1
           /\ LET k == [m EXCEPT !.abandoned = @ + n] IN
                 /\ k.depth = m.depth /\ k.processed = m.processed
                 /\ k.failed = m.failed /\ k.deadLettered = m.deadLettered
BY DEF Metrics

\* A step that changes none of the counted sets and none of their counters.
LEMMA CountSame ==
    ASSUME CountInv,
           AcceptedJobs' = AcceptedJobs, SettledJobs' = SettledJobs,
           RecordedJobs' = RecordedJobs, FailedJobs' = FailedJobs,
           WaitingJobs' = WaitingJobs,
           UNCHANGED <<accepted, settled>>,
           metrics'.depth = metrics.depth,
           metrics'.processed = metrics.processed,
           metrics'.failed = metrics.failed,
           metrics'.deadLettered = metrics.deadLettered
    PROVE  CountInv'
BY DEF CountInv

\* Submit raises accepted and the depth with the call that returns nil.
LEMMA CountSubmit ==
    ASSUME TypeOK, LockInv, CountInv, NEW j \in Jobs, Submitting(j)
    PROVE  CountInv'
<1>t. stage \in [Jobs -> Stages] /\ call \in [Jobs -> CallStates] /\ metrics \in Metrics
  BY DEF TypeOK
<1>1. CASE ~SubmitCount(j)
  <2>1. /\ call[j] # "ok" /\ \E x \in CallStates \ {"ok"} : call' = [call EXCEPT ![j] = x]
        /\ \/ stage' = stage
           \/ stage[j] = "new" /\ stage' = [stage EXCEPT ![j] = "queued"]
        /\ UNCHANGED countVars
    BY <1>1 DEF Submitting, SubmitEnter, Enter, SubmitStopped, SubmitSend, Send,
       SubmitFull, CallStates, LockInv
  <2>2. AcceptedJobs' = AcceptedJobs
    BY <2>1, <1>t DEF AcceptedJobs
  <2>3. SettledJobs' = SettledJobs /\ FailedJobs' = FailedJobs
    BY <2>1, <1>t DEF SettledJobs, FailedJobs
  <2>4. RecordedJobs' = RecordedJobs
    BY <2>1, <1>t DEF RecordedJobs, RecordedStages
  <2>5. WaitingJobs' = WaitingJobs
    BY <2>1, <1>t DEF WaitingJobs
  <2> QED
    BY <2>1, <2>2, <2>3, <2>4, <2>5, CountSame
<1>2. CASE SubmitCount(j)
  <2>1. /\ call[j] = "counting" /\ stage[j] \in {"queued", "pulled"}
        /\ call' = [call EXCEPT ![j] = "ok"]
        /\ stage' = stage
        /\ accepted' = accepted + 1 /\ settled' = settled
        /\ metrics' = [metrics EXCEPT !.depth = metrics.depth + 1]
    BY <1>2 DEF SubmitCount, LockInv
  <2>2. /\ metrics'.depth = metrics.depth + 1
        /\ metrics'.processed = metrics.processed
        /\ metrics'.failed = metrics.failed
        /\ metrics'.deadLettered = metrics.deadLettered
    BY <2>1, <1>t, MetricsFields
  <2>3. AcceptedJobs' = AcceptedJobs \cup {j} /\ j \notin AcceptedJobs
    BY <2>1, <1>t DEF AcceptedJobs
  <2>4. WaitingJobs' = WaitingJobs \cup {j} /\ j \notin WaitingJobs
    BY <2>1, <1>t DEF WaitingJobs
  <2>5. /\ SettledJobs' = SettledJobs /\ FailedJobs' = FailedJobs
        /\ RecordedJobs' = RecordedJobs
    BY <2>1 DEF SettledJobs, FailedJobs, RecordedJobs
  <2>6. AcceptedJobs \in SUBSET Jobs /\ WaitingJobs \in SUBSET Jobs
    BY DEF AcceptedJobs, WaitingJobs
  <2>7. /\ Cardinality(AcceptedJobs') = Cardinality(AcceptedJobs) + 1
        /\ Cardinality(WaitingJobs') = Cardinality(WaitingJobs) + 1
    BY <2>3, <2>4, <2>6, JobSets
  <2> QED
    BY <2>1, <2>2, <2>5, <2>7 DEF CountInv
<1> QED
  BY <1>1, <1>2

\* A worker's own steps count nothing but a success.
LEMMA CountWork ==
    ASSUME TypeOK, CountInv, NEW w \in Workers, Working(w), ~Exit(w)
    PROVE  CountInv'
<1>t. stage \in [Jobs -> Stages] /\ metrics \in Metrics
  BY DEF TypeOK
<1>h. hold[w] \in Jobs
  BY HeldJob DEF Consumers, Working, CheckContext, BeginAttempt, Succeed, Fail,
     RetryOrGiveUp, AfterFailure, Exhausted
<1>1. CASE ~Succeed(w)
  <2>1. /\ stage[hold[w]] \in {"check", "start", "running", "failed"}
        /\ \E s \in {"dead", "start", "running", "failed"} :
              stage' = [stage EXCEPT ![hold[w]] = s]
        /\ call' = call
        /\ UNCHANGED countVars
    BY <1>1 DEF Working, CheckContext, BeginAttempt, Fail, RetryOrGiveUp,
       AfterFailure, Exhausted
  <2>2. AcceptedJobs' = AcceptedJobs
    BY <2>1 DEF AcceptedJobs
  <2>3. SettledJobs' = SettledJobs /\ FailedJobs' = FailedJobs
    BY <2>1, <1>t, <1>h DEF SettledJobs, FailedJobs
  <2>4. RecordedJobs' = RecordedJobs
    BY <2>1, <1>t, <1>h DEF RecordedJobs, RecordedStages
  <2>5. WaitingJobs' = WaitingJobs
    BY <2>1, <1>t, <1>h DEF WaitingJobs
  <2> QED
    BY <2>1, <2>2, <2>3, <2>4, <2>5, CountSame
<1>2. CASE Succeed(w)
  <2>1. /\ stage[hold[w]] = "running"
        /\ stage' = [stage EXCEPT ![hold[w]] = "settling"]
        /\ UNCHANGED <<call, accepted, settled>>
        /\ metrics' = [metrics EXCEPT !.processed = @ + 1]
    BY <1>2 DEF Succeed
  <2>2. /\ metrics'.depth = metrics.depth
        /\ metrics'.processed = metrics.processed + 1
        /\ metrics'.failed = metrics.failed
        /\ metrics'.deadLettered = metrics.deadLettered
        /\ metrics.processed \in Nat /\ metrics.deadLettered \in Nat
    BY <2>1, <1>t, MetricsFields
  <2>3. RecordedJobs' = RecordedJobs \cup {hold[w]} /\ hold[w] \notin RecordedJobs
    BY <2>1, <1>t, <1>h DEF RecordedJobs, RecordedStages
  <2>4. /\ AcceptedJobs' = AcceptedJobs /\ WaitingJobs' = WaitingJobs
        /\ SettledJobs' = SettledJobs /\ FailedJobs' = FailedJobs
    BY <2>1, <1>t, <1>h DEF AcceptedJobs, WaitingJobs, SettledJobs, FailedJobs
  <2>5. Cardinality(RecordedJobs') = Cardinality(RecordedJobs) + 1
    <3>1. RecordedJobs \in SUBSET Jobs
      BY DEF RecordedJobs
    <3> QED
      BY <2>3, <3>1, <1>h, JobSets
  <2> QED
    BY <2>1, <2>2, <2>4, <2>5 DEF CountInv
<1> QED
  BY <1>1, <1>2

\* What consumers share: the gauge on the way out of the channel, the two
\* counters of a dead letter, and settled.
LEMMA CountConsume ==
    ASSUME TypeOK, LockInv, QueueInv, CountInv, NEW c \in Consumers, Consuming(c)
    PROVE  CountInv'
<1>t. /\ stage \in [Jobs -> Stages] /\ call \in [Jobs -> CallStates]
      /\ metrics \in Metrics
  BY DEF TypeOK
<1>f. /\ metrics.depth \in Int /\ metrics.processed \in Nat
      /\ metrics.failed \in Nat /\ metrics.deadLettered \in Nat
  BY <1>t, MetricsFields
<1> USE DEF AcceptedJobs, SettledJobs, RecordedJobs, RecordedStages, FailedJobs,
WaitingJobs
<1>1. CASE Receive(c)
  <2>1. /\ Head(queue) \in Jobs /\ stage[Head(queue)] = "queued"
        /\ stage' = [stage EXCEPT ![Head(queue)] = "pulled"]
        /\ UNCHANGED <<call, countVars>>
    BY <1>1 DEF Receive, QueueInv, TypeOK
  <2>2. /\ AcceptedJobs' = AcceptedJobs /\ SettledJobs' = SettledJobs
        /\ RecordedJobs' = RecordedJobs /\ FailedJobs' = FailedJobs
    BY <2>1, <1>t
  <2>3. WaitingJobs' = WaitingJobs
    BY <2>1, <1>t
  <2> QED
    BY <2>1, <2>2, <2>3, CountSame
<1>2. CASE Dequeued(c)
  <2>1. /\ hold[c] \in Jobs /\ stage[hold[c]] = "pulled" /\ LockFree
        /\ \E s \in {"dead", "check"} : stage' = [stage EXCEPT ![hold[c]] = s]
        /\ metrics' = [metrics EXCEPT !.depth = metrics.depth - 1]
        /\ UNCHANGED <<call, accepted, settled>>
    BY <1>2, HeldJob DEF Dequeued, Dequeue
  <2>2. /\ metrics'.depth = metrics.depth - 1
        /\ metrics'.processed = metrics.processed
        /\ metrics'.failed = metrics.failed
        /\ metrics'.deadLettered = metrics.deadLettered
    BY <2>1, <1>t, <1>f, MetricsFields
  <2>3. call[hold[c]] = "ok"
    BY <2>1 DEF LockInv, LockFree
  <2>4. WaitingJobs' = WaitingJobs \ {hold[c]} /\ hold[c] \in WaitingJobs
    BY <2>1, <2>3, <1>t
  <2>5. /\ AcceptedJobs' = AcceptedJobs /\ SettledJobs' = SettledJobs
        /\ RecordedJobs' = RecordedJobs /\ FailedJobs' = FailedJobs
    BY <2>1, <1>t
  <2>6. Cardinality(WaitingJobs') = Cardinality(WaitingJobs) - 1
    BY <2>4, JobSets
  <2> QED
    BY <2>1, <2>2, <2>5, <2>6 DEF CountInv
<1>3. CASE CountFailed(c)
  <2>1. /\ hold[c] \in Jobs /\ stage[hold[c]] = "dead"
        /\ stage' = [stage EXCEPT ![hold[c]] = "counted"]
        /\ metrics' = [metrics EXCEPT !.failed = @ + 1]
        /\ UNCHANGED <<call, accepted, settled>>
    BY <1>3, HeldJob DEF CountFailed
  <2>2. /\ metrics'.depth = metrics.depth
        /\ metrics'.processed = metrics.processed
        /\ metrics'.failed = metrics.failed + 1
        /\ metrics'.deadLettered = metrics.deadLettered
    BY <2>1, <1>t, MetricsFields
  <2>3. FailedJobs' = FailedJobs \cup {hold[c]} /\ hold[c] \notin FailedJobs
    BY <2>1, <1>t
  <2>4. /\ AcceptedJobs' = AcceptedJobs /\ SettledJobs' = SettledJobs
        /\ RecordedJobs' = RecordedJobs /\ WaitingJobs' = WaitingJobs
    BY <2>1, <1>t
  <2>5. /\ Cardinality(FailedJobs') = Cardinality(FailedJobs) + 1
        /\ Cardinality(FailedJobs) \in Nat
    BY <2>1, <2>3, JobSets
  <2> HIDE DEF AcceptedJobs, SettledJobs, RecordedJobs, FailedJobs, WaitingJobs
  <2> QED
    BY <2>1, <2>2, <2>4, <2>5, <1>f DEF CountInv
<1>4. CASE DeadLetter(c)
  <2>1. /\ hold[c] \in Jobs /\ stage[hold[c]] = "counted"
        /\ stage' = [stage EXCEPT ![hold[c]] = "hook"]
        /\ metrics' = [metrics EXCEPT !.deadLettered = @ + 1]
        /\ UNCHANGED <<call, accepted, settled>>
    BY <1>4, HeldJob DEF DeadLetter
  <2>2. /\ metrics'.depth = metrics.depth
        /\ metrics'.processed = metrics.processed
        /\ metrics'.failed = metrics.failed
        /\ metrics'.deadLettered = metrics.deadLettered + 1
    BY <2>1, <1>t, MetricsFields
  <2>3. FailedJobs' = FailedJobs \ {hold[c]} /\ hold[c] \in FailedJobs
    BY <2>1, <1>t
  <2>4. RecordedJobs' = RecordedJobs \cup {hold[c]} /\ hold[c] \notin RecordedJobs
    BY <2>1, <1>t
  <2>5. /\ AcceptedJobs' = AcceptedJobs /\ SettledJobs' = SettledJobs
        /\ WaitingJobs' = WaitingJobs
    BY <2>1, <1>t
  <2>6. /\ Cardinality(FailedJobs') = Cardinality(FailedJobs) - 1
        /\ Cardinality(FailedJobs) \in Nat
    BY <2>3, JobSets
  <2>7. Cardinality(RecordedJobs') = Cardinality(RecordedJobs) + 1
    BY <2>1, <2>4, JobSets
  <2> HIDE DEF AcceptedJobs, SettledJobs, RecordedJobs, FailedJobs, WaitingJobs
  <2> QED
    BY <2>1, <2>2, <2>5, <2>6, <2>7, <1>f DEF CountInv
<1>5. CASE HookReturns(c)
  <2>1. /\ hold[c] \in Jobs /\ stage[hold[c]] = "hook"
        /\ stage' = [stage EXCEPT ![hold[c]] = "settling"]
        /\ UNCHANGED <<call, countVars>>
    BY <1>5, HeldJob DEF HookReturns
  <2>2. /\ AcceptedJobs' = AcceptedJobs /\ SettledJobs' = SettledJobs
        /\ RecordedJobs' = RecordedJobs /\ FailedJobs' = FailedJobs
        /\ WaitingJobs' = WaitingJobs
    BY <2>1, <1>t
  <2> QED
    BY <2>1, <2>2, CountSame
<1>6. CASE Settle(c)
  <2>1. /\ hold[c] \in Jobs /\ stage[hold[c]] = "settling"
        /\ stage' = [stage EXCEPT ![hold[c]] = "settled"]
        /\ settled' = settled + 1
        /\ UNCHANGED <<call, accepted, metrics>>
    BY <1>6, HeldJob DEF Settle
  <2>2. SettledJobs' = SettledJobs \cup {hold[c]} /\ hold[c] \notin SettledJobs
    BY <2>1, <1>t
  <2>3. /\ AcceptedJobs' = AcceptedJobs /\ RecordedJobs' = RecordedJobs
        /\ FailedJobs' = FailedJobs /\ WaitingJobs' = WaitingJobs
    BY <2>1, <1>t
  <2>4. Cardinality(SettledJobs') = Cardinality(SettledJobs) + 1
    BY <2>1, <2>2, JobSets
  <2> QED
    BY <2>1, <2>3, <2>4 DEF CountInv
<1> QED
  BY <1>1, <1>2, <1>3, <1>4, <1>5, <1>6 DEF Consuming

\* Of the watching goroutines only recordAbandoned touches a counter, and
\* none that counts jobs.
LEMMA CountControl ==
    ASSUME TypeOK, CountInv, Control
    PROVE  CountInv'
<1>1. UNCHANGED <<call, stage>>
  BY ControlLeaves
<1>2. UNCHANGED <<accepted, settled>>
  BY DEF Control, Shutdown, CancelCtx, Cancel, Start, Terminated, Exit, Leave,
     CloseWorkersDone, StopAccepting, CloseJobs, DrainFinished, DrainExpired,
     ExpireDrain, DrainerFinish, DrainerSettled, UnwindSettled, UnwindExpired,
     Unwound, RecordAbandoned, CloseDone
<1>3. metrics' = metrics
         \/ (count \in Nat /\ metrics' = [metrics EXCEPT !.abandoned = @ + count])
  BY DEF Control, Shutdown, CancelCtx, Cancel, Start, Terminated, Exit, Leave,
     CloseWorkersDone, StopAccepting, CloseJobs, DrainFinished, DrainExpired,
     ExpireDrain, DrainerFinish, DrainerSettled, UnwindSettled, UnwindExpired,
     Unwound, RecordAbandoned, CloseDone, TypeOK
<1>4. /\ metrics'.depth = metrics.depth
      /\ metrics'.processed = metrics.processed
      /\ metrics'.failed = metrics.failed
      /\ metrics'.deadLettered = metrics.deadLettered
  <2>1. metrics \in Metrics
    BY DEF TypeOK
  <2>2. CASE metrics' = metrics
    BY <2>2
  <2>3. CASE count \in Nat /\ metrics' = [metrics EXCEPT !.abandoned = @ + count]
    BY <2>1, <2>3, MetricsFields
  <2> QED
    BY <1>3, <2>2, <2>3
<1> QED
  BY <1>1, <1>2, <1>4, CountSame DEF AcceptedJobs, SettledJobs, RecordedJobs,
     FailedJobs, WaitingJobs

\* Each counter moves with the set of jobs it counts.
LEMMA CountStep ==
    ASSUME TypeOK, LockInv, QueueInv, CountInv, [Next]_vars
    PROVE  CountInv'
BY CountSubmit, CountWork, CountConsume, CountControl DEF Next, Control

-----------------------------------------------------------------------------
(* The loss. *)

\* After a clean drain, every accepted job has been settled: nobody holds one,
\* none is in the buffer, and no Submit is half-way.
LEMMA DrainedSettled ==
    ASSUME TypeOK, LockInv, QueueInv, HoldInv, ShutdownInv, CountInv,
           workersDone, drainer \in {"off", "awaiting", "done"}
    PROVE  accepted = settled
<1>1. queue = <<>> /\ stopping /\ \A c \in Consumers : hold[c] = NoJob
  BY WorkersAssumption DEF ShutdownInv, HoldInv, Consumers
<1>2. \A j \in Jobs : stage[j] \in {"new", "settled"}
  <2> SUFFICES ASSUME NEW j \in Jobs PROVE stage[j] \in {"new", "settled"}
    OBVIOUS
  <2>1. stage[j] # "queued"
    BY <1>1 DEF QueueInv
  <2>2. stage[j] \notin HeldStages
    BY <1>1, JobsAssumption DEF HoldInv
  <2>3. stage[j] \in Stages
    BY DEF TypeOK
  <2> QED
    BY <2>1, <2>2, <2>3 DEF HeldStages, Stages
<1>3. \A j \in Jobs : call[j] = "ok" <=> stage[j] = "settled"
  BY <1>1, <1>2 DEF LockInv, InLock
<1>4. AcceptedJobs = SettledJobs
  BY <1>3 DEF AcceptedJobs, SettledJobs
<1> QED
  BY <1>4 DEF CountInv

\* What recordAbandoned has counted keeps covering what is unsettled: after
\* stopAccepting nothing is accepted any more.
LEMMA LossStep ==
    ASSUME TypeOK, LockInv, QueueInv, HoldInv, ShutdownInv, CountInv, LossInv,
           [Next]_vars
    PROVE  LossInv'
<1>t. accepted \in Nat /\ settled \in Nat /\ abandoned \in Nat /\ count \in Int
  BY DEF TypeOK
<1>1. ASSUME NEW j \in Jobs, Submitting(j)
      PROVE  LossInv'
  <2>1. CASE SubmitCount(j)
    <3>1. monitor = "watching" /\ monitor' = monitor
      BY <2>1 DEF SubmitCount, LockInv, InLock, ShutdownInv
    <3> QED
      BY <3>1 DEF LossInv
  <2>2. CASE ~SubmitCount(j)
    <3>1. UNCHANGED <<countVars, shutVars>>
      BY <1>1, <2>2 DEF Submitting, SubmitEnter, Enter, SubmitStopped,
         SubmitSend, Send, SubmitFull
    <3> QED
      BY <3>1 DEF LossInv
  <2> QED
    BY <2>1, <2>2
<1>2. ASSUME (\E w \in Workers : Working(w) /\ ~Exit(w))
               \/ (\E c \in Consumers : Consuming(c))
      PROVE  LossInv'
  <2>1. /\ UNCHANGED <<shutVars, accepted, abandoned, count>>
        /\ settled' = settled \/ settled' = settled + 1
    BY <1>2 DEF Working, CheckContext, BeginAttempt, Succeed, Fail,
       RetryOrGiveUp, AfterFailure, Exhausted, Consuming, Receive, Dequeued,
       Dequeue, CountFailed, DeadLetter, HookReturns, Settle
  <2> QED
    BY <2>1, <1>t DEF LossInv
<1>3. CASE Control
  <2> USE <1>t DEF LossInv
  <2>1. CASE CancelCtx \/ Start \/ Terminated \/ UNCHANGED vars
    BY <2>1 DEF CancelCtx, Cancel, Start, Terminated
  <2>2. CASE CloseWorkersDone
    BY <2>2 DEF CloseWorkersDone
  <2>3. CASE StopAccepting
    BY <2>3 DEF StopAccepting, CloseJobs
  <2>4. CASE DrainFinished
    <3>1. drainer = "off" /\ workersDone
      BY <2>4 DEF DrainFinished, ShutdownInv
    <3>2. accepted = settled
      BY <3>1, DrainedSettled
    <3> QED
      BY <2>4, <3>2 DEF DrainFinished
  <2>5. CASE DrainExpired
    BY <2>5 DEF DrainExpired, ExpireDrain
  <2>6. CASE DrainerFinish
    BY <2>6 DEF DrainerFinish
  <2>7. CASE DrainerSettled
    BY <2>7 DEF DrainerSettled
  <2>8. CASE UnwindSettled
    <3>1. drainer = "done" /\ workersDone
      BY <2>8 DEF UnwindSettled, ShutdownInv
    <3>2. accepted = settled
      BY <3>1, DrainedSettled
    <3> QED
      BY <2>8, <3>2 DEF UnwindSettled
  <2>9. CASE UnwindExpired
    BY <2>9 DEF UnwindExpired, Unwound
  <2>10. CASE RecordAbandoned
    BY <2>10 DEF RecordAbandoned
  <2>11. CASE CloseDone
    BY <2>11 DEF CloseDone
  <2>12. ASSUME NEW w \in Workers, Exit(w)
         PROVE  LossInv'
    BY <2>12 DEF Exit, Leave
  <2> QED
    BY <1>3, <2>1, <2>2, <2>3, <2>4, <2>5, <2>6, <2>7, <2>8, <2>9, <2>10, <2>11,
       <2>12 DEF Control, Shutdown
<1> QED
  BY <1>1, <1>2, <1>3 DEF Next, Control

-----------------------------------------------------------------------------
(* The invariant, and what follows from it. *)

\* A new pool satisfies the invariant.
LEMMA InvInit == Init => IInv
<1> SUFFICES ASSUME Init PROVE IInv
  OBVIOUS
<1>1. TypeOK
  BY TypeInit
<1>2. LockInv /\ RecordInv
  BY DEF Init, LockInv, InLock, RecordInv, RecordedStages
<1>3. QueueInv
  BY DEF Init, QueueInv
<1>4. HoldInv
  BY DEF Init, HoldInv, HeldStages, Consumers
<1>5. ShutdownInv /\ LossInv
  BY DEF Init, ShutdownInv, LossInv, Consumers
<1>6. AttemptInv /\ LateInv
  BY OptionsAssumption DEF Init, AttemptInv, GraceHonoured, LateInv
<1>7. CountInv
  <2>1. /\ AcceptedJobs = {} /\ SettledJobs = {} /\ RecordedJobs = {}
        /\ FailedJobs = {} /\ WaitingJobs = {}
    BY DEF Init, AcceptedJobs, SettledJobs, RecordedJobs, RecordedStages,
       FailedJobs, WaitingJobs
  <2>2. Cardinality({}) = 0
    BY FS_EmptySet
  <2>3. /\ accepted = 0 /\ settled = 0 /\ metrics.depth = 0
        /\ metrics.processed = 0 /\ metrics.failed = 0 /\ metrics.deadLettered = 0
    BY DEF Init
  <2> QED
    BY <2>1, <2>2, <2>3 DEF CountInv
<1> QED
  BY <1>1, <1>2, <1>3, <1>4, <1>5, <1>6, <1>7 DEF IInv

\* The invariant is inductive: LockInv, QueueInv and HoldInv hold the structure
\* together, and the counting parts follow it step by step.
THEOREM Inductive == Spec => []IInv
<1>1. IInv /\ [Next]_vars => IInv'
  BY TypeNext, LockStep, QueueStep, HoldStep, ShutdownStep, AttemptStep, LateStep,
     RecordStep, CountStep, LossStep DEF IInv
<1> QED
  BY InvInit, <1>1, PTL DEF Spec

\* Submit never sends on the channel stopAccepting has closed.
THEOREM SendSafe == Spec => []NoSendOnClosed
<1>1. IInv => NoSendOnClosed
  BY DEF IInv, LockInv, InLock, NoSendOnClosed
<1> QED
  BY Inductive, <1>1, PTL

\* Every job's outcome is recorded at most once, and exactly once when settled,
\* although workers and drainQueue consume the same closed channel.
THEOREM RecordsOnce == Spec => []RecordedOnce
<1>1. IInv => RecordedOnce
  BY DEF IInv, RecordInv, RecordedStages, RecordedOnce
<1> QED
  BY Inductive, <1>1, PTL

\* Jobs keep every attempt they are entitled to until the drain deadline.
THEOREM GraceKept == Spec => []GraceHonoured
<1>1. IInv => GraceHonoured
  BY DEF IInv, AttemptInv
<1> QED
  BY Inductive, <1>1, PTL

\* A worker begins at most one attempt after the deadline has cancelled it.
THEOREM AtMostOneLate == Spec => []LateBounded
<1>1. IInv => LateBounded
  BY DEF IInv, LateInv, LateBounded
<1> QED
  BY Inductive, <1>1, PTL

\* The sets that the counters count lie one in the other.
LEMMA CountersFollow ==
    ASSUME IInv
    PROVE  CountersOrdered
<1>1. /\ SettledJobs \in SUBSET RecordedJobs
      /\ RecordedJobs \in SUBSET Jobs /\ AcceptedJobs \in SUBSET Jobs
      /\ FailedJobs \in SUBSET Jobs
  BY DEF SettledJobs, RecordedJobs, RecordedStages, AcceptedJobs, FailedJobs
<1>2. RecordedJobs \in SUBSET AcceptedJobs
  <2>1. LockInv
    BY DEF IInv
  <2> QED
    BY <2>1 DEF RecordedJobs, RecordedStages, AcceptedJobs, LockInv
<1>3. /\ Cardinality(SettledJobs) <= Cardinality(RecordedJobs)
      /\ Cardinality(RecordedJobs) <= Cardinality(AcceptedJobs)
      /\ Cardinality(FailedJobs) \in Nat
  <2>1. /\ IsFiniteSet(AcceptedJobs) /\ IsFiniteSet(RecordedJobs)
        /\ Cardinality(FailedJobs) \in Nat
    BY <1>1, JobSets
  <2> QED
    BY <2>1, <1>1, <1>2, FS_Subset
<1>4. metrics.failed \in Nat /\ metrics.deadLettered \in Nat
  BY MetricsFields DEF IInv, TypeOK
<1>5. CountInv
  BY DEF IInv
<1> QED
  BY <1>3, <1>4, <1>5 DEF CountInv, CountersOrdered

\* No reader of the atomic counters meets them out of order.
THEOREM CountersInOrder == Spec => []CountersOrdered
<1>1. IInv => CountersOrdered
  BY CountersFollow
<1> QED
  BY Inductive, <1>1, PTL

\* The difference that recordAbandoned takes is the number of jobs owed.
LEMMA OwedCount ==
    ASSUME IInv
    PROVE  Cardinality(Owed) = accepted - settled
<1>1. SettledJobs \in SUBSET AcceptedJobs
  BY DEF SettledJobs, AcceptedJobs, IInv, LockInv
<1>2. Owed = AcceptedJobs \ SettledJobs
  BY DEF Owed, AcceptedJobs, SettledJobs
<1>3. AcceptedJobs \in SUBSET Jobs /\ SettledJobs \in SUBSET Jobs
  BY DEF AcceptedJobs, SettledJobs
<1>4. IsFiniteSet(AcceptedJobs) /\ AcceptedJobs \cap SettledJobs = SettledJobs
  BY <1>1, <1>3, JobSets
<1>5. Cardinality(Owed) = Cardinality(AcceptedJobs) - Cardinality(SettledJobs)
  BY <1>2, <1>4, FS_Difference
<1> QED
  BY <1>5 DEF IInv, CountInv

\* Once done is closed, the loss Wait reports covers every accepted job that is
\* not settled: a nil from Wait means nothing was lost.
THEOREM LossIsReported == Spec => []LossReported
<1>1. ASSUME IInv, monitor = "closed" PROVE Cardinality(Owed) <= abandoned
  BY <1>1, OwedCount DEF IInv, LossInv
<1>2. IInv => LossReported
  BY <1>1 DEF LossReported
<1> QED
  BY Inductive, <1>2, PTL

\* Although workers and drainQueue share the channel, no job is run by two of
\* them or too often, and those that drainQueue takes are not run at all.
THEOREM RunsByOne == Spec => []RunByOne
<1>1. ASSUME IInv, NEW j \in Jobs, stage[j] \in ExecuteStages
      PROVE  \E w \in Workers : hold[w] = j
  <2>1. stage[j] \in HeldStages /\ j # NoJob
    BY <1>1, JobsAssumption DEF ExecuteStages, HeldStages
  <2>2. PICK c \in Consumers : hold[c] = j
    BY <1>1, <2>1 DEF IInv, HoldInv
  <2>3. c # Drainer
    BY <1>1, <2>1, <2>2 DEF IInv, HoldInv
  <2> QED BY <2>2, <2>3 DEF Consumers
<1>2. IInv => RunByOne
  BY <1>1 DEF IInv, HoldInv, AttemptInv, RunByOne
<1> QED
  BY Inductive, <1>2, PTL

\* When Wait returns nil the counters are complete: each accepted job has been
\* processed or dead-lettered, and each failure is a dead letter.
THEOREM NilIsAccounted == Spec => []NilAccounts
<1>1. ASSUME IInv, monitor = "closed", abandoned = 0
      PROVE  /\ Owed = {}
             /\ metrics.processed + metrics.deadLettered = accepted
             /\ metrics.failed = metrics.deadLettered
  <2>1. accepted \in Nat /\ settled \in Nat /\ metrics \in Metrics
    BY <1>1 DEF IInv, TypeOK
  <2>2. accepted - settled <= 0
    BY <1>1 DEF IInv, LossInv
  <2>3. CountersOrdered
    BY <1>1, CountersFollow
  <2>4. metrics.processed + metrics.deadLettered = accepted /\ accepted = settled
    BY <2>1, <2>2, <2>3 DEF CountersOrdered, Metrics
  <2>5. Owed = {}
    <3>1. Cardinality(Owed) = 0
      BY <1>1, <2>1, <2>4, OwedCount
    <3>2. IsFiniteSet(Owed)
      BY JobsAssumption, FS_Subset DEF Owed
    <3> QED BY <3>1, <3>2, FS_EmptySet
  <2>6. FailedJobs = {}
    <3> SUFFICES ASSUME NEW j \in Jobs, stage[j] = "counted" PROVE FALSE
      BY DEF FailedJobs
    <3>1. call[j] = "ok"
      BY <1>1 DEF IInv, LockInv
    <3> QED BY <2>5, <3>1 DEF Owed
  <2>7. metrics.failed = metrics.deadLettered
    <3>1. Cardinality(FailedJobs) = 0
      BY <2>6, FS_EmptySet
    <3> QED BY <1>1, <2>1, <3>1 DEF IInv, CountInv, Metrics
  <2> QED BY <2>4, <2>5, <2>7
<1>2. IInv => NilAccounts
  BY <1>1 DEF NilAccounts
<1> QED
  BY Inductive, <1>2, PTL

\* The depth gauge is the length of the buffer between the calls that change
\* both, and never negative.
THEOREM DepthIsSound == Spec => []QueueDepthSound
<1>1. ASSUME IInv, \A j \in Jobs : call[j] # "counting" /\ stage[j] # "pulled"
      PROVE  metrics.depth = Len(queue)
  <2> DEFINE at == [i \in 1 .. Len(queue) |-> queue[i]]
  <2>1. queue \in Seq(Jobs) /\ Len(queue) \in Nat
    BY <1>1 DEF IInv, TypeOK
  <2>2. QueueInv /\ LockInv /\ CountInv
    BY <1>1 DEF IInv
  <2>3. WaitingJobs = {j \in Jobs : stage[j] = "queued"}
    BY <1>1, <2>2 DEF LockInv, WaitingJobs
  <2>4. \A i \in 1 .. Len(queue) : queue[i] \in WaitingJobs
    BY <2>1, <2>2, <2>3 DEF QueueInv
  <2>5. \A j \in WaitingJobs : \E i \in 1 .. Len(queue) : queue[i] = j
    BY <2>2, <2>3 DEF QueueInv
  <2>6. at \in Bijection(1 .. Len(queue), WaitingJobs)
    <3>1. at \in [1 .. Len(queue) -> WaitingJobs]
      BY <2>4
    <3>2. \A i, k \in 1 .. Len(queue) : at[i] = at[k] => i = k
      BY <2>2 DEF QueueInv
    <3>3. \A j \in WaitingJobs : \E i \in 1 .. Len(queue) : at[i] = j
      BY <2>5
    <3> QED
      BY <3>1, <3>2, <3>3 DEF Bijection, Injection, Surjection, IsInjective
  <2>7. IsFiniteSet(1 .. Len(queue)) /\ Cardinality(1 .. Len(queue)) = Len(queue)
    BY <2>1, FS_Interval
  <2>8. Cardinality(WaitingJobs) = Len(queue)
    BY <2>6, <2>7, FS_Bijection DEF ExistsBijection
  <2> QED
    BY <2>2, <2>8 DEF CountInv
<1>2. ASSUME IInv PROVE metrics.depth >= 0
  <2>1. WaitingJobs \in SUBSET Jobs
    BY DEF WaitingJobs
  <2> QED
    BY <1>2, <2>1, JobSets DEF IInv, CountInv
<1>3. IInv => QueueDepthSound
  BY <1>1, <1>2 DEF QueueDepthSound
<1> QED
  BY Inductive, <1>3, PTL
=============================================================================
