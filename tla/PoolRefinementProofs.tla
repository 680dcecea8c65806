------------------------ MODULE PoolRefinementProofs ------------------------
(***************************************************************************)
(* The pool implements the safety part of the ledger, for any finite set   *)
(* of jobs and workers, any capacity and any number of attempts: initial   *)
(* states map to initial states, every step maps to a step or to none.     *)
(***************************************************************************)
EXTENDS PoolProofs, PoolRefinement

USE DEF shutVars, startVars, workerVars, countVars, counters, jobVars, history,
        work, vars, At, Goto

-----------------------------------------------------------------------------
(* The report. *)

\* recordAbandoned runs once, and never counts more than was accepted.
ReportInv ==
    /\ count <= accepted
    /\ monitor \notin {"closing", "closed"} => abandoned = 0

LEMMA ReportInit == Init => ReportInv
BY DEF Init, ReportInv

\* Submit, workers and drainer leave the report alone, and accepted only grows.
LEMMA ReportApart ==
    ASSUME TypeOK, [Next]_vars, ~Control
    PROVE  /\ UNCHANGED <<monitor, stopping, abandoned, count>>
           /\ accepted' \in Nat /\ accepted <= accepted'
<1>t. accepted \in Nat
  BY DEF TypeOK
<1>1. CASE \E j \in Jobs : Submitting(j)
  BY <1>1, <1>t DEF Submitting, SubmitEnter, SubmitStopped, Enter, SubmitSend, Send,
     SubmitFull, SubmitCount
<1>2. CASE \E w \in Workers : Working(w) /\ ~Exit(w)
  BY <1>2, <1>t DEF Working, CheckContext, BeginAttempt, Succeed, Fail, RetryOrGiveUp,
     AfterFailure, Exhausted
<1>3. CASE \E c \in Consumers : Consuming(c)
  BY <1>3, <1>t DEF Consuming, Receive, Dequeued, Dequeue, CountFailed, DeadLetter,
     HookReturns, Settle
<1> QED
  BY <1>1, <1>2, <1>3 DEF Next, Control

LEMMA ReportStep ==
    ASSUME TypeOK, ReportInv, [Next]_vars
    PROVE  ReportInv'
<1>t. accepted \in Nat /\ settled \in Nat /\ count \in Int
  BY DEF TypeOK
<1>1. CASE ~Control
  BY <1>1, <1>t, ReportApart DEF ReportInv
<1>2. CASE Control
  <2> USE <1>t DEF ReportInv
  <2>1. CASE CancelCtx \/ Start \/ Terminated \/ UNCHANGED vars
    BY <2>1 DEF CancelCtx, Cancel, Start, Terminated
  <2>2. CASE CloseWorkersDone \/ DrainerFinish \/ DrainerSettled
    BY <2>2 DEF CloseWorkersDone, DrainerFinish, DrainerSettled
  <2>3. CASE StopAccepting \/ DrainFinished \/ DrainExpired \/ UnwindSettled
    BY <2>3 DEF StopAccepting, CloseJobs, DrainFinished, DrainExpired, ExpireDrain,
       UnwindSettled
  <2>4. CASE UnwindExpired
    BY <2>4 DEF UnwindExpired, Unwound
  <2>5. CASE RecordAbandoned \/ CloseDone
    BY <2>5 DEF RecordAbandoned, CloseDone
  <2>6. CASE \E w \in Workers : Exit(w)
    BY <2>6 DEF Exit, Leave
  <2> QED
    BY <1>2, <2>1, <2>2, <2>3, <2>4, <2>5, <2>6 DEF Control, Shutdown
<1> QED
  BY <1>1, <1>2

-----------------------------------------------------------------------------
(* The mapping. *)

\* What the ledger counts is what the pool counts.
LEMMA LedgerSets ==
    /\ Ledger!OwedJobs = Owed
    /\ Ledger!AcceptedJobs = AcceptedJobs
BY DEF Ledger!OwedJobs, Ledger!AcceptedJobs, LedgerJob, Owed, AcceptedJobs

\* The ledger has an instance of FiniteSets of its own.
LEMMA LedgerCardinality ==
    ASSUME NEW S
    PROVE  Ledger!Cardinality(S) = Cardinality(S)
BY DEF Ledger!Cardinality, Cardinality

\* No job moves in the ledger while neither its Submit returns nil nor it is
\* settled.
LEMMA JobsKept ==
    ASSUME \A j \in Jobs : /\ call'[j] = "ok" <=> call[j] = "ok"
                           /\ call[j] = "ok" =>
                                (stage'[j] = "settled" <=> stage[j] = "settled")
    PROVE  LedgerJob' = LedgerJob
BY DEF LedgerJob

\* The phase follows two variables.
LEMMA PhaseKept ==
    ASSUME UNCHANGED <<monitor, stopping>>
    PROVE  LedgerPhase' = LedgerPhase
BY DEF LedgerPhase

LEMMA LedgerInit == Init => Ledger!Init
BY DEF Init, Ledger!Init, LedgerPhase, LedgerJob

\* The call that returns nil accepts its job; no other step of Submit is seen.
LEMMA SubmitMaps ==
    ASSUME IInv, NEW j \in Jobs, Submitting(j)
    PROVE  [Ledger!Next]_(Ledger!ledgerVars)
<1>t. stage \in [Jobs -> Stages] /\ call \in [Jobs -> CallStates]
  BY DEF IInv, TypeOK
<1>1. CASE SubmitCount(j)
  <2>1. ~stopping /\ stage[j] \in {"queued", "pulled"} /\ monitor = "watching"
    BY <1>1 DEF SubmitCount, IInv, LockInv, InLock, ShutdownInv
  <2>2. LedgerPhase = "open" /\ LedgerPhase' = LedgerPhase /\ abandoned' = abandoned
    BY <1>1, <2>1, PhaseKept DEF SubmitCount, LedgerPhase
  <2>3. call' = [call EXCEPT ![j] = "ok"] /\ stage' = stage /\ call[j] # "ok"
    BY <1>1 DEF SubmitCount
  <2>4. LedgerJob[j] = "outside" /\ LedgerJob' = [LedgerJob EXCEPT ![j] = "owed"]
    BY <1>t, <2>1, <2>3 DEF LedgerJob
  <2> QED
    BY <2>2, <2>4 DEF Ledger!Next, Ledger!Accept
<1>2. CASE ~SubmitCount(j)
  <2>1. UNCHANGED <<monitor, stopping, abandoned>>
    BY <1>1, <1>2 DEF Submitting, SubmitEnter, SubmitStopped, Enter, SubmitSend, Send,
       SubmitFull
  <2>2. \A i \in Jobs : /\ call'[i] = "ok" <=> call[i] = "ok"
                        /\ call[i] = "ok" => stage'[i] = stage[i]
    BY <1>t, <1>2 DEF Submitting, SubmitEnter, SubmitStopped, Enter, SubmitSend, Send,
       SubmitFull
  <2> QED
    BY <2>1, <2>2, JobsKept, PhaseKept DEF Ledger!ledgerVars
<1> QED
  BY <1>1, <1>2

\* A job is settled by the last step of its consumer and by no other.
LEMMA ConsumeMaps ==
    ASSUME IInv, [Next]_vars, ~Control,
           NEW c \in Consumers, Receive(c) \/ MoveOn(c) \/ Finish(c)
    PROVE  [Ledger!Next]_(Ledger!ledgerVars)
<1>t. stage \in [Jobs -> Stages] /\ call \in [Jobs -> CallStates]
  BY DEF IInv, TypeOK
<1>0. LedgerPhase' = LedgerPhase /\ abandoned' = abandoned
  BY ReportApart, PhaseKept DEF IInv
<1>1. CASE Receive(c)
  <2>1. queue # <<>> /\ queue \in Seq(Jobs)
    BY <1>1 DEF Receive, IInv, TypeOK
  <2>2. Head(queue) \in Jobs /\ stage[Head(queue)] = "queued"
    BY <2>1 DEF IInv, QueueInv
  <2>3. call' = call /\ \A j \in Jobs : stage'[j] = "settled" <=> stage[j] = "settled"
    BY <1>1, <1>t, <2>2 DEF Receive
  <2> QED
    BY <1>0, <2>3, JobsKept DEF Ledger!ledgerVars
<1>2. CASE MoveOn(c)
  <2>1. call' = call /\ \A j \in Jobs : stage'[j] = "settled" <=> stage[j] = "settled"
    BY <1>2, <1>t DEF MoveOn, HeldStages
  <2> QED
    BY <1>0, <2>1, JobsKept DEF Ledger!ledgerVars
<1>3. CASE Finish(c)
  <2> DEFINE j == hold[c]
  <2>1. j \in Jobs /\ stage[j] = "settling" /\ call' = call
          /\ stage' = [stage EXCEPT ![j] = "settled"]
    BY <1>3 DEF Finish
  <2> HIDE DEF j
  <2>2. call[j] = "ok"
    BY <2>1 DEF IInv, LockInv
  <2>3. LedgerJob[j] = "owed" /\ LedgerJob' = [LedgerJob EXCEPT ![j] = "settled"]
    BY <1>t, <2>1, <2>2 DEF LedgerJob
  <2> QED
    BY <1>0, <2>1, <2>3 DEF Ledger!Next, Ledger!Settle
<1> QED
  BY <1>1, <1>2, <1>3

\* stopAccepting begins the shutdown, recordAbandoned reports, close(p.done)
\* closes; what is between them is not seen.
LEMMA ControlMaps ==
    ASSUME IInv, ReportInv, Control
    PROVE  [Ledger!Next]_(Ledger!ledgerVars)
<1>t. /\ accepted \in Nat /\ settled \in Nat /\ abandoned \in Nat /\ count \in Int
      /\ accepted = Ledger!Cardinality(Ledger!AcceptedJobs)
      /\ accepted - settled = Ledger!Cardinality(Ledger!OwedJobs)
  BY OwedCount, LedgerSets, LedgerCardinality DEF IInv, TypeOK, CountInv
<1>0. LedgerJob' = LedgerJob
  BY ControlLeaves, JobsKept
<1>w. monitor = "watching" <=> ~stopping
  BY DEF IInv, ShutdownInv
<1>1. CASE CancelCtx \/ Start \/ Terminated \/ UNCHANGED vars
  <2>1. UNCHANGED <<monitor, stopping, abandoned>>
    BY <1>1 DEF CancelCtx, Cancel, Start, Terminated
  <2> QED
    BY <1>0, <2>1, PhaseKept DEF Ledger!ledgerVars
<1>2. CASE CloseWorkersDone \/ DrainerFinish \/ DrainerSettled
             \/ (\E w \in Workers : Exit(w))
  <2>1. UNCHANGED <<monitor, stopping, abandoned>>
    BY <1>2 DEF CloseWorkersDone, DrainerFinish, DrainerSettled, Exit, Leave
  <2> QED
    BY <1>0, <2>1, PhaseKept DEF Ledger!ledgerVars
<1>3. CASE StopAccepting
  <2>1. LedgerPhase = "open" /\ LedgerPhase' = "closing" /\ abandoned' = abandoned
    BY <1>3, <1>w DEF StopAccepting, CloseJobs, LedgerPhase
  <2> QED
    BY <1>0, <2>1 DEF Ledger!Next, Ledger!BeginShutdown
<1>4. CASE DrainFinished \/ DrainExpired \/ UnwindSettled \/ UnwindExpired
  <2>1. LedgerPhase' = LedgerPhase /\ abandoned' = abandoned
    BY <1>4, <1>w DEF DrainFinished, DrainExpired, ExpireDrain, UnwindSettled,
       UnwindExpired, Unwound, LedgerPhase
  <2> QED
    BY <1>0, <2>1 DEF Ledger!ledgerVars
<1>5. CASE RecordAbandoned
  <2>1. LedgerPhase = "closing" /\ LedgerPhase' = LedgerPhase
    BY <1>5, <1>w DEF RecordAbandoned, LedgerPhase
  <2>2. CASE count <= 0
    BY <1>5, <1>0, <2>1, <2>2 DEF RecordAbandoned, Ledger!ledgerVars
  <2>3. CASE count > 0
    <3>1. abandoned = 0 /\ abandoned' = count /\ count <= accepted
            /\ accepted - settled <= count
      BY <1>5, <2>3, <1>t DEF RecordAbandoned, ReportInv, IInv, LossInv
    <3>2. count \in 1 .. Ledger!Cardinality(Ledger!AcceptedJobs)
      BY <1>t, <2>3, <3>1
    <3>3. Ledger!Report(count)
      BY <1>t, <1>0, <2>1, <2>3, <3>1 DEF Ledger!Report
    <3> QED
      BY <3>2, <3>3 DEF Ledger!Next, Ledger!FinishShutdown
  <2> QED
    BY <1>t, <2>2, <2>3
<1>6. CASE CloseDone
  <2>1. LedgerPhase = "closing" /\ LedgerPhase' = "closed" /\ abandoned' = abandoned
    BY <1>6, <1>w DEF CloseDone, LedgerPhase
  <2>2. accepted - settled <= abandoned
    BY <1>6 DEF CloseDone, IInv, LossInv
  <2> QED
    BY <1>t, <1>0, <2>1, <2>2 DEF Ledger!Next, Ledger!FinishShutdown, Ledger!Close
<1> QED
  BY <1>1, <1>2, <1>3, <1>4, <1>5, <1>6 DEF Control, Shutdown

-----------------------------------------------------------------------------
\* No job is accepted after the shutdown has begun, settled twice or taken back,
\* the report is made once and is never less than what is owed, and done is not
\* closed before it covers the loss.
THEOREM PoolKeepsLedger == Spec => Ledger!SafetySpec
<1>1. IInv /\ ReportInv /\ [Next]_vars => [Ledger!Next]_(Ledger!ledgerVars)
  <2> SUFFICES ASSUME IInv, ReportInv, [Next]_vars
               PROVE  [Ledger!Next]_(Ledger!ledgerVars)
    OBVIOUS
  <2>1. CASE Control
    BY <2>1, ControlMaps
  <2>2. CASE \E j \in Jobs : Submitting(j)
    BY <2>2, SubmitMaps
  <2>3. CASE ~Control /\ \E c \in Consumers : Receive(c) \/ MoveOn(c) \/ Finish(c)
    BY <2>3, ConsumeMaps
  <2> QED
    BY <2>1, <2>2, <2>3, Shapes DEF IInv
<1>2. IInv /\ ReportInv /\ [Next]_vars => ReportInv'
  BY ReportStep DEF IInv
<1> QED
  BY LedgerInit, ReportInit, Inductive, <1>1, <1>2, PTL DEF Spec, Ledger!SafetySpec
-----------------------------------------------------------------------------
(* The summary of the pool that Process runs. *)

\* How submitters and consumers change what is owed: the return of Submit and
\* the settling of a job, and nothing else.
LEMMA OwedApart ==
    ASSUME IInv, [Next]_vars, ~Control
    PROVE  /\ UNCHANGED <<ctxDone, monitor, drainer, abandoned>>
           /\ \/ /\ monitor = "watching"
                 /\ accepted - settled < Cardinality(Jobs)
                 /\ accepted' = accepted + 1 /\ settled' = settled
              \/ /\ accepted - settled > 0
                 /\ accepted' = accepted /\ settled' = settled + 1
              \/ UNCHANGED <<accepted, settled>>
<1>t. accepted \in Nat /\ settled \in Nat
  BY DEF IInv, TypeOK
<1>1. ASSUME NEW j \in Jobs, SubmitCount(j)
      PROVE  monitor = "watching" /\ accepted - settled < Cardinality(Jobs)
  <2>1. ~stopping /\ j \notin AcceptedJobs
    BY <1>1 DEF SubmitCount, IInv, LockInv, InLock, AcceptedJobs
  <2>2. AcceptedJobs \cup {j} \in SUBSET Jobs /\ AcceptedJobs \in SUBSET Jobs
    BY DEF AcceptedJobs
  <2>3. Cardinality(AcceptedJobs \cup {j}) = accepted + 1
    BY <2>1, <2>2, JobSets DEF IInv, CountInv
  <2>4. Cardinality(AcceptedJobs \cup {j}) <= Cardinality(Jobs) /\ Cardinality(Jobs) \in Nat
    BY <2>2, JobsAssumption, FS_Subset, FS_CardinalityType
  <2>5. accepted < Cardinality(Jobs)
    BY <1>t, <2>3, <2>4
  <2> QED
    BY <1>t, <2>1, <2>4, <2>5 DEF IInv, ShutdownInv
<1>2. ASSUME NEW c \in Consumers, Settle(c)
      PROVE  accepted - settled > 0
  <2> DEFINE j == hold[c]
  <2>1. j \in Jobs /\ stage[j] = "settling"
    BY <1>2 DEF Settle, IInv, TypeOK
  <2>2. j \in Owed /\ Owed \in SUBSET Jobs
    BY <2>1 DEF Owed, IInv, LockInv
  <2> HIDE DEF j
  <2>3. Cardinality(Owed \ {j}) = Cardinality(Owed) - 1 /\ Cardinality(Owed) \in Nat
    BY <2>2, JobSets
  <2>4. Owed \ {j} \in SUBSET Jobs
    BY <2>2
  <2>5. Cardinality(Owed \ {j}) \in Nat
    BY <2>4, JobSets
  <2>6. Cardinality(Owed) > 0
    BY <2>3, <2>5
  <2> QED
    BY <2>6, OwedCount
<1>3. CASE \E j \in Jobs : Submitting(j)
  <2>1. PICK j \in Jobs : Submitting(j)
    BY <1>3
  <2>2. CASE SubmitCount(j)
    BY <1>1, <2>2 DEF SubmitCount
  <2>3. CASE ~SubmitCount(j)
    BY <2>1, <2>3 DEF Submitting, SubmitEnter, SubmitStopped, Enter, SubmitSend, Send,
       SubmitFull
  <2> QED
    BY <2>2, <2>3
<1>4. CASE \E w \in Workers : Working(w) /\ ~Exit(w)
  BY <1>4 DEF Working, CheckContext, BeginAttempt, Succeed, Fail, RetryOrGiveUp,
     AfterFailure
<1>5. CASE \E c \in Consumers : Consuming(c)
  <2>1. PICK c \in Consumers : Consuming(c)
    BY <1>5
  <2>2. CASE Settle(c)
    BY <1>2, <2>2 DEF Settle
  <2>3. CASE ~Settle(c)
    BY <2>1, <2>3 DEF Consuming, Receive, Dequeued, Dequeue, CountFailed, DeadLetter,
       HookReturns
  <2> QED
    BY <2>2, <2>3
<1> QED
  BY <1>3, <1>4, <1>5 DEF Next, Control

\* What is reported is part of what was accepted, and nothing is before the
\* drain timer has fired.
LossFirst ==
    /\ abandoned <= accepted
    /\ drainer = "off" => abandoned = 0

LEMMA LossFirstInit == Init => LossFirst
BY DEF Init, LossFirst

LEMMA LossFirstStep ==
    ASSUME IInv, ReportInv, LossFirst, [Next]_vars
    PROVE  LossFirst'
<1>t. accepted \in Nat /\ settled \in Nat /\ abandoned \in Nat /\ count \in Int
  BY DEF IInv, TypeOK
<1>1. CASE ~Control
  <2>1. abandoned' = abandoned /\ drainer' = drainer
          /\ (accepted' = accepted + 1 \/ accepted' = accepted)
    BY <1>1, OwedApart
  <2> QED
    BY <1>t, <2>1 DEF LossFirst
<1>2. CASE RecordAbandoned
  <2>1. monitor = "recording" /\ drainer' = drainer /\ accepted' = accepted
          /\ (abandoned' = abandoned \/ abandoned' = count)
    BY <1>2 DEF RecordAbandoned
  <2>2. drainer # "off" /\ count <= accepted
    BY <2>1 DEF IInv, ShutdownInv, ReportInv
  <2> QED
    BY <2>1, <2>2 DEF LossFirst
<1>3. CASE Control /\ ~RecordAbandoned
  <2>1. /\ accepted' = accepted /\ abandoned' = abandoned
        /\ drainer' = "off" => drainer = "off"
    BY <1>3 DEF Control, CancelCtx, Cancel, Start, Terminated, Shutdown, CloseWorkersDone,
       StopAccepting, CloseJobs, DrainFinished, DrainExpired, ExpireDrain, DrainerFinish,
       DrainerSettled, UnwindSettled, UnwindExpired, Unwound, CloseDone, Exit, Leave
  <2> QED
    BY <2>1 DEF LossFirst
<1> QED
  BY <1>1, <1>2, <1>3

\* Where the monitor is does not change with what is owed.
LEMMA StationKept ==
    ASSUME UNCHANGED <<monitor, drainer>>
    PROVE  SummaryPool' = SummaryPool
BY DEF SummaryPool

LEMMA SummaryInit == Init => Summary!Init
BY DEF Init, Summary!Init, SummaryPool

\* Submit's return and the settling of a job are steps of the summary.
LEMMA OwedMaps ==
    ASSUME IInv, [Next]_vars, ~Control
    PROVE  [Summary!Next]_(Summary!summaryVars)
<1> DEFINE owing == accepted - settled
           told == IF monitor = "closed" THEN abandoned ELSE 0
<1>t. accepted \in Nat /\ settled \in Nat
  BY DEF IInv, TypeOK
<1>0. SummaryPool' = SummaryPool /\ told' = told /\ ctxDone' = ctxDone
  BY OwedApart, StationKept
<1>1. CASE /\ monitor = "watching" /\ owing < Cardinality(Jobs)
           /\ accepted' = accepted + 1 /\ settled' = settled
  <2>1. SummaryPool = "watching"
    BY <1>1 DEF SummaryPool
  <2>2. owing' = owing + 1
    BY <1>t, <1>1
  <2> HIDE DEF owing, told
  <2>3. Summary!Accepted
    BY <1>0, <1>1, <2>1, <2>2 DEF Summary!Accepted, owing, told
  <2> QED
    BY <1>0, <2>3 DEF Summary!Next
<1>2. CASE owing > 0 /\ accepted' = accepted /\ settled' = settled + 1
  <2>1. owing' = owing - 1
    BY <1>t, <1>2
  <2> HIDE DEF owing, told
  <2>2. Summary!JobSettled
    BY <1>0, <1>2, <2>1 DEF Summary!JobSettled, owing, told
  <2> QED
    BY <1>0, <2>2 DEF Summary!Next
<1>3. CASE UNCHANGED <<accepted, settled>>
  BY <1>0, <1>3 DEF Summary!summaryVars
<1> QED
  BY <1>1, <1>2, <1>3, OwedApart

\* The monitor's steps are, and those of the drainer are not seen.
LEMMA MonitorMaps ==
    ASSUME IInv, ReportInv, LossFirst, Control
    PROVE  [Summary!Next]_(Summary!summaryVars)
<1> DEFINE owing == accepted - settled
           told == IF monitor = "closed" THEN abandoned ELSE 0
<1>t. accepted \in Nat /\ settled \in Nat /\ abandoned \in Nat
  BY DEF IInv, TypeOK
<1>s. monitor \in MonitorStates
  BY DEF IInv, TypeOK
<1>0. owing' = owing
  BY DEF Control, CancelCtx, Cancel, Start, Terminated, Shutdown, CloseWorkersDone,
     StopAccepting, CloseJobs, DrainFinished, DrainExpired, ExpireDrain, DrainerFinish,
     DrainerSettled, UnwindSettled, UnwindExpired, Unwound, RecordAbandoned, CloseDone,
     Exit, Leave
<1>1. CASE CancelCtx
  <2>1. SummaryPool' = SummaryPool /\ told' = told /\ ~ctxDone /\ ctxDone' = TRUE
    BY <1>1, StationKept DEF CancelCtx, Cancel
  <2> HIDE DEF owing, told
  <2>2. Summary!Cancelled
    BY <1>0, <2>1 DEF Summary!Cancelled, owing, told
  <2> QED
    BY <2>2 DEF Summary!Next
<1>2. CASE Start \/ Terminated \/ UNCHANGED vars \/ CloseWorkersDone
             \/ (\E w \in Workers : Exit(w))
  <2>1. UNCHANGED <<ctxDone, monitor, drainer, abandoned>>
    BY <1>2 DEF Start, Terminated, CloseWorkersDone, Exit, Leave
  <2> QED
    BY <1>0, <2>1, StationKept DEF Summary!summaryVars
<1>3. CASE StopAccepting
  <2>1. /\ SummaryPool = "watching" /\ SummaryPool' = "draining"
        /\ ctxDone /\ ctxDone' = ctxDone /\ told' = told
    BY <1>3 DEF StopAccepting, CloseJobs, SummaryPool, IInv, ShutdownInv
  <2> HIDE DEF owing, told
  <2>2. Summary!Stopped
    BY <1>0, <2>1 DEF Summary!Stopped, Summary!Advance, owing, told
  <2> QED
    BY <2>1, <2>2 DEF Summary!Next
<1>4. CASE DrainExpired
  <2>1. /\ SummaryPool = "draining" /\ SummaryPool' = "unwinding"
        /\ ctxDone' = ctxDone /\ told' = told
    BY <1>4 DEF DrainExpired, ExpireDrain, SummaryPool, IInv, ShutdownInv
  <2> HIDE DEF owing, told
  <2>2. Summary!Expired
    BY <1>0, <2>1 DEF Summary!Expired, Summary!Advance, owing, told
  <2> QED
    BY <2>1, <2>2 DEF Summary!Next
<1>5. CASE DrainFinished \/ UnwindSettled \/ UnwindExpired \/ RecordAbandoned
             \/ DrainerFinish \/ DrainerSettled
  <2>1. /\ ctxDone' = ctxDone
        /\ monitor' = monitor \/ (monitor \notin {"watching", "closed"}
                                    /\ monitor' \notin {"watching", "closed"})
        /\ drainer' = "off" <=> drainer = "off"
        /\ monitor = "closed" => abandoned' = abandoned
    BY <1>5 DEF DrainFinished, UnwindSettled, UnwindExpired, Unwound, RecordAbandoned,
       DrainerFinish, DrainerSettled
  <2>2. SummaryPool' = SummaryPool /\ told' = told
    BY <2>1 DEF SummaryPool
  <2> QED
    BY <1>0, <2>1, <2>2 DEF Summary!summaryVars
<1>6. CASE CloseDone
  <2>1. /\ SummaryPool' = "closed" /\ ctxDone' = ctxDone
        /\ told = 0 /\ told' = abandoned
        /\ SummaryPool = IF drainer = "off" THEN "draining" ELSE "unwinding"
    BY <1>6 DEF CloseDone, SummaryPool
  <2>2. owing <= abandoned
    BY <1>6 DEF CloseDone, IInv, LossInv
  <2>3. owing \in Nat
    <3>1. owing = Cardinality(Owed) /\ Owed \in SUBSET Jobs
      BY OwedCount DEF Owed
    <3> QED
      BY <3>1, JobSets
  <2>4. CASE abandoned = 0
    <3>1. owing = 0 /\ told' = told
      BY <2>1, <2>2, <2>3, <2>4
    <3>2. SummaryPool \in {"draining", "unwinding"}
      BY <2>1
    <3> HIDE DEF owing, told
    <3>3. Summary!Settled
      BY <1>0, <2>1, <3>1, <3>2 DEF Summary!Settled, Summary!Advance, owing, told
    <3> QED
      BY <2>1, <3>3 DEF Summary!Next
  <2>5. CASE abandoned # 0
    <3>1. SummaryPool = "unwinding"
      BY <2>1, <2>5 DEF LossFirst
    <3>2. abandoned <= Cardinality(Jobs) /\ Cardinality(Jobs) \in Nat
      <4>1. AcceptedJobs \in SUBSET Jobs /\ accepted = Cardinality(AcceptedJobs)
        BY DEF AcceptedJobs, IInv, CountInv
      <4>2. accepted <= Cardinality(Jobs) /\ Cardinality(Jobs) \in Nat
        BY <4>1, JobsAssumption, FS_Subset, FS_CardinalityType
      <4> QED
        BY <1>t, <4>2 DEF LossFirst
    <3>3. abandoned \in owing .. Cardinality(Jobs)
      BY <1>t, <2>2, <2>3, <3>2
    <3> HIDE DEF owing, told
    <3>4. Summary!Unwound(abandoned)
      BY <1>0, <2>1, <3>1 DEF Summary!Unwound, owing, told
    <3>5. Summary!Reports
      BY <3>3, <3>4 DEF Summary!Reports, owing
    <3> QED
      BY <2>1, <3>5 DEF Summary!Next
  <2> QED
    BY <2>4, <2>5
<1> QED
  BY <1>1, <1>2, <1>3, <1>4, <1>5, <1>6 DEF Control, Shutdown

\* The pool does nothing that Process does not reckon with: jobs come and go
\* one by one, none comes after stopAccepting, and done is closed either with
\* every job settled, or after the drain timer, with a report that covers the
\* jobs that are not.
THEOREM PoolKeepsSummary == Spec => ImplementsSummary
<1>1. IInv /\ ReportInv /\ LossFirst /\ [Next]_vars => [Summary!Next]_(Summary!summaryVars)
  BY OwedMaps, MonitorMaps
<1>2. IInv /\ ReportInv /\ [Next]_vars => ReportInv'
  BY ReportStep DEF IInv
<1>3. IInv /\ ReportInv /\ LossFirst /\ [Next]_vars => LossFirst'
  BY LossFirstStep
<1> QED
  BY SummaryInit, ReportInit, LossFirstInit, Inductive, <1>1, <1>2, <1>3, PTL
     DEF Spec, ImplementsSummary, Summary!Spec
=============================================================================
