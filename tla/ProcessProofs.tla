---------------------------- MODULE ProcessProofs ----------------------------
(***************************************************************************)
(* Theorems about Process, for any timers, any latencies and any number of *)
(* jobs and requests.                                                      *)
(***************************************************************************)
EXTENDS ProcessInvariant, TLAPS

\* What the provers need to know of the timers: nothing reaches Never.
LEMMA Numbers ==
    /\ Never \in Nat
    /\ ShutdownTimeout \in Nat /\ ShutdownTimeout >= 1
    /\ Margin \in Nat /\ UnwindWindow \in Nat
    /\ latency \in Latencies =>
          /\ latency \in Nat
          /\ 10 * latency + ShutdownTimeout + Margin < Never
          /\ 10 * latency + ShutdownTimeout + UnwindWindow < Never
  <1>1. MaxLatency \in Nat /\ Latencies \subseteq 0 .. MaxLatency
          /\ ShutdownTimeout \in Nat \ {0} /\ Margin \in Nat /\ UnwindWindow \in Nat
    BY TimersAssumption
  <1>2. Never \in Nat
    BY <1>1 DEF Never
  <1>3. ASSUME latency \in Latencies
        PROVE  /\ latency \in Nat
               /\ 10 * latency + ShutdownTimeout + Margin < Never
               /\ 10 * latency + ShutdownTimeout + UnwindWindow < Never
    BY <1>1, <1>3 DEF Never
  <1> QED BY <1>1, <1>2, <1>3

LEMMA InitInv == Init => IInv
  <1> SUFFICES ASSUME Init PROVE IInv
    OBVIOUS
  <1>1. TypeOK
    <2>1. {0, Never} \subseteq 0 .. Never /\ 0 \in 0 .. MaxJobs /\ 0 \in 0 .. MaxRequests
            /\ 0 \in 0 .. 0
      BY Numbers, BoundsAssumption
    <2> QED BY <2>1 DEF Init, TypeOK, StartupSteps, NoCode, Unanchored
  <1>2. StationInv /\ OutcomeInv
    BY DEF Init, StationInv, OutcomeInv, Started, Running, NoCode
  <1>3. TimeInv
    BY Numbers DEF Init, TimeInv, Unanchored
  <1>4. TimelyInv
    BY DEF Init, TimelyInv
  <1> QED BY <1>1, <1>2, <1>3, <1>4 DEF IInv

-----------------------------------------------------------------------------
(* The steps.  StationInv needs types only; OutcomeInv needs StationInv,    *)
(* too; TimeInv is what bounds the numbers of TypeOK; and TimelyInv is the  *)
(* race of the two bounds.                                                  *)

\* The steps of start-up.
LEMMA StartupStep ==
    ASSUME IInv, Startup
    PROVE  IInv'
  <1>1. CASE LoadConfig
    <2>1. TypeOK'
      BY <1>1, Numbers DEF IInv, TypeOK, LoadConfig, Step, Soon, Return, httpVars,
         serverVars, poolVars, StartupSteps, MainBounded, TimeInv
    <2>2. StationInv'
      BY <1>1 DEF IInv, StationInv, LoadConfig, Step, Return, httpVars, serverVars,
         poolVars, Started
    <2>3. OutcomeInv'
      BY <1>1 DEF IInv, OutcomeInv, LoadConfig, Step, Return, httpVars, serverVars,
         poolVars
    <2>4. TimeInv'
      BY <1>1, Numbers DEF IInv, TimeInv, LoadConfig, Step, Soon, Return, poolVars,
         TypeOK, MainBounded, PoolBounded
    <2>5. TimelyInv'
      BY <1>1 DEF IInv, TimelyInv, LoadConfig, Step, Return, httpVars, serverVars,
         StationInv
    <2> QED BY <2>1, <2>2, <2>3, <2>4, <2>5 DEF IInv
  <1>2. CASE OpenDatabase
    <2>1. TypeOK'
      BY <1>2, Numbers DEF IInv, TypeOK, OpenDatabase, Step, Soon, Return, timeVars,
         bootVars, httpVars, serverVars, poolVars, StartupSteps, MainBounded, TimeInv
    <2>2. StationInv'
      BY <1>2 DEF IInv, StationInv, OpenDatabase, Step, Return, httpVars, serverVars,
         poolVars, Started
    <2>3. OutcomeInv'
      BY <1>2 DEF IInv, OutcomeInv, OpenDatabase, Step, Return, httpVars, serverVars,
         poolVars
    <2>4. TimeInv'
      BY <1>2, Numbers DEF IInv, TimeInv, OpenDatabase, Step, Soon, Return, timeVars,
         bootVars, poolVars, TypeOK, MainBounded, PoolBounded
    <2>5. TimelyInv'
      BY <1>2 DEF IInv, TimelyInv, OpenDatabase, Step, Return, httpVars, serverVars,
         StationInv
    <2> QED BY <2>1, <2>2, <2>3, <2>4, <2>5 DEF IInv
  <1>3. CASE ChooseRole
    <2>1. TypeOK'
      BY <1>3, Numbers DEF IInv, TypeOK, ChooseRole, Return, Soon, Step, timeVars,
         bootVars, httpVars, serverVars, poolVars, StartupSteps, MainBounded, TimeInv
    <2>2. StationInv'
      BY <1>3 DEF IInv, StationInv, ChooseRole, Return, Step, httpVars, serverVars,
         poolVars, Started
    <2>3. OutcomeInv'
      BY <1>3 DEF IInv, OutcomeInv, ChooseRole, Return, Step, httpVars, serverVars,
         poolVars
    <2>4. TimeInv'
      BY <1>3, Numbers DEF IInv, TimeInv, ChooseRole, Return, Soon, Step, timeVars,
         bootVars, poolVars, TypeOK, MainBounded, PoolBounded
    <2>5. TimelyInv'
      BY <1>3 DEF IInv, TimelyInv, ChooseRole, Return, Step, httpVars, serverVars,
         StationInv
    <2> QED BY <2>1, <2>2, <2>3, <2>4, <2>5 DEF IInv
  <1>4. CASE StartPool
    <2>1. TypeOK'
      BY <1>4, Numbers DEF IInv, TypeOK, StartPool, Step, Soon, timeVars, bootVars,
         httpVars, serverVars, StartupSteps, MainBounded, TimeInv
    <2>2. StationInv'
      BY <1>4 DEF IInv, StationInv, StartPool, Step, httpVars, serverVars, Started
    <2>3. OutcomeInv'
      BY <1>4 DEF IInv, OutcomeInv, StartPool, Step, NoCode
    <2>4. TimeInv'
      BY <1>4, Numbers DEF IInv, TimeInv, StartPool, Step, Soon, timeVars, bootVars,
         TypeOK, MainBounded, PoolBounded
    <2>5. TimelyInv'
      BY <1>4 DEF IInv, TimelyInv, StartPool, Step
    <2> QED BY <2>1, <2>2, <2>3, <2>4, <2>5 DEF IInv
  <1>5. CASE Listen
    <2>1. TypeOK'
      BY <1>5, Numbers DEF IInv, TypeOK, Listen, Step, Soon, Return, timeVars, bootVars,
         poolVars, MainBounded, TimeInv
    <2>2. StationInv'
      BY <1>5 DEF IInv, StationInv, Listen, Step, Return, timeVars, poolVars, Started
    <2>3. OutcomeInv'
      BY <1>5 DEF IInv, OutcomeInv, Listen, Step, Return, poolVars, NoCode
    <2>4. TimeInv'
      BY <1>5, Numbers DEF IInv, TimeInv, Listen, Step, Soon, Return, timeVars,
         bootVars, poolVars, TypeOK, MainBounded, PoolBounded
    <2>5. TimelyInv'
      BY <1>5 DEF IInv, TimelyInv, Listen, Step, Return, StationInv
    <2> QED BY <2>1, <2>2, <2>3, <2>4, <2>5 DEF IInv
  <1> QED BY <1>1, <1>2, <1>3, <1>4, <1>5 DEF Startup

\* The steps of Run until the API has stopped.
LEMMA ServingStep ==
    ASSUME IInv, Serving
    PROVE  IInv'
  <1>1. CASE WorkerRole
    <2>1. TypeOK'
      BY <1>1, Numbers DEF IInv, TypeOK, WorkerRole, Return, Soon, timeVars, bootVars,
         httpVars, serverVars, poolVars, MainBounded, TimeInv
    <2>2. StationInv'
      BY <1>1 DEF IInv, StationInv, WorkerRole, Return, httpVars, poolVars, Started
    <2>3. OutcomeInv'
      BY <1>1 DEF IInv, OutcomeInv, WorkerRole, Return, httpVars, serverVars, poolVars,
         StationInv, Started
    <2>4. TimeInv'
      BY <1>1, Numbers DEF IInv, TimeInv, WorkerRole, Return, Soon, timeVars, bootVars,
         poolVars, TypeOK, MainBounded, PoolBounded
    <2>5. TimelyInv'
      BY <1>1 DEF IInv, TimelyInv, WorkerRole, Return
    <2> QED BY <2>1, <2>2, <2>3, <2>4, <2>5 DEF IInv
  <1>2. CASE ServeFails
    <2>1. TypeOK'
      BY <1>2, Numbers DEF IInv, TypeOK, ServeFails, Return, Soon, timeVars, bootVars,
         httpVars, serverVars, poolVars, MainBounded, TimeInv
    <2>2. StationInv'
      BY <1>2 DEF IInv, StationInv, ServeFails, Return, timeVars, httpVars, serverVars,
         poolVars, Started
    <2>3. OutcomeInv'
      BY <1>2 DEF IInv, OutcomeInv, ServeFails, Return, poolVars
    <2>4. TimeInv'
      BY <1>2, Numbers DEF IInv, TimeInv, ServeFails, Return, Soon, timeVars, bootVars,
         poolVars, TypeOK, MainBounded, PoolBounded
    <2>5. TimelyInv'
      BY <1>2 DEF IInv, TimelyInv, ServeFails, Return, httpVars, serverVars
    <2> QED BY <2>1, <2>2, <2>3, <2>4, <2>5 DEF IInv
  <1>3. CASE BeginShutdown
    <2>1. TypeOK'
      BY <1>3, Numbers DEF IInv, TypeOK, BeginShutdown, timeVars, bootVars, poolVars,
         MainBounded, TimeInv
    <2>2. StationInv'
      BY <1>3 DEF IInv, StationInv, BeginShutdown, timeVars, poolVars, Started
    <2>3. OutcomeInv'
      BY <1>3 DEF IInv, OutcomeInv, BeginShutdown, poolVars
    <2>4. TimeInv'
      <3>1. /\ main' = "shutdown" /\ timer' = clock + ShutdownTimeout
            /\ mainBy' = IF inflight = 0 THEN clock + latency
                         ELSE clock + ShutdownTimeout + latency
            /\ UNCHANGED <<latency, signalled, clock, budget, pool, poolBy>>
            /\ main = "serve" /\ signalled
        BY <1>3 DEF BeginShutdown, timeVars, bootVars, poolVars
      <3>2. inflight # 0 => busy'
        <4>1. inflight > 0 <=> inflight # 0
          BY DEF IInv, TypeOK
        <4>2. busy' = (inflight > 0)
          BY <1>3 DEF BeginShutdown
        <4> QED BY <4>1, <4>2, Zenon
      <3> QED
        BY <3>1, <3>2, Numbers
           DEF IInv, TimeInv, TypeOK, MainBounded, PoolBounded, Running
    <2>5. TimelyInv'
      BY <1>3 DEF IInv, TimelyInv, BeginShutdown
    <2> QED BY <2>1, <2>2, <2>3, <2>4, <2>5 DEF IInv
  <1>4. CASE ShutdownExpires
    <2>1. TypeOK'
      BY <1>4, Numbers DEF IInv, TypeOK, ShutdownExpires, Return, Soon, timeVars,
         bootVars, httpVars, serverVars, poolVars, MainBounded, TimeInv
    <2>2. StationInv'
      BY <1>4 DEF IInv, StationInv, ShutdownExpires, Return, timeVars, httpVars,
         serverVars, Started
    <2>3. OutcomeInv'
      BY <1>4 DEF IInv, OutcomeInv, ShutdownExpires, Return, poolVars
    <2>4. TimeInv'
      BY <1>4, Numbers DEF IInv, TimeInv, ShutdownExpires, Return, Soon, timeVars,
         bootVars, poolVars, TypeOK, MainBounded, PoolBounded
    <2>5. TimelyInv'
      BY <1>4 DEF IInv, TimelyInv, ShutdownExpires, Return, timeVars, bootVars,
         httpVars, serverVars, TypeOK, TimeInv, Timely
    <2> QED BY <2>1, <2>2, <2>3, <2>4, <2>5 DEF IInv
  <1>5. CASE ServerStops
    <2>1. TypeOK'
      BY <1>5, Numbers DEF IInv, TypeOK, ServerStops, ShutdownReturns, Return, Soon,
         Step, timeVars, bootVars, httpVars, serverVars, poolVars, MainBounded, TimeInv
    <2>2. StationInv'
      BY <1>5 DEF IInv, StationInv, ServerStops, ShutdownReturns, Return, Step,
         timeVars, httpVars, serverVars, poolVars, Started
    <2>3. OutcomeInv'
      BY <1>5 DEF IInv, OutcomeInv, ServerStops, ShutdownReturns, Return, Step,
         httpVars, serverVars, poolVars
    <2>4. TimeInv'
      BY <1>5, Numbers DEF IInv, TimeInv, ServerStops, ShutdownReturns, Return, Soon,
         Step, timeVars, bootVars, poolVars, TypeOK, MainBounded, PoolBounded
    <2>5. TimelyInv'
      BY <1>5 DEF IInv, TimelyInv, ServerStops, ShutdownReturns, Return, Step, httpVars,
         serverVars
    <2> QED BY <2>1, <2>2, <2>3, <2>4, <2>5 DEF IInv
  <1> QED BY <1>1, <1>2, <1>3, <1>4, <1>5 DEF Serving

\* The wait for the pool, and the end.
LEMMA LeavingStep ==
    ASSUME IInv, Leaving
    PROVE  IInv'
  <1>1. CASE BeginWait
    <2>1. TypeOK'
      BY <1>1, Numbers DEF IInv, TypeOK, BeginWait, WaitUntilBudget, Soon, timeVars, bootVars, httpVars,
         serverVars, poolVars, MainBounded, TimeInv
    <2>2. StationInv'
      BY <1>1 DEF IInv, StationInv, BeginWait, WaitUntilBudget, timeVars, httpVars, serverVars, poolVars,
         TypeOK, Started, Running
    <2>3. OutcomeInv'
      BY <1>1 DEF IInv, OutcomeInv, BeginWait, WaitUntilBudget, httpVars, serverVars, poolVars
    <2>4. TimeInv'
      BY <1>1, Numbers DEF IInv, TimeInv, BeginWait, WaitUntilBudget, Soon, timeVars, bootVars, poolVars,
         TypeOK, MainBounded, PoolBounded
    <2>5. TimelyInv'
      BY <1>1, Numbers DEF IInv, TimelyInv, BeginWait, WaitUntilBudget, timeVars, bootVars, TypeOK,
         TimeInv, Timely, MainBounded
    <2> QED BY <2>1, <2>2, <2>3, <2>4, <2>5 DEF IInv
  <1>2. CASE WaitExpires
    <2>1. TypeOK'
      BY <1>2, Numbers DEF IInv, TypeOK, WaitExpires, Step, Soon, timeVars, bootVars,
         httpVars, serverVars, poolVars, MainBounded, TimeInv
    <2>2. StationInv'
      BY <1>2 DEF IInv, StationInv, WaitExpires, Step, timeVars, httpVars, serverVars,
         poolVars, Started
    <2>3. OutcomeInv'
      BY <1>2 DEF IInv, OutcomeInv, WaitExpires, Step, httpVars, serverVars, poolVars
    <2>4. TimeInv'
      BY <1>2, Numbers DEF IInv, TimeInv, WaitExpires, Step, Soon, timeVars, bootVars,
         poolVars, TypeOK, MainBounded, PoolBounded
    <2>5. TimelyInv'
      BY <1>2, Numbers DEF IInv, TimelyInv, WaitExpires, Step, timeVars, bootVars,
         TypeOK, StationInv, TimeInv, Timely, Running, PoolBounded
    <2> QED BY <2>1, <2>2, <2>3, <2>4, <2>5 DEF IInv
  <1>3. CASE WaitReturns
    <2>1. TypeOK'
      BY <1>3, Numbers DEF IInv, TypeOK, WaitReturns, ReturnFromWait, Return, Soon,
         timeVars, bootVars, httpVars, serverVars, poolVars, MainBounded, TimeInv
    <2>2. StationInv'
      BY <1>3 DEF IInv, StationInv, WaitReturns, ReturnFromWait, Return, timeVars,
         httpVars, Started
    <2>3. OutcomeInv'
      BY <1>3 DEF IInv, OutcomeInv, WaitReturns, ReturnFromWait, Return, httpVars,
         serverVars, poolVars, StationInv
    <2>4. TimeInv'
      BY <1>3, Numbers DEF IInv, TimeInv, WaitReturns, ReturnFromWait, Return, Soon,
         timeVars, bootVars, poolVars, TypeOK, MainBounded, PoolBounded
    <2>5. TimelyInv'
      BY <1>3 DEF IInv, TimelyInv, WaitReturns, ReturnFromWait, Return, timeVars,
         bootVars, Timely
    <2> QED BY <2>1, <2>2, <2>3, <2>4, <2>5 DEF IInv
  <1>4. CASE Exit
    <2>1. TypeOK'
      BY <1>4, Numbers DEF IInv, TypeOK, Exit, timeVars, bootVars, poolVars
    <2>2. StationInv'
      BY <1>4 DEF IInv, StationInv, Exit, timeVars, poolVars, Started
    <2>3. OutcomeInv'
      BY <1>4 DEF IInv, OutcomeInv, Exit, poolVars
    <2>4. TimeInv'
      BY <1>4 DEF IInv, TimeInv, Exit, timeVars, bootVars, poolVars, MainBounded,
         PoolBounded
    <2>5. TimelyInv'
      BY <1>4 DEF IInv, TimelyInv, Exit, timeVars, bootVars, Timely
    <2> QED BY <2>1, <2>2, <2>3, <2>4, <2>5 DEF IInv
  <1> QED BY <1>1, <1>2, <1>3, <1>4 DEF Leaving

\* The pool's monitor.
LEMMA DrainingStep ==
    ASSUME IInv, Draining
    PROVE  IInv'
  <1>1. CASE StopAccepting
    <2>1. TypeOK'
      BY <1>1, Numbers DEF IInv, TypeOK, StopAccepting, Summary!Stopped,
         Summary!Advance, timeVars, bootVars, runVars,
         httpVars, serverVars, PoolBounded, TimeInv, Running
    <2>2. StationInv'
      BY <1>1 DEF IInv, StationInv, StopAccepting, Summary!Stopped,
         Summary!Advance, timeVars, runVars, httpVars,
         serverVars, Running
    <2>3. OutcomeInv'
      BY <1>1 DEF IInv, OutcomeInv, StopAccepting, Summary!Stopped,
         Summary!Advance, runVars
    <2>4. TimeInv'
      BY <1>1, Numbers DEF IInv, TimeInv, StopAccepting, Summary!Stopped,
         Summary!Advance, timeVars, bootVars, runVars,
         httpVars, serverVars, TypeOK, Running, MainBounded, PoolBounded
    <2>5. TimelyInv'
      BY <1>1 DEF IInv, TimelyInv, StopAccepting, Summary!Stopped, Summary!Advance,
         timeVars, bootVars, runVars, httpVars,
         serverVars, Timely
    <2> QED BY <2>1, <2>2, <2>3, <2>4, <2>5 DEF IInv
  <1>2. CASE DrainExpired
    <2>1. TypeOK'
      BY <1>2, Numbers DEF IInv, TypeOK, DrainExpired, Summary!Expired,
         Summary!Advance, timeVars, bootVars, runVars,
         httpVars, serverVars, PoolBounded, TimeInv, Running
    <2>2. StationInv'
      BY <1>2 DEF IInv, StationInv, DrainExpired, Summary!Expired, Summary!Advance,
         timeVars, runVars, httpVars,
         serverVars, Running
    <2>3. OutcomeInv'
      BY <1>2 DEF IInv, OutcomeInv, DrainExpired, Summary!Expired, Summary!Advance,
         runVars
    <2>4. TimeInv'
      BY <1>2, Numbers DEF IInv, TimeInv, DrainExpired, Summary!Expired,
         Summary!Advance, timeVars, bootVars, runVars,
         httpVars, serverVars, TypeOK, Running, MainBounded, PoolBounded
    <2>5. TimelyInv'
      BY <1>2 DEF IInv, TimelyInv, DrainExpired, Summary!Expired, Summary!Advance,
         timeVars, bootVars, runVars, httpVars,
         serverVars, Timely
    <2> QED BY <2>1, <2>2, <2>3, <2>4, <2>5 DEF IInv
  <1>3. CASE PoolSettled
    <2>1. TypeOK'
      BY <1>3, Numbers DEF IInv, TypeOK, PoolSettled, Summary!Settled,
         Summary!Advance, CloseDone, timeVars, bootVars,
         httpVars, serverVars, MainBounded, TimeInv
    <2>2. StationInv'
      BY <1>3 DEF IInv, StationInv, PoolSettled, Summary!Settled, Summary!Advance,
         CloseDone, timeVars, httpVars,
         serverVars, Started
    <2>3. OutcomeInv'
      BY <1>3 DEF IInv, OutcomeInv, PoolSettled, Summary!Settled, Summary!Advance,
         CloseDone, TypeOK
    <2>4. TimeInv'
      BY <1>3, Numbers DEF IInv, TimeInv, PoolSettled, Summary!Settled,
         Summary!Advance, CloseDone, timeVars, bootVars,
         httpVars, serverVars, TypeOK, Running, MainBounded
    <2>5. TimelyInv'
      BY <1>3 DEF IInv, TimelyInv, PoolSettled, Summary!Settled, Summary!Advance,
         CloseDone, timeVars, bootVars, httpVars,
         serverVars, Timely
    <2> QED BY <2>1, <2>2, <2>3, <2>4, <2>5 DEF IInv
  <1>4. CASE UnwindExpired
    <2>1. TypeOK'
      BY <1>4, Numbers DEF IInv, TypeOK, UnwindExpired, Summary!Reports,
         Summary!Unwound, CloseDone, timeVars,
         bootVars, httpVars, serverVars, MainBounded, TimeInv
    <2>2. StationInv'
      BY <1>4 DEF IInv, StationInv, UnwindExpired, Summary!Reports,
         Summary!Unwound, CloseDone, timeVars,
         httpVars, serverVars, Started
    <2>3. OutcomeInv'
      BY <1>4 DEF IInv, OutcomeInv, UnwindExpired, Summary!Reports,
         Summary!Unwound, CloseDone, TypeOK
    <2>4. TimeInv'
      BY <1>4, Numbers DEF IInv, TimeInv, UnwindExpired, Summary!Reports,
         Summary!Unwound, CloseDone, timeVars,
         bootVars, httpVars, serverVars, TypeOK, Running, MainBounded
    <2>5. TimelyInv'
      BY <1>4 DEF IInv, TimelyInv, UnwindExpired, Summary!Reports, Summary!Unwound,
         CloseDone, timeVars,
         bootVars, httpVars, serverVars, Timely
    <2> QED BY <2>1, <2>2, <2>3, <2>4, <2>5 DEF IInv
  <1> QED BY <1>1, <1>2, <1>3, <1>4 DEF Draining

\* The signal, clients and jobs.
LEMMA EnvironmentStep ==
    ASSUME IInv, Environment
    PROVE  IInv'
  <1>1. CASE Signal
    <2>1. TypeOK'
      BY <1>1, Numbers DEF IInv, TypeOK, Signal, bootVars, httpVars, serverVars
    <2>2. StationInv'
      BY <1>1 DEF IInv, StationInv, Signal, httpVars, serverVars
    <2>3. OutcomeInv'
      BY <1>1 DEF IInv, OutcomeInv, Signal, httpVars, serverVars
    <2>4. TimeInv'
      BY <1>1, Numbers DEF IInv, TimeInv, Signal, bootVars, TypeOK, StationInv,
         MainBounded, PoolBounded
    <2>5. TimelyInv'
      BY <1>1 DEF IInv, TimelyInv, Signal, bootVars, httpVars, serverVars, Timely
    <2> QED BY <2>1, <2>2, <2>3, <2>4, <2>5 DEF IInv
  <1>2. CASE RequestArrives
    <2>1. TypeOK'
      BY <1>2, BoundsAssumption DEF IInv, TypeOK, RequestArrives, timeVars, bootVars,
         runVars, serverVars, poolVars
    <2>2. StationInv'
      BY <1>2 DEF IInv, StationInv, RequestArrives, timeVars, runVars, serverVars,
         poolVars
    <2>3. OutcomeInv'
      BY <1>2 DEF IInv, OutcomeInv, RequestArrives, runVars, poolVars
    <2>4. TimeInv'
      BY <1>2 DEF IInv, TimeInv, RequestArrives, timeVars, bootVars, runVars,
         serverVars, poolVars, MainBounded, PoolBounded
    <2>5. TimelyInv'
      BY <1>2 DEF IInv, TimelyInv, RequestArrives, timeVars, bootVars, runVars,
         serverVars, Timely
    <2> QED BY <2>1, <2>2, <2>3, <2>4, <2>5 DEF IInv
  <1>3. CASE RequestEnds
    <2>1. TypeOK'
      BY <1>3, BoundsAssumption DEF IInv, TypeOK, RequestEnds, timeVars, bootVars,
         runVars, serverVars, poolVars
    <2>2. StationInv'
      BY <1>3 DEF IInv, StationInv, RequestEnds, timeVars, runVars, serverVars,
         poolVars, TypeOK
    <2>3. OutcomeInv'
      BY <1>3 DEF IInv, OutcomeInv, RequestEnds, runVars, poolVars, TypeOK
    <2>4. TimeInv'
      BY <1>3 DEF IInv, TimeInv, RequestEnds, timeVars, bootVars, runVars, serverVars,
         poolVars, MainBounded, PoolBounded
    <2>5. TimelyInv'
      BY <1>3 DEF IInv, TimelyInv, RequestEnds, timeVars, bootVars, runVars, serverVars,
         Timely
    <2> QED BY <2>1, <2>2, <2>3, <2>4, <2>5 DEF IInv
  <1>4. CASE PingBegins
    <2>1. TypeOK'
      BY <1>4 DEF IInv, TypeOK, PingBegins, timeVars, bootVars, runVars, serverVars,
         poolVars
    <2>2. StationInv'
      BY <1>4 DEF IInv, StationInv, PingBegins, timeVars, runVars, serverVars, poolVars
    <2>3. OutcomeInv'
      BY <1>4 DEF IInv, OutcomeInv, PingBegins, runVars, serverVars, poolVars
    <2>4. TimeInv'
      BY <1>4 DEF IInv, TimeInv, PingBegins, timeVars, bootVars, runVars, serverVars,
         poolVars, MainBounded, PoolBounded
    <2>5. TimelyInv'
      BY <1>4 DEF IInv, TimelyInv, PingBegins, timeVars, bootVars, runVars, Timely
    <2> QED BY <2>1, <2>2, <2>3, <2>4, <2>5 DEF IInv
  <1>5. CASE PingEnds
    <2>1. TypeOK'
      BY <1>5 DEF IInv, TypeOK, PingEnds, timeVars, bootVars, runVars, serverVars,
         poolVars
    <2>2. StationInv'
      BY <1>5 DEF IInv, StationInv, PingEnds, timeVars, runVars, serverVars, poolVars
    <2>3. OutcomeInv'
      BY <1>5 DEF IInv, OutcomeInv, PingEnds, runVars, serverVars, poolVars
    <2>4. TimeInv'
      BY <1>5 DEF IInv, TimeInv, PingEnds, timeVars, bootVars, runVars, serverVars,
         poolVars, MainBounded, PoolBounded
    <2>5. TimelyInv'
      BY <1>5 DEF IInv, TimelyInv, PingEnds, timeVars, bootVars, runVars, serverVars,
         Timely
    <2> QED BY <2>1, <2>2, <2>3, <2>4, <2>5 DEF IInv
  <1>6. CASE ServerFails
    <2>1. TypeOK'
      BY <1>6 DEF IInv, TypeOK, ServerFails, timeVars, bootVars, runVars, poolVars
    <2>2. StationInv'
      BY <1>6 DEF IInv, StationInv, ServerFails, timeVars, runVars, poolVars
    <2>3. OutcomeInv'
      BY <1>6 DEF IInv, OutcomeInv, ServerFails, runVars, poolVars
    <2>4. TimeInv'
      BY <1>6 DEF IInv, TimeInv, ServerFails, timeVars, bootVars, runVars, poolVars,
         MainBounded, PoolBounded
    <2>5. TimelyInv'
      BY <1>6 DEF IInv, TimelyInv, ServerFails, runVars
    <2> QED BY <2>1, <2>2, <2>3, <2>4, <2>5 DEF IInv
  <1>7. CASE JobAccepted
    <2>1. TypeOK'
      BY <1>7, BoundsAssumption DEF IInv, TypeOK, JobAccepted, Summary!Accepted,
         timeVars, bootVars,
         runVars, httpVars, serverVars
    <2>2. StationInv'
      BY <1>7 DEF IInv, StationInv, JobAccepted, Summary!Accepted, timeVars,
         runVars, httpVars, serverVars
    <2>3. OutcomeInv'
      BY <1>7 DEF IInv, OutcomeInv, JobAccepted, Summary!Accepted, runVars
    <2>4. TimeInv'
      BY <1>7 DEF IInv, TimeInv, JobAccepted, Summary!Accepted, timeVars, bootVars,
         runVars, httpVars,
         serverVars, MainBounded, PoolBounded
    <2>5. TimelyInv'
      BY <1>7 DEF IInv, TimelyInv, JobAccepted, Summary!Accepted, timeVars,
         bootVars, runVars, httpVars,
         serverVars, Timely
    <2> QED BY <2>1, <2>2, <2>3, <2>4, <2>5 DEF IInv
  <1>8. CASE JobSettled
    <2>1. TypeOK'
      BY <1>8, BoundsAssumption DEF IInv, TypeOK, JobSettled, Summary!JobSettled,
         timeVars, bootVars,
         runVars, httpVars, serverVars
    <2>2. StationInv'
      BY <1>8 DEF IInv, StationInv, JobSettled, Summary!JobSettled, timeVars,
         runVars, httpVars, serverVars
    <2>3. OutcomeInv'
      BY <1>8 DEF IInv, OutcomeInv, JobSettled, Summary!JobSettled, runVars,
         httpVars, serverVars, TypeOK
    <2>4. TimeInv'
      BY <1>8 DEF IInv, TimeInv, JobSettled, Summary!JobSettled, timeVars,
         bootVars, runVars, httpVars,
         serverVars, MainBounded, PoolBounded
    <2>5. TimelyInv'
      BY <1>8 DEF IInv, TimelyInv, JobSettled, Summary!JobSettled, timeVars,
         bootVars, runVars, httpVars,
         serverVars, Timely
    <2> QED BY <2>1, <2>2, <2>3, <2>4, <2>5 DEF IInv
  <1> QED BY <1>1, <1>2, <1>3, <1>4, <1>5, <1>6, <1>7, <1>8 DEF Environment

\* The budget's anchor and time.
LEMMA TimeStep ==
    ASSUME IInv, AnchorBudget \/ Tick
    PROVE  IInv'
  <1>1. CASE AnchorBudget
    <2>1. TypeOK'
      BY <1>1, Numbers DEF IInv, TypeOK, AnchorBudget, Anchor, Unanchored, bootVars, runVars,
         httpVars, serverVars, poolVars, TimeInv
    <2>2. StationInv'
      BY <1>1 DEF IInv, StationInv, AnchorBudget, Anchor, runVars, httpVars, serverVars,
         poolVars
    <2>3. OutcomeInv'
      BY <1>1 DEF IInv, OutcomeInv, AnchorBudget, Anchor, runVars, httpVars, serverVars,
         poolVars
    <2>4. TimeInv'
      BY <1>1, Numbers DEF IInv, TimeInv, AnchorBudget, Anchor, Unanchored, bootVars, runVars,
         httpVars, serverVars, poolVars, TypeOK, MainBounded, PoolBounded
    <2>5. TimelyInv'
      BY <1>1 DEF IInv, TimelyInv, AnchorBudget, Anchor, Unanchored, bootVars, runVars, httpVars,
         serverVars, Timely
    <2> QED BY <2>1, <2>2, <2>3, <2>4, <2>5 DEF IInv
  <1>2. CASE Tick
    <2>1. TypeOK'
      BY <1>2, Numbers DEF IInv, TypeOK, Tick, bootVars, runVars, httpVars, serverVars,
         poolVars
    <2>2. StationInv'
      BY <1>2 DEF IInv, StationInv, Tick, runVars, httpVars, serverVars, poolVars
    <2>3. OutcomeInv'
      BY <1>2 DEF IInv, OutcomeInv, Tick, runVars, httpVars, serverVars, poolVars
    <2>4. TimeInv'
      BY <1>2, Numbers DEF IInv, TimeInv, Tick, bootVars, runVars, httpVars, serverVars,
         poolVars, TypeOK, MainBounded, PoolBounded
    <2>5. TimelyInv'
      BY <1>2 DEF IInv, TimelyInv, Tick, bootVars, runVars, Timely
    <2> QED BY <2>1, <2>2, <2>3, <2>4, <2>5 DEF IInv
  <1> QED BY <1>1, <1>2

LEMMA StutterStep == IInv /\ UNCHANGED vars => IInv'
  BY DEF IInv, TypeOK, StationInv, OutcomeInv, TimeInv, TimelyInv, MainBounded,
     PoolBounded, Timely, vars, timeVars, bootVars, runVars, serverVars, httpVars, poolVars

LEMMA Inductive == Spec => []IInv
  <1>1. IInv /\ [Next]_vars => IInv'
    <2> SUFFICES ASSUME IInv, [Next]_vars PROVE IInv'
      OBVIOUS
    <2>1. CASE UNCHANGED vars \/ Exited
      BY <2>1, StutterStep DEF Exited
    <2> QED
      BY <2>1, StartupStep, ServingStep, LeavingStep, DrainingStep, EnvironmentStep,
         TimeStep DEF Next
  <1> QED BY InitInv, <1>1, PTL DEF Spec

-----------------------------------------------------------------------------
\* Every variable keeps its range; no instant that the process can reach or wait
\* for is taken for Never.
THEOREM ProcessTyped == Spec => []TypeOK
  <1>1. IInv => TypeOK
    BY DEF IInv
  <1> QED BY Inductive, <1>1, PTL

\* The deadline of the budget and the timers of the pool are anchored to the
\* signal by different goroutines; as long as none is later than Timely allows,
\* pool.Wait never gives up before the pool has closed done.
THEOREM WaitStaysInBudget == Spec => []WaitInBudget
  <1>1. IInv => WaitInBudget
    BY DEF IInv, TimelyInv, WaitInBudget
  <1> QED BY Inductive, <1>1, PTL

\* A process that exits with code 0 leaves no job behind that the pool has not
\* reported, however late its goroutines run.
THEOREM ZeroAccounts == Spec => []ExitZeroAccounts
  <1>1. IInv => ExitZeroAccounts
    BY DEF IInv, StationInv, OutcomeInv, TypeOK, ExitZeroAccounts
  <1> QED BY Inductive, <1>1, PTL

\* Run fails after it was listening only for the server's sake: a drain that
\* lost jobs, or that took all its time, is no failure.
THEOREM OnlyTheServerFails == Spec => []FailureMeansServer
  <1>1. IInv => FailureMeansServer
    BY DEF IInv, TimelyInv, FailureMeansServer
  <1> QED BY Inductive, <1>1, PTL

\* The deferred database.Close of an orderly end comes after every request.
THEOREM DatabaseKept == Spec => []RequestsKeepDatabase
  <1>1. IInv => RequestsKeepDatabase
    BY DEF IInv, StationInv, OutcomeInv, TypeOK, RequestsKeepDatabase
  <1> QED BY Inductive, <1>1, PTL
-----------------------------------------------------------------------------
(* The configuration.                                                       *)

\* No station of Run or of the pool's monitor waits without a limit: the exit
\* code is decided, and the pool ended, within the timers and the latencies.
THEOREM EndsInTime == Spec => []DecidedInTime
  <1>1. IInv => DecidedInTime
    <2> SUFFICES ASSUME IInv PROVE DecidedInTime
      OBVIOUS
    <2>1. latency \in Nat /\ clock \in Nat /\ poolBy \in Nat
      BY Numbers DEF IInv, TypeOK
    <2>2. ASSUME signalled, main \notin {"returning", "exited"}
          PROVE  clock <= 8 * latency + ShutdownTimeout + Margin
      BY <2>1, <2>2, Numbers DEF IInv, TypeOK, TimeInv, MainBounded, StartupSteps
    <2>3. ASSUME signalled, pool \in Running
          PROVE  clock <= 5 * latency + ShutdownTimeout + UnwindWindow
      BY <2>1, <2>3, Numbers DEF IInv, TimeInv, PoolBounded, Running
    <2> QED BY <2>2, <2>3 DEF DecidedInTime
  <1> QED BY <1>1, Inductive, PTL

\* What is loaded is usable.
LEMMA LoadedSound ==
    ASSUME NEW e \in Environments, LoadSucceeds(e)
    PROVE  /\ \A n \in Secrets : Trimmed[Load(e).secrets[n]] # ""
           /\ \A n \in Counts : Load(e).counts[n] \in Nat \ {0}
  <1>1. ASSUME NEW n \in Counts PROVE PositiveInt(e, n) \in Nat \ {0}
    <2> DEFINE raw == TrimSpace(e.vars[n])
    <2>1. Defaults[n] \in Nat \ {0}
      BY DEF Defaults, Counts
    <2>2. Atoi(raw) \in Int
      BY TextsAssumption DEF Atoi, NotPositive
    <2>3. PositiveInt(e, n) # NotPositive
      BY DEF LoadSucceeds
    <2> HIDE DEF raw
    <2>4. PositiveInt(e, n) = IF raw = "" THEN Defaults[n]
                              ELSE IF Atoi(raw) <= 0 THEN NotPositive ELSE Atoi(raw)
      BY DEF PositiveInt, raw
    <2>5. CASE raw = ""
      BY <2>1, <2>4, <2>5
    <2>6. CASE raw # ""
      <3>1. ~(Atoi(raw) <= 0) /\ PositiveInt(e, n) = Atoi(raw)
        BY <2>3, <2>4, <2>6
      <3> QED BY <2>2, <3>1
    <2> QED BY <2>5, <2>6
  <1>2. ASSUME NEW n \in Secrets PROVE Trimmed[RequiredSecret(e, n)] # ""
    <2>1. RequiredSecret(e, n) # ""
      BY DEF LoadSucceeds, Missing
    <2>2. e.vars[n] \in Texts /\ e.vars[FileOf[n]] \in Texts
      BY EnvironmentsAssumption DEF Names
    <2>3. SecretFile(e, n) \in Texts
      <3> DEFINE path == TrimSpace(e.vars[FileOf[n]])
      <3>1. path = Unset \/ path \in DOMAIN e.files
        BY EnvironmentsAssumption DEF TrimSpace
      <3>2. CASE path = "" \/ e.files[path] = Unreadable
        BY <3>2, TextsAssumption DEF SecretFile
      <3>3. CASE ~(path = "" \/ e.files[path] = Unreadable)
        <4>1. e.files[path] \in Texts
          BY <3>1, <3>3, EnvironmentsAssumption DEF Unset
        <4> QED BY <3>3, <4>1 DEF SecretFile
      <3> QED BY <3>2, <3>3
    <2>4. \E t \in Texts : RequiredSecret(e, n) = Trimmed[t]
      BY <2>2, <2>3 DEF RequiredSecret, TrimSpace
    <2> QED BY <2>1, <2>4, TextsAssumption
  <1> QED BY <1>1, <1>2 DEF Load

\* The stations of Run at which it has its configuration.
Configured == main \notin {"load", "returning", "exited"}

\* Those before the database is opened, and those after.
Unopened == main \in {"load", "open"}
Opened == main \notin {"load", "open", "returning", "exited"}

\* The stations at which it serves the API.
ServingAPI == main \in Started \cup {"start"}

\* Run goes on after Load with what Load returned, and keeps it; a database, a
\* pool and a listener are only there for a configuration that allows them.
ConfigInv ==
    /\ env \in Environments
    /\ Configured \/ database # "none" => LoadSucceeds(env) /\ cfg = Load(env)
    /\ Unopened => database = "none"
    /\ Opened => database # "none"
    /\ ServingAPI => Role = "api"
    /\ pool # "none" => Role = "api" /\ database # "none"
    /\ listener # "none" => cfg.counts["PORT"] \in Ports

\* A step that keeps all that.
KeepsConfig ==
    /\ UNCHANGED <<env, cfg>>
    /\ (Configured' => Configured) /\ (ServingAPI' => ServingAPI)
    /\ (Unopened' => Unopened) /\ (Opened' => Opened)
    /\ database # "none" <=> database' # "none"
    /\ pool' # "none" => pool # "none"
    /\ listener' # "none" => listener # "none"

LEMMA ConfigStep == IInv /\ ConfigInv /\ [Next]_vars => ConfigInv'
  <1> SUFFICES ASSUME IInv, ConfigInv, [Next]_vars PROVE ConfigInv'
    OBVIOUS
  <1> USE DEF Configured, Unopened, Opened, ServingAPI, Started
  <1>1. CASE LoadConfig
    <2>1. database = "none" /\ pool = "none" /\ listener = "none" /\ main = "load"
      BY <1>1 DEF LoadConfig, ConfigInv, IInv, StationInv
    <2>2. env' = env /\ database' = "none" /\ pool' = "none" /\ listener' = "none"
      BY <1>1, <2>1 DEF LoadConfig, httpVars, serverVars, poolVars
    <2>3. \/ main' = "open" /\ LoadSucceeds(env) /\ cfg' = Load(env)
          \/ main' = "returning"
      BY <1>1 DEF LoadConfig, Step, Return
    <2>4. LoadSucceeds(env)' = LoadSucceeds(env') /\ Load(env)' = Load(env')
      BY DEF LoadSucceeds, Load
    <2> QED BY <2>2, <2>3, <2>4 DEF ConfigInv
  <1>2. ASSUME KeepsConfig PROVE ConfigInv'
    BY <1>2 DEF KeepsConfig, ConfigInv, LoadSucceeds, Load, Role
  <1>3. CASE OpenDatabase
    BY <1>3 DEF OpenDatabase, ConfigInv, LoadSucceeds, Load, Role, Step, Return, IInv,
       StationInv, timeVars, bootVars, httpVars, serverVars, poolVars
  <1>4. CASE ChooseRole
    BY <1>4 DEF ChooseRole, ConfigInv, LoadSucceeds, Load, Role, Step, Return, IInv,
       StationInv, timeVars, bootVars, httpVars, serverVars, poolVars
  <1>5. CASE StartPool
    BY <1>5 DEF StartPool, ConfigInv, LoadSucceeds, Load, Role, Step, timeVars,
       bootVars, httpVars, serverVars
  <1>6. CASE Listen
    BY <1>6 DEF Listen, ConfigInv, LoadSucceeds, Load, Role, Step, Return, IInv,
       StationInv, timeVars, bootVars, poolVars
  <1>7. ASSUME Serving PROVE KeepsConfig
    BY <1>7 DEF Serving, WorkerRole, ServeFails, BeginShutdown, ShutdownExpires,
       ServerStops, ShutdownReturns, Step, Return, KeepsConfig, IInv, StationInv,
       timeVars, bootVars, httpVars, serverVars, poolVars
  <1>8. ASSUME Leaving PROVE KeepsConfig
    <2>1. BeginWait => KeepsConfig
      BY DEF BeginWait, WaitUntilBudget, KeepsConfig, timeVars, bootVars, httpVars,
         serverVars, poolVars
    <2>2. WaitExpires \/ WaitReturns => KeepsConfig
      BY DEF WaitExpires, WaitReturns, ReturnFromWait, Step, Return, KeepsConfig,
         timeVars, bootVars, httpVars, serverVars, poolVars
    <2>3. Exit => KeepsConfig
      BY DEF Exit, KeepsConfig, timeVars, bootVars, poolVars
    <2> QED BY <1>8, <2>1, <2>2, <2>3 DEF Leaving
  <1>9. ASSUME Draining PROVE KeepsConfig
    BY <1>9 DEF Draining, StopAccepting, Summary!Stopped, Summary!Advance,
       DrainExpired, Summary!Expired, PoolSettled, Summary!Settled, UnwindExpired,
       Summary!Reports, Summary!Unwound, CloseDone, KeepsConfig, timeVars, bootVars,
       runVars, httpVars, serverVars
  <1>10. ASSUME AnchorBudget \/ Tick \/ Environment PROVE KeepsConfig
    <2>1. AnchorBudget \/ Tick => KeepsConfig
      BY DEF AnchorBudget, Anchor, Tick, KeepsConfig, timeVars, bootVars, runVars,
         httpVars, serverVars, poolVars
    <2>2. Signal \/ ServerFails => KeepsConfig
      BY DEF Signal, ServerFails, KeepsConfig, timeVars, bootVars, runVars,
         httpVars, serverVars, poolVars
    <2>3. RequestArrives \/ RequestEnds \/ PingBegins \/ PingEnds => KeepsConfig
      BY DEF RequestArrives, RequestEnds, PingBegins, PingEnds, KeepsConfig, timeVars,
         bootVars, runVars, serverVars, poolVars
    <2>4. JobAccepted \/ JobSettled => KeepsConfig
      BY DEF JobAccepted, Summary!Accepted, JobSettled, Summary!JobSettled,
         KeepsConfig, timeVars, bootVars, runVars, httpVars, serverVars
    <2> QED BY <1>10, <2>1, <2>2, <2>3, <2>4 DEF Environment
  <1>11. ASSUME UNCHANGED vars PROVE KeepsConfig
    BY <1>11 DEF KeepsConfig, vars, timeVars, bootVars, runVars, httpVars, serverVars,
       poolVars
  <1> QED
    BY <1>1, <1>2, <1>3, <1>4, <1>5, <1>6, <1>7, <1>8, <1>9, <1>10, <1>11
       DEF Next, Startup, Exited

\* Run opens its database with secrets that are not blank, starts a pool for the
\* API only and with counts that NewPool takes as they are, and listens on a
\* port that is one, whatever the environment and the argument say.
THEOREM ConfigLoaded == Spec => []ConfigSound
  <1>1. Init => ConfigInv
    BY DEF Init, ConfigInv, Configured, Unopened, Opened, ServingAPI, Started
  <1>2. ConfigInv => ConfigSound
    <2> SUFFICES ASSUME ConfigInv PROVE ConfigSound
      OBVIOUS
    <2>1. ASSUME database # "none"
          PROVE  /\ \A n \in Secrets : Trimmed[cfg.secrets[n]] # ""
                 /\ \A n \in Counts : cfg.counts[n] \in Nat \ {0}
      BY <2>1, LoadedSound DEF ConfigInv
    <2>2. pool # "none" => Role = "api" /\ database # "none"
      BY DEF ConfigInv
    <2>3. listener # "none" => cfg.counts["PORT"] \in Ports
      BY DEF ConfigInv
    <2> QED BY <2>1, <2>2, <2>3 DEF ConfigSound
  <1> QED BY <1>1, <1>2, ConfigStep, Inductive, PTL DEF Spec
=============================================================================
