------------------------- MODULE MockProviderProofs -------------------------
(***************************************************************************)
(* Theorems about the mock provider, for any endpoints, handlers and       *)
(* durations and a clock of any range.  The first two hold with either     *)
(* clock, the others with the clock of the tests.                          *)
(***************************************************************************)
EXTENDS MockProvider, TLAPS

-----------------------------------------------------------------------------
(* The pure part.                                                           *)

\* An endpoint as the store may hold it: who is not cold has been invoked.
Sound(ep, limit) ==
    /\ ep \in Endpoint
    /\ ep.count = IF ep.state = "warm" THEN 1 ELSE 0
    /\ ep.transitionAt <= limit /\ ep.invokeAt <= limit
    /\ ep.state # "cold" => ep.invokeAt \in Nat

LEMMA ZeroTimeBefore == ZeroTime \in Int /\ ZeroTime + IdleTimeout < 0
  BY DurationsAssumption DEF ZeroTime

LEMMA FreshSound ==
    ASSUME NEW now \in Nat, NEW limit \in Nat, now <= limit
    PROVE  /\ Sound(Fresh(now), limit)
           /\ Fresh(now).state = "cold" /\ Fresh(now).invokeAt = ZeroTime
           /\ Fresh(now).failUntil = 0
  <1>1. ZeroTime \in Int /\ ZeroTime <= limit
    BY ZeroTimeBefore, DurationsAssumption
  <1> QED BY <1>1 DEF Fresh, Sound, Endpoint, WorkerStates

\* advance stays where it is, or finishes the cold start, or goes cold at the
\* end of the idle timeout, from a cold start too.
LEMMA Advanced ==
    ASSUME NEW limit \in Nat, NEW ep, Sound(ep, limit), NEW now \in Nat
    PROVE  LET up == Advance(ep, now)
           IN  \/ /\ up = ep
                  /\ \/ ep.state = "cold"
                     \/ ep.state = "warming" /\ now < ep.transitionAt + ColdStart
                     \/ ep.state = "warm" /\ now < ep.invokeAt + IdleTimeout
               \/ /\ ep.state = "warming" /\ now >= ep.transitionAt + ColdStart
                  /\ now < ep.invokeAt + IdleTimeout
                  /\ up = [ep EXCEPT !.state = "warm", !.count = 1,
                                     !.transitionAt = @ + ColdStart]
               \/ /\ \/ ep.state = "warm"
                     \/ ep.state = "warming" /\ now >= ep.transitionAt + ColdStart
                  /\ now >= ep.invokeAt + IdleTimeout
                  /\ up = [ep EXCEPT !.state = "cold", !.count = 0,
                                     !.transitionAt = ep.invokeAt + IdleTimeout]
  <1> DEFINE mid == AdvanceWarming(ep, now)
  <1>1. /\ ep \in Endpoint /\ ep.transitionAt \in Nat
        /\ ep.state \in WorkerStates /\ ep.min = 0
        /\ ep.invokeAt \in Int
        /\ ep.state # "cold" => ep.invokeAt \in Nat
    BY ZeroTimeBefore DEF Sound, Endpoint
  <1>2. CASE ep.state = "cold"
    BY <1>1, <1>2 DEF Advance, AdvanceWarming, AdvanceWarm
  <1>3. CASE ep.state = "warm"
    BY <1>1, <1>3, DurationsAssumption DEF Advance, AdvanceWarming, AdvanceWarm
  <1>4. CASE ep.state = "warming" /\ now < ep.transitionAt + ColdStart
    BY <1>1, <1>4, DurationsAssumption DEF Advance, AdvanceWarming, AdvanceWarm
  <1>5. CASE ep.state = "warming" /\ now >= ep.transitionAt + ColdStart
    <2>1. mid = [ep EXCEPT !.state = "warm", !.count = 1,
                           !.transitionAt = @ + ColdStart]
      BY <1>5 DEF AdvanceWarming
    <2>2. /\ mid.state = "warm" /\ mid.min = 0 /\ mid.invokeAt = ep.invokeAt
          /\ [mid EXCEPT !.state = "cold", !.count = 0,
                         !.transitionAt = ep.invokeAt + IdleTimeout]
             = [ep EXCEPT !.state = "cold", !.count = 0,
                          !.transitionAt = ep.invokeAt + IdleTimeout]
      BY <1>1, <2>1 DEF Endpoint
    <2>3. Advance(ep, now) = AdvanceWarm(mid, now)
      BY DEF Advance
    <2> HIDE DEF mid
    <2>4. CASE now < ep.invokeAt + IdleTimeout
      BY <1>1, <1>5, <2>1, <2>2, <2>3, <2>4, DurationsAssumption DEF AdvanceWarm
    <2>5. CASE now >= ep.invokeAt + IdleTimeout
      BY <1>1, <1>5, <2>2, <2>3, <2>5, DurationsAssumption DEF AdvanceWarm
    <2> QED BY <1>1, <2>4, <2>5, DurationsAssumption
  <1> QED BY <1>1, <1>2, <1>3, <1>4, <1>5, DurationsAssumption DEF WorkerStates

\* A call of advance keeps an endpoint sound and changes neither when it was
\* invoked nor its scenario.
LEMMA AdvancedSound ==
    ASSUME NEW limit \in Nat, NEW ep, Sound(ep, limit), NEW now \in Nat, now <= limit
    PROVE  /\ Sound(Advance(ep, now), limit)
           /\ Advance(ep, now).invokeAt = ep.invokeAt
           /\ Advance(ep, now).failUntil = ep.failUntil
  <1> DEFINE up == Advance(ep, now)
  <1>1. /\ ep \in Endpoint /\ ep.transitionAt \in Nat
        /\ ep.state # "cold" => ep.invokeAt \in Nat
    BY DEF Sound, Endpoint
  <1>2. CASE up = ep
    BY <1>2
  <1>3. CASE /\ ep.state = "warming" /\ now >= ep.transitionAt + ColdStart
             /\ up = [ep EXCEPT !.state = "warm", !.count = 1,
                                !.transitionAt = @ + ColdStart]
    <2> HIDE DEF up
    <2>1. /\ up \in Endpoint /\ up.state = "warm" /\ up.count = 1
          /\ up.transitionAt = ep.transitionAt + ColdStart
          /\ up.invokeAt = ep.invokeAt /\ up.failUntil = ep.failUntil
      <3>1. ep.transitionAt + ColdStart \in Nat
        BY <1>1, DurationsAssumption
      <3>2. up = [ep EXCEPT !.state = "warm", !.count = 1,
                            !.transitionAt = ep.transitionAt + ColdStart]
        BY <1>3
      <3> QED BY <1>1, <3>1, <3>2 DEF Endpoint, WorkerStates
    <2>2. Sound(up, limit)
      BY <1>1, <1>3, <2>1, DurationsAssumption DEF Sound
    <2> QED BY <2>1, <2>2 DEF up
  <1>4. CASE /\ ep.state # "cold" /\ now >= ep.invokeAt + IdleTimeout
             /\ up = [ep EXCEPT !.state = "cold", !.count = 0,
                                !.transitionAt = ep.invokeAt + IdleTimeout]
    <2> HIDE DEF up
    <2>1. /\ up \in Endpoint /\ up.state = "cold" /\ up.count = 0
          /\ up.transitionAt = ep.invokeAt + IdleTimeout
          /\ up.invokeAt = ep.invokeAt /\ up.failUntil = ep.failUntil
      <3>1. ep.invokeAt + IdleTimeout \in Nat
        BY <1>1, <1>4, DurationsAssumption
      <3> QED BY <1>1, <1>4, <3>1 DEF Endpoint, WorkerStates
    <2>2. Sound(up, limit)
      BY <1>1, <1>4, <2>1, DurationsAssumption DEF Sound
    <2> QED BY <2>1, <2>2 DEF up
  <1> HIDE DEF up
  <1>5. \/ up = ep
        \/ /\ ep.state = "warming" /\ now >= ep.transitionAt + ColdStart
           /\ up = [ep EXCEPT !.state = "warm", !.count = 1,
                              !.transitionAt = @ + ColdStart]
        \/ /\ ep.state # "cold" /\ now >= ep.invokeAt + IdleTimeout
           /\ up = [ep EXCEPT !.state = "cold", !.count = 0,
                              !.transitionAt = ep.invokeAt + IdleTimeout]
    BY Advanced DEF up
  <1> QED BY <1>2, <1>3, <1>4, <1>5 DEF up

\* The same cases field by field.
LEMMA AdvancedFields ==
    ASSUME NEW limit \in Nat, NEW ep, Sound(ep, limit), NEW now \in Nat
    PROVE  LET up == Advance(ep, now)
           IN  \/ /\ up = ep
                  /\ \/ ep.state = "cold"
                     \/ ep.state = "warming" /\ now < ep.transitionAt + ColdStart
                     \/ ep.state = "warm" /\ now < ep.invokeAt + IdleTimeout
               \/ /\ ep.state = "warming" /\ now >= ep.transitionAt + ColdStart
                  /\ now < ep.invokeAt + IdleTimeout
                  /\ up.state = "warm"
               \/ /\ \/ ep.state = "warm"
                     \/ ep.state = "warming" /\ now >= ep.transitionAt + ColdStart
                  /\ now >= ep.invokeAt + IdleTimeout
                  /\ up.state = "cold" /\ up.transitionAt = ep.invokeAt + IdleTimeout
  <1> DEFINE up == Advance(ep, now)
             late == [ep EXCEPT !.state = "warm", !.count = 1,
                                !.transitionAt = @ + ColdStart]
             idle == [ep EXCEPT !.state = "cold", !.count = 0,
                                !.transitionAt = ep.invokeAt + IdleTimeout]
  <1>1. late.state = "warm" /\ idle.state = "cold"
          /\ idle.transitionAt = ep.invokeAt + IdleTimeout
    BY DEF Sound, Endpoint
  <1> HIDE DEF late, idle, up
  <1>2. \/ /\ up = ep
           /\ \/ ep.state = "cold"
              \/ ep.state = "warming" /\ now < ep.transitionAt + ColdStart
              \/ ep.state = "warm" /\ now < ep.invokeAt + IdleTimeout
        \/ /\ ep.state = "warming" /\ now >= ep.transitionAt + ColdStart
           /\ now < ep.invokeAt + IdleTimeout
           /\ up = late
        \/ /\ \/ ep.state = "warm"
              \/ ep.state = "warming" /\ now >= ep.transitionAt + ColdStart
           /\ now >= ep.invokeAt + IdleTimeout
           /\ up = idle
    BY Advanced DEF late, idle, up
  <1> QED BY <1>1, <1>2 DEF up

\* Invoke starts a cold start or counts as a use.
LEMMA InvokedSound ==
    ASSUME NEW limit \in Nat, NEW ep, Sound(ep, limit), NEW now \in Nat, now <= limit
    PROVE  LET up == Advance(ep, now)
               new == Invoked(ep, now)
           IN  /\ Sound(new, limit)
               /\ new.invokeAt = now /\ new.failUntil = ep.failUntil
               /\ up.state = "cold" => new.state = "warming" /\ new.transitionAt = now
               /\ up.state # "cold" => /\ new.state = up.state
                                       /\ new.transitionAt = up.transitionAt
  <1> DEFINE up == Advance(ep, now)
             new == Invoked(ep, now)
  <1>1. Sound(up, limit) /\ up.failUntil = ep.failUntil
    BY AdvancedSound
  <1>2. new = IF up.state = "cold"
              THEN [up EXCEPT !.state = "warming", !.transitionAt = now, !.invokeAt = now]
              ELSE [up EXCEPT !.invokeAt = now]
    BY DEF Invoked
  <1> HIDE DEF up, new
  <1>3. /\ up \in Endpoint
        /\ up.count = IF up.state = "warm" THEN 1 ELSE 0
        /\ up.transitionAt <= limit
    BY <1>1 DEF Sound
  <1>4. /\ new \in Endpoint /\ new.count = up.count
        /\ new.invokeAt = now /\ new.failUntil = up.failUntil
        /\ up.state = "cold" => new.state = "warming" /\ new.transitionAt = now
        /\ up.state # "cold" => new.state = up.state /\ new.transitionAt = up.transitionAt
    <2>1. CASE up.state = "cold"
      BY <1>2, <1>3, <2>1 DEF Endpoint, WorkerStates
    <2>2. CASE up.state # "cold"
      BY <1>2, <1>3, <2>2 DEF Endpoint, WorkerStates
    <2> QED BY <2>1, <2>2
  <1>5. Sound(new, limit)
    BY <1>3, <1>4 DEF Sound
  <1> QED BY <1>1, <1>4, <1>5 DEF up, new

-----------------------------------------------------------------------------
(* Types, with either clock.                                                *)

Inv ==
    /\ TypeOK
    /\ \A id \in DOMAIN endpoints : Sound(endpoints[id], clock)
    /\ \A r \in Requests : request[r].now <= clock

\* The store after one endpoint has been put, and what a handler reads.
LEMMA PutSound ==
    ASSUME Inv, NEW id \in Ids, NEW ep, Sound(ep, clock),
           endpoints' = Put(id, ep), clock' = clock
    PROVE  /\ DOMAIN endpoints' = DOMAIN endpoints \cup {id}
           /\ DOMAIN endpoints' \subseteq Ids
           /\ endpoints'[id] = ep
           /\ \A x \in DOMAIN endpoints : x # id => endpoints'[x] = endpoints[x]
           /\ \A x \in DOMAIN endpoints' : Sound(endpoints'[x], clock')
  BY DEF Put, Inv, TypeOK

LEMMA ReadSound ==
    ASSUME Inv, NEW id \in Ids, NEW now \in Nat, now <= clock
    PROVE  /\ Sound(GetOrCreate(id, now), clock)
           /\ id \in DOMAIN endpoints => GetOrCreate(id, now) = endpoints[id]
           /\ id \notin DOMAIN endpoints => GetOrCreate(id, now) = Fresh(now)
  BY FreshSound DEF GetOrCreate, Inv, TypeOK

\* TypeOK says of endpoints what Sound says.
LEMMA SoundTyped ==
    ASSUME /\ clock' \in Nat /\ DOMAIN endpoints' \subseteq Ids
           /\ \A id \in DOMAIN endpoints' : Sound(endpoints'[id], clock')
           /\ request' \in [Requests -> Request]
           /\ \A r \in Requests : request'[r].now <= clock'
           /\ reply' \in WorkerStates \cup {"none", "failed"}
           /\ lastUse' \in [Ids -> Nat \cup {ZeroTime}]
    PROVE  Inv'
  BY DEF Inv, TypeOK, Sound

LEMMA NoRequestTyped == NoRequest \in Request /\ NoRequest.now = 0 /\ NoRequest.at = "idle"
  BY IdsAssumption DEF NoRequest, Request

LEMMA InitInv == Init => Inv
  <1> SUFFICES ASSUME Init PROVE Inv
    OBVIOUS
  <1>1. DOMAIN endpoints = {}
    BY DEF Init
  <1> QED BY <1>1, NoRequestTyped DEF Init, Inv, TypeOK

LEMMA TickInv == Inv /\ Tick => Inv'
  <1> SUFFICES ASSUME Inv, Tick PROVE Inv'
    OBVIOUS
  <1>1. clock \in Nat /\ clock' = clock + 1 /\ UNCHANGED <<endpoints, request, reply, lastUse>>
    BY DEF Tick, Inv, TypeOK
  <1>2. \A r \in Requests : request'[r].now <= clock'
    BY <1>1 DEF Inv, TypeOK, Request
  <1>3. ASSUME NEW id \in DOMAIN endpoints PROVE Sound(endpoints[id], clock')
    BY <1>1, <1>3, ZeroTimeBefore DEF Inv, Sound, Endpoint
  <1> QED BY <1>1, <1>2, <1>3, SoundTyped DEF Inv, TypeOK

LEMMA ScenarioInv ==
    ASSUME Inv, NEW id \in Ids, NEW until \in Nat, SetScenario(id, until)
    PROVE  Inv'
  <1> DEFINE old == GetOrCreate(id, clock)
             new == [old EXCEPT !.failUntil = until]
  <1>1. Sound(old, clock) /\ clock \in Nat
    BY ReadSound DEF Inv, TypeOK
  <1>2. endpoints' = Put(id, new) /\ UNCHANGED <<clock, request, reply, lastUse>>
    BY DEF SetScenario
  <1> HIDE DEF old
  <1>3. Sound(new, clock)
    BY <1>1 DEF Sound, Endpoint
  <1> HIDE DEF new
  <1> QED BY <1>1, <1>2, <1>3, PutSound, SoundTyped DEF Inv, TypeOK

LEMMA ResetInv == Inv /\ Reset => Inv'
  <1> SUFFICES ASSUME Inv, Reset PROVE Inv'
    OBVIOUS
  <1>1. DOMAIN endpoints' = {} /\ lastUse' = [id \in Ids |-> ZeroTime]
          /\ UNCHANGED <<clock, request, reply>>
    BY DEF Reset
  <1> QED BY <1>1, SoundTyped DEF Inv, TypeOK

\* A handler's step leaves its captured now behind the clock.
LEMMA RequestFields ==
    ASSUME Inv, NEW r \in Requests
    PROVE  /\ request[r] \in Request /\ request[r].id \in Ids
           /\ request[r].now \in Nat /\ request[r].now <= clock
           /\ clock \in Nat
  BY DEF Inv, TypeOK, Request

LEMMA ArriveInv ==
    ASSUME Inv, NEW r \in Requests, NEW kind \in {"status", "invoke"}, NEW id \in Ids,
           Arrive(r, kind, id)
    PROVE  Inv'
  <1> DEFINE new == [at |-> "arrived", kind |-> kind, id |-> id, now |-> clock,
                     failUntil |-> 0]
  <1>1. clock \in Nat /\ UNCHANGED <<clock, endpoints, reply, lastUse>>
          /\ request' = [request EXCEPT ![r] = new]
    BY DEF Arrive, Inv, TypeOK
  <1>2. new \in Request /\ new.now = clock
    BY <1>1 DEF Request
  <1> HIDE DEF new
  <1>3. request' \in [Requests -> Request] /\ \A x \in Requests : request'[x].now <= clock'
    BY <1>1, <1>2 DEF Inv, TypeOK
  <1> QED BY <1>1, <1>3, SoundTyped DEF Inv, TypeOK

\* The steps that end a request.
LEMMA EndedRequest ==
    ASSUME Inv, NEW r \in Requests, request' = [request EXCEPT ![r] = NoRequest],
           clock' = clock
    PROVE  /\ request' \in [Requests -> Request]
           /\ \A x \in Requests : request'[x].now <= clock'
  BY NoRequestTyped DEF Inv, TypeOK

LEMMA LookupInv ==
    ASSUME Inv, NEW r \in Requests, Lookup(r)
    PROVE  Inv'
  <1> DEFINE q == request[r]
             ep == GetOrCreate(q.id, q.now)
  <1>1. q \in Request /\ q.id \in Ids /\ q.now \in Nat /\ q.now <= clock /\ clock \in Nat
    BY RequestFields
  <1>2. Sound(ep, clock)
    BY <1>1, ReadSound
  <1>3. /\ endpoints' = Put(q.id, ep)
        /\ request' = [request EXCEPT ![r].at = "delayed", ![r].failUntil = ep.failUntil]
        /\ UNCHANGED <<clock, reply, lastUse>>
    BY DEF Lookup
  <1> HIDE DEF ep
  <1>4. ep.failUntil \in Nat
    BY <1>2 DEF Sound, Endpoint
  <1>5. request' \in [Requests -> Request] /\ \A x \in Requests : request'[x].now <= clock'
    <2>1. request' = [request EXCEPT ![r] = [q EXCEPT !.at = "delayed", !.failUntil = ep.failUntil]]
      BY <1>3 DEF Inv, TypeOK
    <2>2. [q EXCEPT !.at = "delayed", !.failUntil = ep.failUntil] \in Request
            /\ [q EXCEPT !.at = "delayed", !.failUntil = ep.failUntil].now = q.now
      BY <1>1, <1>4 DEF Request
    <2> QED BY <1>1, <1>3, <2>1, <2>2 DEF Inv, TypeOK
  <1> HIDE DEF q
  <1> QED BY <1>1, <1>2, <1>3, <1>5, PutSound, SoundTyped DEF Inv, TypeOK

LEMMA RefuseInv ==
    ASSUME Inv, NEW r \in Requests, Refuse(r)
    PROVE  Inv'
  BY EndedRequest, SoundTyped DEF Refuse, Inv, TypeOK

LEMMA AnswerStatusInv ==
    ASSUME Inv, NEW r \in Requests, AnswerStatus(r)
    PROVE  Inv'
  <1> DEFINE q == request[r]
             ep == Advance(GetOrCreate(q.id, q.now), q.now)
  <1>1. q.id \in Ids /\ q.now \in Nat /\ q.now <= clock /\ clock \in Nat
    BY RequestFields
  <1>2. Sound(ep, clock)
    BY <1>1, ReadSound, AdvancedSound
  <1>3. /\ endpoints' = Put(q.id, ep) /\ reply' = ep.state
        /\ request' = [request EXCEPT ![r] = NoRequest]
        /\ UNCHANGED <<clock, lastUse>>
    BY DEF AnswerStatus
  <1> HIDE DEF ep, q
  <1>4. ep.state \in WorkerStates
    BY <1>2 DEF Sound, Endpoint
  <1> QED BY <1>1, <1>2, <1>3, <1>4, PutSound, EndedRequest, SoundTyped DEF Inv, TypeOK

LEMMA AnswerInvokeInv ==
    ASSUME Inv, NEW r \in Requests, AnswerInvoke(r)
    PROVE  Inv'
  <1> DEFINE q == request[r]
             ep == Invoked(GetOrCreate(q.id, q.now), q.now)
  <1>1. q.id \in Ids /\ q.now \in Nat /\ q.now <= clock /\ clock \in Nat
    BY RequestFields
  <1>2. Sound(ep, clock)
    BY <1>1, ReadSound, InvokedSound
  <1>3. /\ endpoints' = Put(q.id, ep) /\ reply' = ep.state
        /\ request' = [request EXCEPT ![r] = NoRequest]
        /\ lastUse' = [lastUse EXCEPT ![q.id] = IF q.now > @ THEN q.now ELSE @]
        /\ UNCHANGED clock
    BY DEF AnswerInvoke
  <1> HIDE DEF ep, q
  <1>4. ep.state \in WorkerStates
    BY <1>2 DEF Sound, Endpoint
  <1>5. lastUse' \in [Ids -> Nat \cup {ZeroTime}]
    BY <1>1, <1>3 DEF Inv, TypeOK
  <1> QED BY <1>1, <1>2, <1>3, <1>4, <1>5, PutSound, EndedRequest, SoundTyped DEF Inv, TypeOK

LEMMA NextInv == Inv /\ [Next]_mockVars => Inv'
  <1> SUFFICES ASSUME Inv, [Next]_mockVars PROVE Inv'
    OBVIOUS
  <1>1. CASE UNCHANGED mockVars
    BY <1>1, SoundTyped DEF mockVars, Inv, TypeOK
  <1>2. ASSUME NEW id \in Ids, NEW until \in {0, clock + FailFor}, SetScenario(id, until)
        PROVE  Inv'
    <2>1. until \in Nat
      BY BoundsAssumption DEF Inv, TypeOK
    <2> QED BY <1>2, <2>1, ScenarioInv
  <1> QED BY <1>1, <1>2, TickInv, ResetInv, ArriveInv, LookupInv, RefuseInv, AnswerStatusInv,
             AnswerInvokeInv DEF Next

THEOREM InvHolds == Spec => []Inv
  BY InitInv, NextInv, PTL DEF Spec

\* The types hold with either clock, however late a handler is: in particular
\* the worker count that replies report follows the state, and no transition
\* lies ahead of the clock.
THEOREM MockTyped == Spec => []TypeOK
  <1>1. Inv => TypeOK
    BY DEF Inv
  <1> QED BY InvHolds, <1>1, PTL

-----------------------------------------------------------------------------
(* A cold start under way.                                                  *)

\* Neither a late nor a concurrent request moves the beginning of a cold start,
\* unless the cold start it finds was forgotten for a whole idle timeout.
LEMMA KeptStart ==
    ASSUME NEW limit \in Nat, NEW ep, Sound(ep, limit), NEW now \in Nat, now <= limit,
           ep.state = "warming"
    PROVE  /\ Advance(ep, now).state = "warming" =>
                  Advance(ep, now).transitionAt = ep.transitionAt
           /\ Invoked(ep, now).state = "warming" =>
                  \/ Invoked(ep, now).transitionAt = ep.transitionAt
                  \/ /\ Invoked(ep, now).transitionAt >= ep.transitionAt + ColdStart
                     /\ Invoked(ep, now).transitionAt >= ep.invokeAt + IdleTimeout
  <1> DEFINE up == Advance(ep, now)
             new == Invoked(ep, now)
  <1>1. \/ up = ep
        \/ up.state = "warm"
        \/ /\ up.state = "cold" /\ now >= ep.invokeAt + IdleTimeout
           /\ now >= ep.transitionAt + ColdStart
    BY AdvancedFields
  <1>2. /\ up.state = "cold" => new.state = "warming" /\ new.transitionAt = now
        /\ up.state # "cold" => new.state = up.state /\ new.transitionAt = up.transitionAt
    BY InvokedSound
  <1> HIDE DEF up, new
  <1>3. up.state = "warming" => up.transitionAt = ep.transitionAt
    BY <1>1
  <1>4. new.state = "warming" => \/ new.transitionAt = ep.transitionAt
                                 \/ /\ new.transitionAt >= ep.transitionAt + ColdStart
                                    /\ new.transitionAt >= ep.invokeAt + IdleTimeout
    BY <1>1, <1>2
  <1> QED BY <1>3, <1>4 DEF up, new

StartKept(ep, new) ==
    ep.state = "warming" /\ new.state = "warming"
        => \/ new.transitionAt = ep.transitionAt
           \/ /\ new.transitionAt >= ep.transitionAt + ColdStart
              /\ new.transitionAt >= ep.invokeAt + IdleTimeout

\* It is enough to look at the endpoint that a method puts.
LEMMA PutKeeps ==
    ASSUME Inv, NEW id \in Ids, NEW ep, endpoints' = Put(id, ep),
           id \in DOMAIN endpoints => StartKept(endpoints[id], ep)
    PROVE  \A x \in DOMAIN endpoints \cap DOMAIN endpoints' :
               StartKept(endpoints[x], endpoints'[x])
  BY DEF Put, StartKept

\* No step restarts one.
LEMMA StartsKept ==
    ASSUME Inv, [Next]_mockVars
    PROVE  \A id \in DOMAIN endpoints \cap DOMAIN endpoints' :
               StartKept(endpoints[id], endpoints'[id])
  <1>1. CASE UNCHANGED endpoints
    BY <1>1 DEF StartKept
  <1>2. CASE Reset
    BY <1>2 DEF Reset
  <1>3. ASSUME NEW id \in Ids, NEW until \in Nat, SetScenario(id, until)
        PROVE  \A x \in DOMAIN endpoints \cap DOMAIN endpoints' :
                   StartKept(endpoints[x], endpoints'[x])
    <2> DEFINE old == GetOrCreate(id, clock)
               new == [old EXCEPT !.failUntil = until]
    <2>1. endpoints' = Put(id, new) /\ clock \in Nat
      BY <1>3 DEF SetScenario, Inv, TypeOK
    <2>2. Sound(old, clock) /\ (id \in DOMAIN endpoints => old = endpoints[id])
      BY <2>1, ReadSound
    <2> HIDE DEF old
    <2>3. new.transitionAt = old.transitionAt
      BY <2>2 DEF Sound, Endpoint
    <2> HIDE DEF new
    <2> QED BY <2>1, <2>2, <2>3, PutKeeps DEF StartKept
  <1>4. ASSUME NEW r \in Requests, Lookup(r) \/ AnswerStatus(r) \/ AnswerInvoke(r)
        PROVE  \A x \in DOMAIN endpoints \cap DOMAIN endpoints' :
                   StartKept(endpoints[x], endpoints'[x])
    <2> DEFINE q == request[r]
               old == GetOrCreate(q.id, q.now)
    <2>1. q.id \in Ids /\ q.now \in Nat /\ q.now <= clock /\ clock \in Nat
      BY RequestFields
    <2>2. Sound(old, clock) /\ (q.id \in DOMAIN endpoints => old = endpoints[q.id])
      BY <2>1, ReadSound
    <2>3. PICK new \in {old, Advance(old, q.now), Invoked(old, q.now)} :
              endpoints' = Put(q.id, new)
      BY <1>4 DEF Lookup, AnswerStatus, AnswerInvoke
    <2> HIDE DEF old, q
    <2>4. StartKept(old, new)
      BY <2>1, <2>2, <2>3, KeptStart DEF StartKept
    <2> QED BY <2>1, <2>2, <2>3, <2>4, PutKeeps
  <1>5. ASSUME NEW r \in Requests,
               \/ \E kind \in {"status", "invoke"}, id \in Ids : Arrive(r, kind, id)
               \/ Refuse(r)
        PROVE  UNCHANGED endpoints
    BY <1>5 DEF Arrive, Refuse
  <1>6. ASSUME NEW id \in Ids, NEW until \in {0, clock + FailFor}, SetScenario(id, until)
        PROVE  \A x \in DOMAIN endpoints \cap DOMAIN endpoints' :
                   StartKept(endpoints[x], endpoints'[x])
    <2>1. until \in Nat
      BY BoundsAssumption DEF Inv, TypeOK
    <2> QED BY <1>3, <1>6, <2>1
  <1>7. Tick \/ UNCHANGED mockVars => UNCHANGED endpoints
    BY DEF Tick, mockVars
  <1>8. CASE Next
    <2>1. ASSUME NEW r \in Requests,
                 \/ \E kind \in {"status", "invoke"}, id \in Ids : Arrive(r, kind, id)
                 \/ Lookup(r) \/ Refuse(r) \/ AnswerStatus(r) \/ AnswerInvoke(r)
          PROVE  \A x \in DOMAIN endpoints \cap DOMAIN endpoints' :
                     StartKept(endpoints[x], endpoints'[x])
      <3>1. CASE (\E kind \in {"status", "invoke"}, id \in Ids : Arrive(r, kind, id)) \/ Refuse(r)
        BY <1>1, <1>5, <3>1
      <3>2. CASE Lookup(r) \/ AnswerStatus(r) \/ AnswerInvoke(r)
        BY <1>4, <3>2
      <3> QED BY <2>1, <3>1, <3>2
    <2>2. CASE \E r \in Requests :
                  \/ \E kind \in {"status", "invoke"}, id \in Ids : Arrive(r, kind, id)
                  \/ Lookup(r) \/ Refuse(r) \/ AnswerStatus(r) \/ AnswerInvoke(r)
      BY <2>1, <2>2
    <2>3. CASE \E id \in Ids, until \in {0, clock + FailFor} : SetScenario(id, until)
      BY <1>6, <2>3
    <2>4. CASE Tick \/ Reset
      BY <1>1, <1>2, <1>7, <2>4
    <2> QED BY <1>8, <2>2, <2>3, <2>4 DEF Next
  <1> QED BY <1>1, <1>7, <1>8

\* A cold start is not prolonged by invocations that arrive meanwhile or late
\* (the first branch of Invoke is for a cold endpoint only).
THEOREM StartsNotRepeated == Spec => ColdStartNotRestarted
  <1>1. Inv /\ [Next]_mockVars =>
          [\A id \in DOMAIN endpoints \cap DOMAIN endpoints' :
              endpoints[id].state = "warming" /\ endpoints'[id].state = "warming"
                 => \/ endpoints'[id].transitionAt = endpoints[id].transitionAt
                    \/ /\ endpoints'[id].transitionAt >= endpoints[id].transitionAt + ColdStart
                       /\ endpoints'[id].transitionAt >=
                             endpoints[id].invokeAt + IdleTimeout]_mockVars
    BY StartsKept DEF StartKept
  <1> QED BY InvHolds, <1>1, PTL DEF Spec, ColdStartNotRestarted

-----------------------------------------------------------------------------
(* With the clock of the tests: what lastUse remembers.                     *)

\* An endpoint agrees with the latest instant it was invoked for.
InUse(ep, use) ==
    /\ ep.state = "warming" => ep.transitionAt <= ep.invokeAt
    /\ ep.state # "cold" => use = ep.invokeAt
    /\ ep.state = "cold" /\ use # ZeroTime => ep.transitionAt >= use + IdleTimeout

\* While a request is served the clock stands still.
PunctualInv ==
    /\ \A r \in Requests : request[r].at # "idle" => request[r].now = clock
    /\ \A id \in DOMAIN endpoints : InUse(endpoints[id], lastUse[id])
    /\ \A id \in Ids \ DOMAIN endpoints : lastUse[id] = ZeroTime
    /\ \A id \in Ids : lastUse[id] <= clock

LEMMA AdvanceInUse ==
    ASSUME NEW limit \in Nat, NEW ep, Sound(ep, limit), NEW now \in Nat, now <= limit,
           NEW use, InUse(ep, use)
    PROVE  InUse(Advance(ep, now), use)
  <1> DEFINE up == Advance(ep, now)
  <1>1. up.invokeAt = ep.invokeAt
    BY AdvancedSound
  <1>2. \/ up = ep
        \/ ep.state # "cold" /\ up.state = "warm"
        \/ /\ ep.state # "cold" /\ up.state = "cold"
           /\ up.transitionAt = ep.invokeAt + IdleTimeout
    BY AdvancedFields
  <1>3. ep.state # "cold" => ep.invokeAt \in Nat
    BY DEF Sound
  <1> HIDE DEF up
  <1>4. InUse(up, use)
    BY <1>1, <1>2, <1>3, DurationsAssumption DEF InUse
  <1> QED BY <1>4 DEF up

LEMMA InvokeInUse ==
    ASSUME NEW now \in Nat, NEW ep, Sound(ep, now), NEW use, InUse(ep, use)
    PROVE  InUse(Invoked(ep, now), now)
  <1> DEFINE up == Advance(ep, now)
             new == Invoked(ep, now)
  <1>1. /\ new.invokeAt = now
        /\ up.state = "cold" => new.state = "warming" /\ new.transitionAt = now
        /\ up.state # "cold" => new.state = up.state /\ new.transitionAt = up.transitionAt
    BY InvokedSound
  <1>2. up.transitionAt \in Nat /\ up.transitionAt <= now
    BY AdvancedSound DEF Sound, Endpoint
  <1> HIDE DEF up, new
  <1>3. new.state # "cold"
    BY <1>1
  <1>4. new.transitionAt <= now
    BY <1>1, <1>2
  <1>5. InUse(new, now)
    BY <1>1, <1>3, <1>4 DEF InUse
  <1> QED BY <1>5 DEF new

\* What a handler reads agrees with lastUse, too.
LEMMA ReadInUse ==
    ASSUME Inv, PunctualInv, NEW id \in Ids
    PROVE  InUse(GetOrCreate(id, clock), lastUse[id])
  <1>1. clock \in Nat
    BY DEF Inv, TypeOK
  <1>2. CASE id \in DOMAIN endpoints
    BY <1>1, <1>2, ReadSound DEF PunctualInv
  <1>3. CASE id \notin DOMAIN endpoints
    BY <1>1, <1>3, ReadSound, FreshSound DEF PunctualInv, InUse
  <1> QED BY <1>2, <1>3

\* A method that puts an endpoint, with what it remembers of its use.
LEMMA PutInUse ==
    ASSUME Inv, PunctualInv, NEW id \in Ids, NEW ep, Sound(ep, clock),
           endpoints' = Put(id, ep), clock' = clock,
           NEW use, InUse(ep, use), use <= clock,
           lastUse' = [lastUse EXCEPT ![id] = use],
           \A r \in Requests : request'[r].at # "idle" => request'[r].now = clock
    PROVE  PunctualInv'
  <1>1. lastUse'[id] = use /\ \A x \in Ids \ {id} : lastUse'[x] = lastUse[x]
    BY DEF Inv, TypeOK
  <1>2. DOMAIN endpoints' = DOMAIN endpoints \cup {id} /\ DOMAIN endpoints \subseteq Ids
          /\ endpoints'[id] = ep
          /\ \A x \in DOMAIN endpoints : x # id => endpoints'[x] = endpoints[x]
    BY PutSound DEF Inv, TypeOK
  <1>3. ASSUME NEW x \in DOMAIN endpoints' PROVE InUse(endpoints'[x], lastUse'[x])
    <2>1. CASE x = id
      BY <1>1, <1>2, <2>1
    <2>2. CASE x # id
      BY <1>1, <1>2, <2>2 DEF PunctualInv
    <2> QED BY <2>1, <2>2
  <1>4. \A x \in DOMAIN endpoints' : InUse(endpoints'[x], lastUse'[x])
    BY <1>3
  <1> HIDE DEF InUse
  <1> QED BY <1>1, <1>2, <1>4 DEF PunctualInv, InUse

\* Steps that touch no endpoint and no clock.
LEMMA RequestPunctual ==
    ASSUME PunctualInv, UNCHANGED <<clock, endpoints, lastUse>>,
           \A r \in Requests : request'[r].at # "idle" => request'[r].now = clock
    PROVE  PunctualInv'
  BY DEF PunctualInv, InUse

\* A step of one handler leaves the others' locals alone.
LEMMA OneRequest ==
    ASSUME Inv, PunctualInv, NEW r \in Requests, NEW q,
           request' = [request EXCEPT ![r] = q], q.at # "idle" => q.now = clock
    PROVE  \A x \in Requests : request'[x].at # "idle" => request'[x].now = clock
  BY DEF Inv, TypeOK, PunctualInv

LEMMA PunctualInit == Init => PunctualInv
  <1> SUFFICES ASSUME Init PROVE PunctualInv
    OBVIOUS
  <1>1. DOMAIN endpoints = {} /\ clock = 0 /\ lastUse = [id \in Ids |-> ZeroTime]
          /\ \A r \in Requests : request[r].at = "idle"
    BY NoRequestTyped DEF Init
  <1> QED BY <1>1, ZeroTimeBefore, DurationsAssumption DEF PunctualInv

LEMMA PunctualScenario ==
    ASSUME Inv, PunctualInv, NEW id \in Ids, NEW until \in Nat, SetScenario(id, until)
    PROVE  PunctualInv'
  <1> DEFINE old == GetOrCreate(id, clock)
             new == [old EXCEPT !.failUntil = until]
  <1>1. Sound(old, clock) /\ InUse(old, lastUse[id]) /\ clock \in Nat
    BY ReadSound, ReadInUse DEF Inv, TypeOK
  <1>2. endpoints' = Put(id, new) /\ UNCHANGED <<clock, request, lastUse>>
    BY DEF SetScenario
  <1> HIDE DEF old
  <1>3. Sound(new, clock) /\ new.state = old.state /\ new.invokeAt = old.invokeAt
          /\ new.transitionAt = old.transitionAt
    BY <1>1 DEF Sound, Endpoint
  <1> HIDE DEF new
  <1>4. InUse(new, lastUse[id])
    BY <1>1, <1>3 DEF InUse
  <1>5. lastUse' = [lastUse EXCEPT ![id] = lastUse[id]] /\ lastUse[id] <= clock
    BY <1>2 DEF Inv, TypeOK, PunctualInv
  <1>6. \A r \in Requests : request'[r].at # "idle" => request'[r].now = clock
    BY <1>2 DEF PunctualInv
  <1> QED BY <1>2, <1>3, <1>4, <1>5, <1>6, PutInUse

\* What a handler that is not between two requests captured is the present.
LEMMA Present ==
    ASSUME Inv, PunctualInv, NEW r \in Requests, request[r].at # "idle"
    PROVE  request[r].now = clock /\ request[r].id \in Ids /\ clock \in Nat
  BY RequestFields DEF PunctualInv

LEMMA PunctualRead ==
    ASSUME Inv, PunctualInv, NEW r \in Requests, Lookup(r) \/ AnswerStatus(r)
    PROVE  PunctualInv'
  <1> DEFINE q == request[r]
             old == GetOrCreate(q.id, clock)
  <1>1. q.at # "idle"
    BY DEF Lookup, AnswerStatus
  <1>2. q.now = clock /\ q.id \in Ids /\ clock \in Nat
    BY <1>1, Present
  <1>3. Sound(old, clock) /\ InUse(old, lastUse[q.id])
    BY <1>2, ReadSound, ReadInUse
  <1>4. Sound(Advance(old, clock), clock) /\ InUse(Advance(old, clock), lastUse[q.id])
    BY <1>2, <1>3, AdvancedSound, AdvanceInUse
  <1>5. PICK new \in {old, Advance(old, clock)} : endpoints' = Put(q.id, new)
    BY <1>2 DEF Lookup, AnswerStatus
  <1>6. UNCHANGED <<clock, lastUse>>
    BY DEF Lookup, AnswerStatus
  <1>7. lastUse' = [lastUse EXCEPT ![q.id] = lastUse[q.id]] /\ lastUse[q.id] <= clock
    BY <1>2, <1>6 DEF Inv, TypeOK, PunctualInv
  <1>8. \A x \in Requests : request'[x].at # "idle" => request'[x].now = clock
    <2>1. request \in [Requests -> Request]
      BY DEF Inv, TypeOK
    <2>2. \A x \in Requests \ {r} : request'[x] = request[x]
      BY <2>1 DEF Lookup, AnswerStatus
    <2>3. request'[r].at # "idle" => request'[r].now = q.now
      BY <2>1, NoRequestTyped DEF Lookup, AnswerStatus, Request
    <2> HIDE DEF q
    <2> QED BY <1>2, <2>2, <2>3 DEF PunctualInv
  <1> HIDE DEF old, q
  <1> QED BY <1>2, <1>3, <1>4, <1>5, <1>6, <1>7, <1>8, PutInUse

LEMMA PunctualInvoke ==
    ASSUME Inv, PunctualInv, NEW r \in Requests, AnswerInvoke(r)
    PROVE  PunctualInv'
  <1> DEFINE q == request[r]
             old == GetOrCreate(q.id, clock)
             new == Invoked(old, clock)
  <1>1. q.at # "idle"
    BY DEF AnswerInvoke
  <1>2. q.now = clock /\ q.id \in Ids /\ clock \in Nat
    BY <1>1, Present
  <1>3. Sound(old, clock) /\ InUse(old, lastUse[q.id])
    BY <1>2, ReadSound, ReadInUse
  <1>4. Sound(new, clock) /\ InUse(new, clock)
    BY <1>2, <1>3, InvokedSound, InvokeInUse
  <1>5. /\ endpoints' = Put(q.id, new) /\ clock' = clock
        /\ request' = [request EXCEPT ![r] = NoRequest]
        /\ lastUse' = [lastUse EXCEPT ![q.id] = IF clock > @ THEN clock ELSE @]
    BY <1>2 DEF AnswerInvoke
  <1>6. lastUse[q.id] <= clock /\ lastUse[q.id] \in Int
    BY <1>2, ZeroTimeBefore DEF PunctualInv, Inv, TypeOK
  <1> HIDE DEF new, old, q
  <1>7. lastUse' = [lastUse EXCEPT ![q.id] = clock]
    <2>1. (IF clock > lastUse[q.id] THEN clock ELSE lastUse[q.id]) = clock
      BY <1>2, <1>6
    <2> QED BY <1>5, <2>1
  <1>8. \A x \in Requests : request'[x].at # "idle" => request'[x].now = clock
    BY <1>5, NoRequestTyped, OneRequest
  <1>9. endpoints' = Put(q.id, new) /\ clock' = clock /\ clock <= clock /\ q.id \in Ids
    BY <1>2, <1>5
  <1> QED BY <1>4, <1>7, <1>8, <1>9, PutInUse

LEMMA PunctualNext ==
    ASSUME VirtualClock, Inv, PunctualInv, [Next]_mockVars
    PROVE  PunctualInv'
  <1>1. CASE UNCHANGED mockVars
    BY <1>1, RequestPunctual DEF mockVars, PunctualInv
  <1>2. CASE Tick
    <2>1. clock \in Nat /\ clock' = clock + 1 /\ UNCHANGED <<endpoints, request, lastUse>>
      BY <1>2 DEF Tick, Inv, TypeOK
    <2>2. \A r \in Requests : request'[r].at = "idle"
      BY <1>2, <2>1, NoRequestTyped DEF Tick
    <2>3. \A id \in Ids : lastUse'[id] <= clock'
      BY <2>1, ZeroTimeBefore DEF PunctualInv, Inv, TypeOK
    <2> QED BY <2>1, <2>2, <2>3 DEF PunctualInv, InUse
  <1>3. CASE Reset
    <2>1. DOMAIN endpoints' = {} /\ lastUse' = [id \in Ids |-> ZeroTime]
            /\ UNCHANGED <<clock, request>>
      BY <1>3 DEF Reset
    <2>2. ZeroTime <= clock
      BY ZeroTimeBefore, DurationsAssumption DEF Inv, TypeOK
    <2> QED BY <2>1, <2>2 DEF PunctualInv
  <1>4. ASSUME NEW id \in Ids, NEW until \in {0, clock + FailFor}, SetScenario(id, until)
        PROVE  PunctualInv'
    <2>1. until \in Nat
      BY BoundsAssumption DEF Inv, TypeOK
    <2> QED BY <1>4, <2>1, PunctualScenario
  <1>5. ASSUME NEW r \in Requests, NEW kind \in {"status", "invoke"}, NEW id \in Ids,
               Arrive(r, kind, id)
        PROVE  PunctualInv'
    <2> DEFINE new == [at |-> "arrived", kind |-> kind, id |-> id, now |-> clock,
                       failUntil |-> 0]
    <2>1. request' = [request EXCEPT ![r] = new] /\ UNCHANGED <<clock, endpoints, lastUse>>
      BY <1>5 DEF Arrive
    <2>2. new.now = clock
      OBVIOUS
    <2> HIDE DEF new
    <2> QED BY <2>1, <2>2, OneRequest, RequestPunctual
  <1>6. ASSUME NEW r \in Requests, Refuse(r)
        PROVE  PunctualInv'
    <2>1. request' = [request EXCEPT ![r] = NoRequest] /\ UNCHANGED <<clock, endpoints, lastUse>>
      BY <1>6 DEF Refuse
    <2> QED BY <2>1, NoRequestTyped, OneRequest, RequestPunctual
  <1> QED BY <1>1, <1>2, <1>3, <1>4, <1>5, <1>6, PunctualRead, PunctualInvoke DEF Next

LEMMA Punctual == VirtualClock /\ Spec => []PunctualInv
  <1> SUFFICES ASSUME VirtualClock PROVE Spec => []PunctualInv
    OBVIOUS
  <1>1. Inv /\ PunctualInv /\ [Next]_mockVars => PunctualInv'
    BY PunctualNext
  <1> QED BY InvHolds, PunctualInit, <1>1, PTL DEF Spec

\* With the clock of the tests no endpoint goes cold before it was idle for
\* IdleTimeout, counted from its latest invocation.
THEOREM IdleKept == VirtualClock /\ Spec => []IdleHonoured
  <1>1. Inv /\ PunctualInv => IdleHonoured
    BY DEF Inv, TypeOK, PunctualInv, InUse, IdleHonoured
  <1> QED BY InvHolds, Punctual, <1>1, PTL
-----------------------------------------------------------------------------
(* With the clock of the tests, lazy advancing cannot be told from the      *)
(* timeline of EndpointTimeline.                                            *)

\* The endpoint a reader of the store would see, with the store a parameter.
At(store, id, now) ==
    Advance(IF id \in DOMAIN store THEN store[id] ELSE Fresh(now), now)

WarmOf(ep) == IF ep.state = "warming" THEN ep.transitionAt + ColdStart ELSE 0
IdleOf(ep) == IF ep.state # "cold" THEN ep.invokeAt + IdleTimeout ELSE 0

\* Endpoints the timeline does not tell apart.
SameView(new, old) ==
    /\ new.state = old.state
    /\ old.state = "warming" => new.transitionAt = old.transitionAt
    /\ old.state # "cold" => new.invokeAt = old.invokeAt

-----------------------------------------------------------------------------
(* The mapping.                                                             *)

LEMMA Views ==
    /\ Life = [id \in Ids |-> At(endpoints, id, clock).state]
    /\ WarmAt = [id \in Ids |-> WarmOf(At(endpoints, id, clock))]
    /\ IdleAt = [id \in Ids |-> IdleOf(At(endpoints, id, clock))]
    /\ Life' = [id \in Ids |-> At(endpoints', id, clock').state]
    /\ WarmAt' = [id \in Ids |-> WarmOf(At(endpoints', id, clock'))]
    /\ IdleAt' = [id \in Ids |-> IdleOf(At(endpoints', id, clock'))]
  <1>1. ASSUME NEW id PROVE Current(id) = At(endpoints, id, clock)
    BY DEF Current, GetOrCreate, At
  <1>2. ASSUME NEW id \in Ids PROVE Current(id)' = At(endpoints', id, clock')
    BY DEF Current, GetOrCreate, At
  <1>3. /\ Life = [id \in Ids |-> At(endpoints, id, clock).state]
        /\ WarmAt = [id \in Ids |-> WarmOf(At(endpoints, id, clock))]
        /\ IdleAt = [id \in Ids |-> IdleOf(At(endpoints, id, clock))]
    BY <1>1 DEF Life, WarmAt, IdleAt, WarmOf, IdleOf
  <1>4. /\ Life' = [id \in Ids |-> At(endpoints', id, clock').state]
        /\ WarmAt' = [id \in Ids |-> WarmOf(At(endpoints', id, clock'))]
        /\ IdleAt' = [id \in Ids |-> IdleOf(At(endpoints', id, clock'))]
    BY <1>2 DEF Life, WarmAt, IdleAt, WarmOf, IdleOf
  <1> QED BY <1>3, <1>4

LEMMA SameViews ==
    ASSUME \A id \in Ids : SameView(At(endpoints', id, clock'), At(endpoints, id, clock))
    PROVE  UNCHANGED <<Life, WarmAt, IdleAt>>
  <1>1. ASSUME NEW id \in Ids
        PROVE  /\ At(endpoints', id, clock').state = At(endpoints, id, clock).state
               /\ WarmOf(At(endpoints', id, clock')) = WarmOf(At(endpoints, id, clock))
               /\ IdleOf(At(endpoints', id, clock')) = IdleOf(At(endpoints, id, clock))
    BY DEF SameView, WarmOf, IdleOf
  <1> QED BY <1>1, Views

\* What is in the store, and what a missing endpoint looks like.
LEMMA AtSound ==
    ASSUME Inv, NEW id \in Ids
    PROVE  /\ clock \in Nat
           /\ Sound(GetOrCreate(id, clock), clock)
           /\ At(endpoints, id, clock) = Advance(GetOrCreate(id, clock), clock)
           /\ Sound(At(endpoints, id, clock), clock)
  <1>1. clock \in Nat
    BY DEF Inv, TypeOK
  <1>2. Sound(GetOrCreate(id, clock), clock)
    BY <1>1, ReadSound
  <1>3. At(endpoints, id, clock) = Advance(GetOrCreate(id, clock), clock)
    BY DEF At, GetOrCreate
  <1> QED BY <1>1, <1>2, <1>3, AdvancedSound

LEMMA AtMissing ==
    ASSUME NEW store, NEW id, id \notin DOMAIN store, NEW now \in Nat
    PROVE  At(store, id, now).state = "cold"
  <1>1. Sound(Fresh(now), now) /\ Fresh(now).state = "cold"
    BY FreshSound
  <1>2. At(store, id, now) = Advance(Fresh(now), now)
    BY DEF At
  <1>3. Advance(Fresh(now), now) = Fresh(now) \/ Advance(Fresh(now), now).state = "cold"
    BY <1>1, AdvancedFields
  <1> QED BY <1>1, <1>2, <1>3

\* A method of the store changes the view of its own endpoint only.
LEMMA AtPut ==
    ASSUME Inv, NEW id \in Ids, NEW ep, endpoints' = Put(id, ep), clock' = clock
    PROVE  /\ At(endpoints', id, clock') = Advance(ep, clock)
           /\ \A x \in Ids : x # id => At(endpoints', x, clock') = At(endpoints, x, clock)
  <1>1. /\ DOMAIN endpoints' = DOMAIN endpoints \cup {id} /\ endpoints'[id] = ep
        /\ \A x \in DOMAIN endpoints : x # id => endpoints'[x] = endpoints[x]
    BY DEF Put
  <1> QED BY <1>1 DEF At

-----------------------------------------------------------------------------
(* advance, seen by the timeline.                                           *)

\* A second call of advance at the same instant finds nothing to do.
LEMMA AdvanceTwice ==
    ASSUME NEW now \in Nat, NEW ep, Sound(ep, now)
    PROVE  Advance(Advance(ep, now), now) = Advance(ep, now)
  <1> DEFINE up == Advance(ep, now)
  <1>1. Sound(up, now) /\ up.invokeAt = ep.invokeAt
    BY AdvancedSound
  <1>2. \/ /\ up = ep
           /\ \/ ep.state = "cold"
              \/ ep.state = "warming" /\ now < ep.transitionAt + ColdStart
              \/ ep.state = "warm" /\ now < ep.invokeAt + IdleTimeout
        \/ up.state = "warm" /\ now < ep.invokeAt + IdleTimeout
        \/ up.state = "cold"
    BY AdvancedFields
  <1> HIDE DEF up
  <1>3. /\ up.state = "warming" => now < up.transitionAt + ColdStart
        /\ up.state = "warm" => now < up.invokeAt + IdleTimeout
    BY <1>1, <1>2
  <1>4. up.transitionAt \in Nat /\ (up.state # "cold" => up.invokeAt \in Nat)
    BY <1>1 DEF Sound, Endpoint
  <1>5. Advance(up, now) = up
    BY <1>1, <1>3, <1>4, AdvancedFields, DurationsAssumption
  <1> QED BY <1>5 DEF up

\* advance does not read the scenario.
LEMMA ScenarioUnseen ==
    ASSUME NEW now \in Nat, NEW ep, Sound(ep, now), NEW new, Sound(new, now),
           new.state = ep.state, new.transitionAt = ep.transitionAt,
           new.invokeAt = ep.invokeAt
    PROVE  SameView(Advance(new, now), Advance(ep, now))
  <1> DEFINE a == Advance(ep, now)
             b == Advance(new, now)
  <1>1. /\ ep.transitionAt \in Nat /\ (ep.state # "cold" => ep.invokeAt \in Nat)
        /\ a.invokeAt = ep.invokeAt /\ b.invokeAt = new.invokeAt
    <2>1. ep.transitionAt \in Nat /\ (ep.state # "cold" => ep.invokeAt \in Nat)
      BY DEF Sound, Endpoint
    <2>2. a.invokeAt = ep.invokeAt /\ b.invokeAt = new.invokeAt
      BY AdvancedSound
    <2> QED BY <2>1, <2>2
  <1>2. \/ /\ a = ep
           /\ \/ ep.state = "cold"
              \/ ep.state = "warming" /\ now < ep.transitionAt + ColdStart
              \/ ep.state = "warm" /\ now < ep.invokeAt + IdleTimeout
        \/ /\ ep.state = "warming" /\ now >= ep.transitionAt + ColdStart
           /\ now < ep.invokeAt + IdleTimeout
           /\ a.state = "warm"
        \/ /\ \/ ep.state = "warm"
              \/ ep.state = "warming" /\ now >= ep.transitionAt + ColdStart
           /\ now >= ep.invokeAt + IdleTimeout
           /\ a.state = "cold"
    BY AdvancedFields
  <1>3. \/ /\ b = new
           /\ \/ new.state = "cold"
              \/ new.state = "warming" /\ now < new.transitionAt + ColdStart
              \/ new.state = "warm" /\ now < new.invokeAt + IdleTimeout
        \/ /\ new.state = "warming" /\ now >= new.transitionAt + ColdStart
           /\ now < new.invokeAt + IdleTimeout
           /\ b.state = "warm"
        \/ /\ \/ new.state = "warm"
              \/ new.state = "warming" /\ now >= new.transitionAt + ColdStart
           /\ now >= new.invokeAt + IdleTimeout
           /\ b.state = "cold"
    BY AdvancedFields
  <1> HIDE DEF a, b
  <1>4. SameView(b, a)
    BY <1>1, <1>2, <1>3, DurationsAssumption DEF SameView
  <1> QED BY <1>4 DEF a, b

\* An endpoint that was just invoked is up to date.
LEMMA InvokedUpToDate ==
    ASSUME NEW now \in Nat, NEW ep, Sound(ep, now)
    PROVE  Advance(Invoked(ep, now), now) = Invoked(ep, now)
  <1> DEFINE up == Advance(ep, now)
             new == Invoked(ep, now)
  <1>1. /\ Sound(new, now) /\ new.invokeAt = now
        /\ up.state = "cold" => new.state = "warming" /\ new.transitionAt = now
        /\ up.state # "cold" => new.state = up.state /\ new.transitionAt = up.transitionAt
    BY InvokedSound
  <1>2. up.state = "warming" => up = ep /\ now < ep.transitionAt + ColdStart
    BY AdvancedFields
  <1> HIDE DEF up, new
  <1>3. /\ new.state = "warming" => now < new.transitionAt + ColdStart
        /\ now < new.invokeAt + IdleTimeout
    BY <1>1, <1>2, DurationsAssumption
  <1>4. new.transitionAt \in Nat /\ new.state # "cold"
    BY <1>1 DEF Sound, Endpoint
  <1>5. Advance(new, now) = new
    BY <1>1, <1>3, <1>4, AdvancedFields, DurationsAssumption
  <1> QED BY <1>5 DEF new

\* One instant later what was due has happened, and nothing else.
LEMMA InstantLater ==
    ASSUME NEW now \in Nat, NEW ep, Sound(ep, now),
           ep.state = "warming" => ep.transitionAt <= ep.invokeAt
    PROVE  LET old == Advance(ep, now)
               new == Advance(ep, now + 1)
           IN  \/ /\ old.state = "warming" /\ old.transitionAt + ColdStart = now + 1
                  /\ new.state = "warm" /\ new.invokeAt = old.invokeAt
               \/ /\ old.state = "warm" /\ old.invokeAt + IdleTimeout = now + 1
                  /\ new.state = "cold"
               \/ /\ old.state = "warming" => old.transitionAt + ColdStart # now + 1
                  /\ old.state = "warm" => old.invokeAt + IdleTimeout # now + 1
                  /\ SameView(new, old)
  <1> DEFINE old == Advance(ep, now)
             new == Advance(ep, now + 1)
  <1>1. /\ ep.transitionAt \in Nat /\ (ep.state # "cold" => ep.invokeAt \in Nat)
        /\ ep.state \in WorkerStates
    BY DEF Sound, Endpoint
  <1>2. Sound(ep, now + 1)
    BY <1>1, ZeroTimeBefore DEF Sound, Endpoint
  <1>3. old.invokeAt = ep.invokeAt /\ new.invokeAt = ep.invokeAt
    BY <1>2, AdvancedSound
  <1>4. \/ /\ old = ep
           /\ \/ ep.state = "cold"
              \/ ep.state = "warming" /\ now < ep.transitionAt + ColdStart
              \/ ep.state = "warm" /\ now < ep.invokeAt + IdleTimeout
        \/ /\ ep.state = "warming" /\ now >= ep.transitionAt + ColdStart
           /\ now < ep.invokeAt + IdleTimeout
           /\ old.state = "warm"
        \/ /\ \/ ep.state = "warm"
              \/ ep.state = "warming" /\ now >= ep.transitionAt + ColdStart
           /\ now >= ep.invokeAt + IdleTimeout
           /\ old.state = "cold"
    BY AdvancedFields
  <1>5. \/ /\ new = ep
           /\ \/ ep.state = "cold"
              \/ ep.state = "warming" /\ now + 1 < ep.transitionAt + ColdStart
              \/ ep.state = "warm" /\ now + 1 < ep.invokeAt + IdleTimeout
        \/ /\ ep.state = "warming" /\ now + 1 >= ep.transitionAt + ColdStart
           /\ now + 1 < ep.invokeAt + IdleTimeout
           /\ new.state = "warm"
        \/ /\ \/ ep.state = "warm"
              \/ ep.state = "warming" /\ now + 1 >= ep.transitionAt + ColdStart
           /\ now + 1 >= ep.invokeAt + IdleTimeout
           /\ new.state = "cold"
    BY <1>2, AdvancedFields
  <1> HIDE DEF old, new
  <1>6. \/ /\ old.state = "warming" /\ old.transitionAt + ColdStart = now + 1
           /\ new.state = "warm" /\ new.invokeAt = old.invokeAt
        \/ /\ old.state = "warm" /\ old.invokeAt + IdleTimeout = now + 1
           /\ new.state = "cold"
        \/ /\ old.state = "warming" => old.transitionAt + ColdStart # now + 1
           /\ old.state = "warm" => old.invokeAt + IdleTimeout # now + 1
           /\ SameView(new, old)
    <2>1. CASE ep.state = "cold"
      BY <1>4, <1>5, <2>1 DEF SameView
    <2>2. CASE ep.state = "warm"
      BY <1>1, <1>3, <1>4, <1>5, <2>2, DurationsAssumption DEF SameView
    <2>3. CASE ep.state = "warming"
      BY <1>1, <1>3, <1>4, <1>5, <2>3, DurationsAssumption DEF SameView
    <2> QED BY <1>1, <2>1, <2>2, <2>3 DEF WorkerStates
  <1> QED BY <1>6 DEF old, new

-----------------------------------------------------------------------------
(* The actions.                                                             *)

LEMMA TickMaps ==
    ASSUME Inv, PunctualInv, Tick
    PROVE  Timeline!Tick
  <1>1. clock \in Nat /\ clock < Horizon /\ clock' = clock + 1 /\ reply' = reply
          /\ endpoints' = endpoints
    BY DEF Tick, Inv, TypeOK
  <1> DEFINE old(id) == At(endpoints, id, clock)
             new(id) == At(endpoints', id, clock')
  <1>2. ASSUME NEW id \in Ids
        PROVE  \/ /\ old(id).state = "warming" /\ old(id).transitionAt + ColdStart = clock + 1
                  /\ new(id).state = "warm" /\ new(id).invokeAt = old(id).invokeAt
               \/ /\ old(id).state = "warm" /\ old(id).invokeAt + IdleTimeout = clock + 1
                  /\ new(id).state = "cold"
               \/ /\ old(id).state = "warming"
                        => old(id).transitionAt + ColdStart # clock + 1
                  /\ old(id).state = "warm" => old(id).invokeAt + IdleTimeout # clock + 1
                  /\ SameView(new(id), old(id))
    <2>1. CASE id \in DOMAIN endpoints
      <3>1. /\ old(id) = Advance(endpoints[id], clock)
            /\ new(id) = Advance(endpoints[id], clock + 1)
        BY <1>1, <2>1 DEF At
      <3>2. Sound(endpoints[id], clock)
              /\ (endpoints[id].state = "warming"
                    => endpoints[id].transitionAt <= endpoints[id].invokeAt)
        BY <2>1 DEF Inv, PunctualInv, InUse
      <3> HIDE DEF old, new
      <3> QED BY <1>1, <3>1, <3>2, InstantLater
    <2>2. CASE id \notin DOMAIN endpoints
      <3>1. old(id).state = "cold" /\ new(id).state = "cold"
        BY <1>1, <2>2, AtMissing
      <3> HIDE DEF old, new
      <3> QED BY <3>1 DEF SameView
    <2> QED BY <2>1, <2>2
  <1>3. /\ Life = [id \in Ids |-> old(id).state]
        /\ WarmAt = [id \in Ids |-> WarmOf(old(id))]
        /\ IdleAt = [id \in Ids |-> IdleOf(old(id))]
        /\ Life' = [id \in Ids |-> new(id).state]
        /\ WarmAt' = [id \in Ids |-> WarmOf(new(id))]
        /\ IdleAt' = [id \in Ids |-> IdleOf(new(id))]
    BY Views
  <1> HIDE DEF old, new
  <1>4. ASSUME NEW id \in Ids
        PROVE  /\ Life'[id] = IF Timeline!BecomesWarm(id) THEN "warm"
                              ELSE IF Timeline!BecomesCold(id) THEN "cold" ELSE Life[id]
               /\ WarmAt'[id] = IF Timeline!BecomesWarm(id) THEN 0 ELSE WarmAt[id]
               /\ IdleAt'[id] = IF Timeline!BecomesCold(id) THEN 0 ELSE IdleAt[id]
    <2>1. /\ Life[id] = old(id).state /\ WarmAt[id] = WarmOf(old(id))
          /\ IdleAt[id] = IdleOf(old(id)) /\ Life'[id] = new(id).state
          /\ WarmAt'[id] = WarmOf(new(id)) /\ IdleAt'[id] = IdleOf(new(id))
      BY <1>3
    <2>2. CASE /\ old(id).state = "warming" /\ old(id).transitionAt + ColdStart = clock + 1
               /\ new(id).state = "warm" /\ new(id).invokeAt = old(id).invokeAt
      BY <2>1, <2>2 DEF Timeline!BecomesWarm, Timeline!BecomesCold, WarmOf, IdleOf
    <2>3. CASE /\ old(id).state = "warm" /\ old(id).invokeAt + IdleTimeout = clock + 1
               /\ new(id).state = "cold"
      BY <2>1, <2>3 DEF Timeline!BecomesWarm, Timeline!BecomesCold, WarmOf, IdleOf
    <2>4. CASE /\ old(id).state = "warming" => old(id).transitionAt + ColdStart # clock + 1
               /\ old(id).state = "warm" => old(id).invokeAt + IdleTimeout # clock + 1
               /\ SameView(new(id), old(id))
      BY <2>1, <2>4
         DEF Timeline!BecomesWarm, Timeline!BecomesCold, WarmOf, IdleOf, SameView
    <2> QED BY <1>2, <2>2, <2>3, <2>4
  <1> DEFINE life == [id \in Ids |-> IF Timeline!BecomesWarm(id) THEN "warm"
                                     ELSE IF Timeline!BecomesCold(id) THEN "cold"
                                     ELSE Life[id]]
             warm == [id \in Ids |-> IF Timeline!BecomesWarm(id) THEN 0 ELSE WarmAt[id]]
             idle == [id \in Ids |-> IF Timeline!BecomesCold(id) THEN 0 ELSE IdleAt[id]]
  <1>5. Life' = life
    BY <1>3, <1>4
  <1>6. WarmAt' = warm
    BY <1>3, <1>4
  <1>7. IdleAt' = idle
    BY <1>3, <1>4
  <1> QED BY <1>1, <1>5, <1>6, <1>7 DEF Timeline!Tick

\* A method that leaves the view of its endpoint alone.
LEMMA PutUnseen ==
    ASSUME Inv, NEW id \in Ids, NEW ep, endpoints' = Put(id, ep), clock' = clock,
           SameView(Advance(ep, clock), Advance(GetOrCreate(id, clock), clock))
    PROVE  UNCHANGED <<clock, Life, WarmAt, IdleAt>>
  <1>1. /\ At(endpoints', id, clock') = Advance(ep, clock)
        /\ \A x \in Ids : x # id => At(endpoints', x, clock') = At(endpoints, x, clock)
    BY AtPut
  <1>2. At(endpoints, id, clock) = Advance(GetOrCreate(id, clock), clock)
    BY AtSound
  <1>3. \A x \in Ids : SameView(At(endpoints', x, clock'), At(endpoints, x, clock))
    BY <1>1, <1>2 DEF SameView
  <1> QED BY <1>3, SameViews

LEMMA ScenarioMaps ==
    ASSUME Inv, NEW id \in Ids, NEW until \in Nat, SetScenario(id, until)
    PROVE  UNCHANGED Timeline!timelineVars
  <1> DEFINE old == GetOrCreate(id, clock)
             new == [old EXCEPT !.failUntil = until]
  <1>1. Sound(old, clock) /\ clock \in Nat
    BY AtSound
  <1>2. endpoints' = Put(id, new) /\ UNCHANGED <<clock, reply>>
    BY DEF SetScenario
  <1>3. Sound(new, clock) /\ new.state = old.state /\ new.invokeAt = old.invokeAt
          /\ new.transitionAt = old.transitionAt
    <2> HIDE DEF old
    <2> QED BY <1>1 DEF Sound, Endpoint
  <1> HIDE DEF new
  <1>4. SameView(Advance(new, clock), Advance(old, clock))
    BY <1>1, <1>3, ScenarioUnseen
  <1> QED BY <1>2, <1>4, PutUnseen DEF Timeline!timelineVars

LEMMA LookupMaps ==
    ASSUME Inv, PunctualInv, NEW r \in Requests, Lookup(r)
    PROVE  UNCHANGED Timeline!timelineVars
  <1> DEFINE id == request[r].id
             old == GetOrCreate(id, clock)
  <1>1. request[r].now = clock /\ id \in Ids /\ clock \in Nat
    BY Present DEF Lookup
  <1>2. endpoints' = Put(id, old) /\ UNCHANGED <<clock, reply>>
    BY <1>1 DEF Lookup
  <1>3. SameView(Advance(old, clock), Advance(old, clock))
    BY DEF SameView
  <1> HIDE DEF id
  <1> QED BY <1>1, <1>2, <1>3, PutUnseen DEF Timeline!timelineVars

LEMMA StatusMaps ==
    ASSUME Inv, PunctualInv, NEW r \in Requests, AnswerStatus(r)
    PROVE  Timeline!Next
  <1> DEFINE id == request[r].id
             old == GetOrCreate(id, clock)
             new == Advance(old, clock)
  <1>1. request[r].now = clock /\ id \in Ids /\ clock \in Nat
    BY Present DEF AnswerStatus
  <1>2. endpoints' = Put(id, new) /\ clock' = clock /\ reply' = new.state
    BY <1>1 DEF AnswerStatus
  <1> HIDE DEF id
  <1>3. Sound(old, clock) /\ At(endpoints, id, clock) = new
    BY <1>1, AtSound
  <1>4. SameView(Advance(new, clock), Advance(old, clock))
    BY <1>1, <1>3, AdvanceTwice DEF SameView
  <1>5. UNCHANGED <<clock, Life, WarmAt, IdleAt>>
    BY <1>1, <1>2, <1>4, PutUnseen
  <1>6. Life[id] = new.state
    BY <1>1, <1>3, Views
  <1>7. Timeline!Status(id)
    BY <1>2, <1>5, <1>6 DEF Timeline!Status
  <1> QED BY <1>1, <1>7 DEF Timeline!Next

LEMMA InvokeMaps ==
    ASSUME Inv, PunctualInv, NEW r \in Requests, AnswerInvoke(r)
    PROVE  Timeline!Next
  <1> DEFINE id == request[r].id
             old == GetOrCreate(id, clock)
             up == Advance(old, clock)
             new == Invoked(old, clock)
  <1>1. request[r].now = clock /\ id \in Ids /\ clock \in Nat
    BY Present DEF AnswerInvoke
  <1>2. endpoints' = Put(id, new) /\ clock' = clock /\ reply' = new.state
    BY <1>1 DEF AnswerInvoke
  <1> HIDE DEF id
  <1>3. Sound(old, clock) /\ At(endpoints, id, clock) = up /\ Advance(new, clock) = new
    BY <1>1, AtSound, InvokedUpToDate
  <1>4. /\ new.invokeAt = clock
        /\ up.state = "cold" => new.state = "warming" /\ new.transitionAt = clock
        /\ up.state # "cold" => new.state = up.state /\ new.transitionAt = up.transitionAt
    BY <1>1, <1>3, InvokedSound
  <1> HIDE DEF old, up, new
  <1>5. /\ At(endpoints', id, clock') = new
        /\ \A x \in Ids : x # id => At(endpoints', x, clock') = At(endpoints, x, clock)
    BY <1>1, <1>2, <1>3, AtPut
  <1>6. /\ Life' = [Life EXCEPT ![id] = new.state]
        /\ WarmAt' = [WarmAt EXCEPT ![id] = WarmOf(new)]
        /\ IdleAt' = [IdleAt EXCEPT ![id] = IdleOf(new)]
        /\ Life[id] = up.state /\ WarmAt[id] = WarmOf(up)
        /\ WarmAt = [WarmAt EXCEPT ![id] = WarmAt[id]]
        /\ Life = [Life EXCEPT ![id] = Life[id]]
    BY <1>1, <1>3, <1>5, Views
  <1>7. CASE up.state = "cold"
    <2>1. Timeline!Wake(id)
      BY <1>2, <1>4, <1>6, <1>7 DEF Timeline!Wake, WarmOf, IdleOf
    <2> QED BY <1>1, <2>1 DEF Timeline!Next
  <1>8. CASE up.state # "cold"
    <2>1. WarmOf(new) = WarmAt[id] /\ IdleOf(new) = clock + IdleTimeout
            /\ new.state = Life[id]
      BY <1>4, <1>6, <1>8 DEF WarmOf, IdleOf
    <2>2. Timeline!Use(id)
      BY <1>2, <1>6, <1>8, <2>1 DEF Timeline!Use
    <2> QED BY <1>1, <2>2 DEF Timeline!Next
  <1> QED BY <1>7, <1>8

LEMMA ResetMaps ==
    ASSUME Inv, Reset
    PROVE  Timeline!Next
  <1>1. DOMAIN endpoints' = {} /\ clock' = clock /\ reply' = reply /\ clock' \in Nat
    BY DEF Reset, Inv, TypeOK
  <1>2. \A id \in Ids : At(endpoints', id, clock').state = "cold"
    BY <1>1, AtMissing
  <1>3. /\ Life' = [id \in Ids |-> "cold"] /\ WarmAt' = [id \in Ids |-> 0]
        /\ IdleAt' = [id \in Ids |-> 0]
    BY <1>2, Views DEF WarmOf, IdleOf
  <1> QED BY <1>1, <1>3 DEF Timeline!Next, Timeline!Reset

\* Steps that leave the store alone.
LEMMA StoreAlone ==
    ASSUME UNCHANGED <<clock, endpoints>>
    PROVE  UNCHANGED <<clock, Life, WarmAt, IdleAt>>
  BY SameViews DEF SameView

LEMMA InitMaps == Init => Timeline!Init
  <1> SUFFICES ASSUME Init PROVE Timeline!Init
    OBVIOUS
  <1>1. DOMAIN endpoints = {} /\ clock = 0 /\ reply = "none"
    BY DEF Init
  <1>2. \A id \in Ids : At(endpoints, id, clock).state = "cold"
    BY <1>1, AtMissing
  <1>3. /\ Life = [id \in Ids |-> "cold"] /\ WarmAt = [id \in Ids |-> 0]
        /\ IdleAt = [id \in Ids |-> 0]
    BY <1>2, Views DEF WarmOf, IdleOf
  <1> QED BY <1>1, <1>3 DEF Timeline!Init

LEMMA NextMaps ==
    ASSUME Inv, PunctualInv, [Next]_mockVars
    PROVE  [Timeline!Next]_(Timeline!timelineVars)
  <1>1. CASE UNCHANGED mockVars
    BY <1>1, StoreAlone DEF mockVars, Timeline!timelineVars
  <1>2. CASE Tick
    BY <1>2, TickMaps DEF Timeline!Next
  <1>3. CASE Reset
    BY <1>3, ResetMaps
  <1>4. ASSUME NEW id \in Ids, NEW until \in {0, clock + FailFor}, SetScenario(id, until)
        PROVE  UNCHANGED Timeline!timelineVars
    <2>1. until \in Nat
      BY BoundsAssumption DEF Inv, TypeOK
    <2> QED BY <1>4, <2>1, ScenarioMaps
  <1>5. ASSUME NEW r \in Requests, NEW kind \in {"status", "invoke"}, NEW id \in Ids,
               Arrive(r, kind, id)
        PROVE  UNCHANGED Timeline!timelineVars
    <2>1. UNCHANGED <<clock, endpoints, reply>>
      BY <1>5 DEF Arrive
    <2> QED BY <2>1, StoreAlone DEF Timeline!timelineVars
  <1>6. ASSUME NEW r \in Requests, Refuse(r)
        PROVE  Timeline!Next
    <2>1. UNCHANGED <<clock, endpoints>> /\ reply' = "failed"
      BY <1>6 DEF Refuse
    <2> QED BY <2>1, StoreAlone DEF Timeline!Next, Timeline!Refuse
  <1> QED
    BY <1>1, <1>2, <1>3, <1>4, <1>5, <1>6, LookupMaps, StatusMaps, InvokeMaps DEF Next

\* A store that brings an endpoint up to date only when a request touches it
\* answers as one that is always up to date would, while the clock stands still
\* during a request: no transition is missed, doubled or reported early.
THEOREM TimelineKept == VirtualClock /\ Spec => ImplementsTimeline
  <1>1. Inv /\ PunctualInv /\ [Next]_mockVars => [Timeline!Next]_(Timeline!timelineVars)
    BY NextMaps
  <1> QED BY InvHolds, Punctual, InitMaps, <1>1, PTL DEF Spec, ImplementsTimeline, Timeline!Spec

-----------------------------------------------------------------------------
(* What the timeline is good for.  It acts on an instant only when the      *)
(* clock reaches it, so one that was missed would be missed for ever.       *)

\* What the provers need of a timeline: the clock of the store, its tables as
\* functions, and none of its due instants passed.
TimelineSound ==
    /\ clock \in Nat
    /\ Timeline!OnTime

LEMMA TickOnTime ==
    ASSUME TimelineSound, Timeline!Tick
    PROVE  TimelineSound'
  <1>1. clock \in Nat /\ clock' = clock + 1 /\ clock' \in Nat
    BY DEF TimelineSound, Timeline!Tick
  <1>2. ASSUME NEW id \in Ids
        PROVE  /\ Life'[id] \in {"cold", "warming", "warm"}
               /\ IF Life'[id] = "warming"
                  THEN /\ WarmAt'[id] \in clock' + 1 .. clock' + ColdStart
                       /\ WarmAt'[id] < IdleAt'[id]
                  ELSE WarmAt'[id] = 0
               /\ IF Life'[id] # "cold"
                  THEN IdleAt'[id] \in clock' + 1 .. clock' + IdleTimeout
                  ELSE IdleAt'[id] = 0
    <2>1. /\ Life[id] \in {"cold", "warming", "warm"}
          /\ IF Life[id] = "warming"
             THEN WarmAt[id] \in clock + 1 .. clock + ColdStart /\ WarmAt[id] < IdleAt[id]
             ELSE WarmAt[id] = 0
          /\ IF Life[id] # "cold"
             THEN IdleAt[id] \in clock + 1 .. clock + IdleTimeout
             ELSE IdleAt[id] = 0
      BY DEF TimelineSound, Timeline!OnTime
    <2>2. /\ Life'[id] = IF Timeline!BecomesWarm(id) THEN "warm"
                         ELSE IF Timeline!BecomesCold(id) THEN "cold" ELSE Life[id]
          /\ WarmAt'[id] = IF Timeline!BecomesWarm(id) THEN 0 ELSE WarmAt[id]
          /\ IdleAt'[id] = IF Timeline!BecomesCold(id) THEN 0 ELSE IdleAt[id]
      BY DEF Timeline!Tick
    <2>3. CASE Life[id] = "cold"
      BY <2>1, <2>2, <2>3 DEF Timeline!BecomesWarm, Timeline!BecomesCold
    <2>4. CASE Life[id] = "warming"
      BY <1>1, <2>1, <2>2, <2>4, DurationsAssumption
         DEF Timeline!BecomesWarm, Timeline!BecomesCold
    <2>5. CASE Life[id] = "warm"
      BY <1>1, <2>1, <2>2, <2>5, DurationsAssumption
         DEF Timeline!BecomesWarm, Timeline!BecomesCold
    <2> QED BY <2>1, <2>3, <2>4, <2>5
  <1> QED BY <1>1, <1>2 DEF TimelineSound, Timeline!OnTime

\* Tables of which only the entry of one endpoint changes.
LEMMA EntryOnTime ==
    ASSUME TimelineSound, NEW id \in Ids, clock' = clock,
           \A x \in Ids \ {id} : /\ Life'[x] = Life[x] /\ WarmAt'[x] = WarmAt[x]
                                 /\ IdleAt'[x] = IdleAt[x],
           Life'[id] \in {"warming", "warm"},
           IF Life'[id] = "warming"
           THEN WarmAt'[id] \in clock + 1 .. clock + ColdStart
           ELSE WarmAt'[id] = 0,
           IdleAt'[id] = clock + IdleTimeout
    PROVE  TimelineSound'
  <1>1. clock \in Nat /\ clock' \in Nat
    BY DEF TimelineSound
  <1>2. Life'[id] = "warming" => WarmAt'[id] < IdleAt'[id]
    BY <1>1, DurationsAssumption
  <1>3. IdleAt'[id] \in clock + 1 .. clock + IdleTimeout
    BY <1>1, DurationsAssumption
  <1> QED BY <1>1, <1>2, <1>3 DEF TimelineSound, Timeline!OnTime

LEMMA OnTimeNext ==
    ASSUME TimelineSound, [Timeline!Next]_(Timeline!timelineVars)
    PROVE  TimelineSound'
  <1>1. CASE Timeline!Tick
    BY <1>1, TickOnTime
  <1>2. ASSUME NEW id \in Ids, Timeline!Wake(id)
        PROVE  TimelineSound'
    <2>1. /\ Life' = [Life EXCEPT ![id] = "warming"]
          /\ WarmAt' = [WarmAt EXCEPT ![id] = clock + ColdStart]
          /\ IdleAt' = [IdleAt EXCEPT ![id] = clock + IdleTimeout]
          /\ clock' = clock /\ clock \in Nat
      BY <1>2 DEF Timeline!Wake, TimelineSound
    <2>2. DOMAIN Life = Ids /\ DOMAIN WarmAt = Ids /\ DOMAIN IdleAt = Ids
      BY DEF Life, WarmAt, IdleAt
    <2>3. clock + ColdStart \in clock + 1 .. clock + ColdStart
      BY <2>1, DurationsAssumption
    <2> QED BY <2>1, <2>2, <2>3, EntryOnTime
  <1>3. ASSUME NEW id \in Ids, Timeline!Use(id)
        PROVE  TimelineSound'
    <2>1. /\ Life' = Life /\ WarmAt' = WarmAt /\ Life[id] # "cold"
          /\ IdleAt' = [IdleAt EXCEPT ![id] = clock + IdleTimeout]
          /\ clock' = clock
      BY <1>3 DEF Timeline!Use
    <2>2. DOMAIN IdleAt = Ids
      BY DEF IdleAt
    <2>3. /\ Life[id] \in {"warming", "warm"}
          /\ IF Life[id] = "warming"
             THEN WarmAt[id] \in clock + 1 .. clock + ColdStart
             ELSE WarmAt[id] = 0
      BY <2>1 DEF TimelineSound, Timeline!OnTime
    <2> QED BY <2>1, <2>2, <2>3, EntryOnTime
  <1>4. CASE Timeline!Reset
    BY <1>4 DEF Timeline!Reset, TimelineSound, Timeline!OnTime
  <1>5. ASSUME UNCHANGED <<clock, Life, WarmAt, IdleAt>>
        PROVE  TimelineSound'
    BY <1>5 DEF TimelineSound, Timeline!OnTime
  <1>6. ASSUME \/ \E id \in Ids : Timeline!Status(id)
               \/ Timeline!Refuse
               \/ UNCHANGED Timeline!timelineVars
        PROVE  UNCHANGED <<clock, Life, WarmAt, IdleAt>>
    BY <1>6 DEF Timeline!Status, Timeline!Refuse, Timeline!timelineVars
  <1> QED BY <1>1, <1>2, <1>3, <1>4, <1>5, <1>6 DEF Timeline!Next

\* A reader of the store, at any instant, meets no endpoint that should have
\* become warm or cold before: a cold start lasts no longer than ColdStart and
\* no idle endpoint outlives IdleTimeout, although nothing runs in between.
THEOREM StoreOnTime == VirtualClock /\ Spec => []Timeline!OnTime
  <1>1. Timeline!Init => TimelineSound
    BY DEF Timeline!Init, TimelineSound, Timeline!OnTime
  <1>2. TimelineSound => Timeline!OnTime
    BY DEF TimelineSound
  <1> QED BY TimelineKept, <1>1, <1>2, OnTimeNext, PTL DEF ImplementsTimeline, Timeline!Spec
=============================================================================
