---------------------------- MODULE MockProvider ----------------------------
(***************************************************************************)
(* The mock GPU provider of backend/internal/mockprovider: a store of      *)
(* simulated endpoints behind a mutex, and the HTTP handlers that read the *)
(* clock once, wait out an injected latency and then use the store.        *)
(*                                                                         *)
(* Endpoints are advanced lazily: a stored state is only brought up to     *)
(* date by the next request that touches it.  Time is counted in units     *)
(* that divide ColdStart and IdleTimeout.                                  *)
(***************************************************************************)
EXTENDS Integers

CONSTANTS
    Ids,           \* endpoint ids
    Requests,      \* handler goroutines, each serving one request at a time
    ColdStart,     \* ColdStartDuration
    IdleTimeout,   \* IdleTimeout
    Horizon,       \* bound: the clock stops here
    FailFor,       \* how long an injected failure lasts
    VirtualClock   \* TRUE: the tests' clock, which moves only between requests

ASSUME DurationsAssumption ==      \* 8 seconds and 5 minutes in the code
    /\ ColdStart \in Nat \ {0} /\ IdleTimeout \in Nat \ {0}
    /\ ColdStart < IdleTimeout
ASSUME IdsAssumption == Ids # {}
ASSUME BoundsAssumption ==
    Horizon \in Nat /\ FailFor \in Nat \ {0} /\ VirtualClock \in BOOLEAN

VARIABLES
    clock,      \* what Clock.Now() returns
    endpoints,  \* Store.endpoints: a map from the ids seen so far
    request,    \* the local variables of each handler
    reply,      \* the worker state the last reply reported, or "failed"
    lastUse     \* history: the latest instant an endpoint was invoked for

mockVars == <<clock, endpoints, request, reply, lastUse>>

WorkerStates == {"cold", "warming", "warm"}
ZeroTime == -IdleTimeout - 1       \* the zero time.Time, long before any now

\* EndpointState; the scenario is the instant its injected failure ends, 0
\* when there is none.  WorkersMin has no writer in the code.
Fresh(now) == [state |-> "cold", count |-> 0, min |-> 0, transitionAt |-> now,
               invokeAt |-> ZeroTime, failUntil |-> 0]

Endpoint == [state : WorkerStates, count : {0, 1}, min : {0}, transitionAt : Nat,
             invokeAt : Nat \cup {ZeroTime}, failUntil : Nat]

\* A handler goroutine between two requests has no local variables.
NoRequest == [at |-> "idle", kind |-> "status", id |-> CHOOSE id \in Ids : TRUE,
              now |-> 0, failUntil |-> 0]

Request == [at : {"idle", "arrived", "delayed"}, kind : {"status", "invoke"},
            id : Ids, now : Nat, failUntil : Nat]

-----------------------------------------------------------------------------
(* The pure part: advance.                                                  *)

AdvanceWarm(ep, now) ==
    IF ep.state = "warm" /\ ep.min = 0 /\ now >= ep.invokeAt + IdleTimeout
    THEN [ep EXCEPT !.state = "cold", !.count = 0,
                    !.transitionAt = ep.invokeAt + IdleTimeout]
    ELSE ep

\* Broken: warm before the cold start is over.
AdvanceWarmingEarly(ep, now) ==
    IF ep.state = "warming" /\ now + 1 >= ep.transitionAt + ColdStart
    THEN [ep EXCEPT !.state = "warm", !.count = 1, !.transitionAt = @ + ColdStart]
    ELSE ep

AdvanceWarming(ep, now) ==
    IF ep.state = "warming" /\ now >= ep.transitionAt + ColdStart
    THEN [ep EXCEPT !.state = "warm", !.count = 1, !.transitionAt = @ + ColdStart]
    ELSE ep

\* Broken: one transition per call, although now may be past both.
AdvanceOnce(ep, now) ==
    IF ep.state = "warming" THEN AdvanceWarming(ep, now) ELSE AdvanceWarm(ep, now)

\* The loop of advance: warming may become warm and that at once cold, where
\* the loop stops; a cold endpoint stays cold.
Advance(ep, now) == AdvanceWarm(AdvanceWarming(ep, now), now)

\* Broken: an invocation of a warming endpoint starts its cold start again.
InvokedRestarting(ep, now) ==
    LET up == Advance(ep, now)
    IN  IF up.state # "warm"
        THEN [up EXCEPT !.state = "warming", !.transitionAt = now, !.invokeAt = now]
        ELSE [up EXCEPT !.invokeAt = now]

\* What Invoke does to the endpoint, with the now its handler captured.
Invoked(ep, now) ==
    LET up == Advance(ep, now)
    IN  IF up.state = "cold"
        THEN [up EXCEPT !.state = "warming", !.transitionAt = now, !.invokeAt = now]
        ELSE [up EXCEPT !.invokeAt = now]

-----------------------------------------------------------------------------
(* The store.  Each of its methods is one critical section of Store.mu.     *)

GetOrCreate(id, now) ==
    IF id \in DOMAIN endpoints THEN endpoints[id] ELSE Fresh(now)

Put(id, ep) ==
    [x \in DOMAIN endpoints \cup {id} |-> IF x = id THEN ep ELSE endpoints[x]]

Init ==
    /\ clock = 0
    /\ endpoints = [id \in {} |-> Fresh(0)]
    /\ request = [r \in Requests |-> NoRequest]
    /\ reply = "none"
    /\ lastUse = [id \in Ids |-> ZeroTime]

Tick ==
    /\ clock < Horizon
    /\ VirtualClock => \A r \in Requests : request[r] = NoRequest
    /\ clock' = clock + 1
    /\ UNCHANGED <<endpoints, request, reply, lastUse>>

SetScenario(id, until) ==
    /\ endpoints' = Put(id, [GetOrCreate(id, clock) EXCEPT !.failUntil = until])
    /\ UNCHANGED <<clock, request, reply, lastUse>>

Reset ==
    /\ endpoints' = [id \in {} |-> Fresh(0)]
    /\ lastUse' = [id \in Ids |-> ZeroTime]
    /\ UNCHANGED <<clock, request, reply>>

-----------------------------------------------------------------------------
(* handleGetStatus and handleInvoke.                                        *)

\* now := clock.Now()
Arrive(r, kind, id) ==
    /\ request[r] = NoRequest
    /\ request' = [request EXCEPT ![r] =
                     [at |-> "arrived", kind |-> kind, id |-> id, now |-> clock,
                      failUntil |-> 0]]
    /\ UNCHANGED <<clock, endpoints, reply, lastUse>>

\* scenario := store.Get(id, now).Scenario; the injected latency follows.
Lookup(r) ==
    LET q == request[r]
        ep == GetOrCreate(q.id, q.now)
    IN  /\ q.at = "arrived"
        /\ endpoints' = Put(q.id, ep)
        /\ request' = [request EXCEPT ![r].at = "delayed",
                                      ![r].failUntil = ep.failUntil]
        /\ UNCHANGED <<clock, reply, lastUse>>

\* applyFailureHeader compares the captured now with the scenario looked up.
Failing(q) == q.now < q.failUntil

Refuse(r) ==
    /\ request[r].at = "delayed"
    /\ Failing(request[r])
    /\ request' = [request EXCEPT ![r] = NoRequest]
    /\ reply' = "failed"
    /\ UNCHANGED <<clock, endpoints, lastUse>>

\* store.Status(id, now) and the response.
AnswerStatus(r) ==
    LET q == request[r]
        ep == Advance(GetOrCreate(q.id, q.now), q.now)
    IN  /\ q.at = "delayed" /\ q.kind = "status"
        /\ ~Failing(q)
        /\ endpoints' = Put(q.id, ep)
        /\ reply' = ep.state
        /\ request' = [request EXCEPT ![r] = NoRequest]
        /\ UNCHANGED <<clock, lastUse>>

\* store.Invoke(id, now) and the response, a cold start unless it is warm.
AnswerInvoke(r) ==
    LET q == request[r]
        ep == Invoked(GetOrCreate(q.id, q.now), q.now)
    IN  /\ q.at = "delayed" /\ q.kind = "invoke"
        /\ ~Failing(q)
        /\ endpoints' = Put(q.id, ep)
        /\ reply' = ep.state
        /\ lastUse' = [lastUse EXCEPT ![q.id] = IF q.now > @ THEN q.now ELSE @]
        /\ request' = [request EXCEPT ![r] = NoRequest]
        /\ UNCHANGED clock

Next ==
    \/ Tick
    \/ Reset
    \/ \E id \in Ids, until \in {0, clock + FailFor} : SetScenario(id, until)
    \/ \E r \in Requests :
          \/ \E kind \in {"status", "invoke"}, id \in Ids : Arrive(r, kind, id)
          \/ Lookup(r) \/ Refuse(r) \/ AnswerStatus(r) \/ AnswerInvoke(r)

Spec == Init /\ [][Next]_mockVars

-----------------------------------------------------------------------------
(* Properties.                                                              *)

\* Types; the reported worker count is 1 exactly while the endpoint is warm,
\* through every order of late requests and jumps over several transitions; and
\* no transition and no invocation lies in the future of the clock.
TypeOK ==
    /\ clock \in Nat
    /\ DOMAIN endpoints \subseteq Ids
    /\ \A id \in DOMAIN endpoints :
          LET ep == endpoints[id]
          IN  /\ ep \in Endpoint
              /\ ep.count = IF ep.state = "warm" THEN 1 ELSE 0
              /\ ep.transitionAt <= clock /\ ep.invokeAt <= clock
    /\ request \in [Requests -> Request]
    /\ reply \in WorkerStates \cup {"none", "failed"}
    /\ lastUse \in [Ids -> Nat \cup {ZeroTime}]

\* A cold start under way is not prolonged: concurrent and late invocations
\* leave the instant it began alone, and another begins only when it is over and
\* the endpoint has been idle after it.
ColdStartNotRestarted ==
    [][\A id \in DOMAIN endpoints \cap DOMAIN endpoints' :
          endpoints[id].state = "warming" /\ endpoints'[id].state = "warming"
             => \/ endpoints'[id].transitionAt = endpoints[id].transitionAt
                \/ /\ endpoints'[id].transitionAt >= endpoints[id].transitionAt + ColdStart
                   /\ endpoints'[id].transitionAt >=
                         endpoints[id].invokeAt + IdleTimeout]_mockVars

\* An endpoint that went cold had been idle for IdleTimeout, counted from the
\* latest instant it was invoked for.
IdleHonoured ==
    \A id \in DOMAIN endpoints :
       endpoints[id].state = "cold" /\ lastUse[id] # ZeroTime
          => endpoints[id].transitionAt >= lastUse[id] + IdleTimeout

-----------------------------------------------------------------------------
(* What a reader of the store would see if it were always up to date.       *)

Current(id) == Advance(GetOrCreate(id, clock), clock)

Life == [id \in Ids |-> Current(id).state]
WarmAt == [id \in Ids |-> IF Current(id).state = "warming"
                          THEN Current(id).transitionAt + ColdStart ELSE 0]
IdleAt == [id \in Ids |-> IF Current(id).state # "cold"
                          THEN Current(id).invokeAt + IdleTimeout ELSE 0]

Timeline == INSTANCE EndpointTimeline WITH
                life <- Life, warmAt <- WarmAt, idleAt <- IdleAt

\* Lazy advancing cannot be told from a timeline that is always up to date, as
\* long as the clock does not move while a request is being served.
ImplementsTimeline == Timeline!Spec
=============================================================================
