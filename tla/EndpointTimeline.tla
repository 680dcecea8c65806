-------------------------- MODULE EndpointTimeline --------------------------
(***************************************************************************)
(* What the mock provider simulates: endpoints that change state by        *)
(* themselves, at the instant they are due.  An invoked cold endpoint is   *)
(* warm ColdStart later, and a warm one is cold IdleTimeout after its last *)
(* invocation.  Replies report the state of that instant.                  *)
(***************************************************************************)
EXTENDS Naturals

CONSTANTS Ids, ColdStart, IdleTimeout, Horizon

VARIABLES
    clock,
    life,     \* "cold", "warming" or "warm", for each endpoint
    warmAt,   \* when a warming endpoint will be warm, 0 for the others
    idleAt,   \* when an endpoint that is not cold will be, 0 for the others
    reply     \* the state the last reply reported, or "failed"

timelineVars == <<clock, life, warmAt, idleAt, reply>>

Init ==
    /\ clock = 0
    /\ life = [id \in Ids |-> "cold"]
    /\ warmAt = [id \in Ids |-> 0]
    /\ idleAt = [id \in Ids |-> 0]
    /\ reply = "none"

BecomesWarm(id) == life[id] = "warming" /\ warmAt[id] = clock + 1
BecomesCold(id) == life[id] = "warm" /\ idleAt[id] = clock + 1

\* Time passes, and what is due happens.
Tick ==
    /\ clock < Horizon
    /\ clock' = clock + 1
    /\ life' = [id \in Ids |-> IF BecomesWarm(id) THEN "warm"
                               ELSE IF BecomesCold(id) THEN "cold"
                               ELSE life[id]]
    /\ warmAt' = [id \in Ids |-> IF BecomesWarm(id) THEN 0 ELSE warmAt[id]]
    /\ idleAt' = [id \in Ids |-> IF BecomesCold(id) THEN 0 ELSE idleAt[id]]
    /\ UNCHANGED reply

Status(id) ==
    /\ reply' = life[id]
    /\ UNCHANGED <<clock, life, warmAt, idleAt>>

\* An invocation wakes a cold endpoint and keeps every other one from idling.
Wake(id) ==
    /\ life[id] = "cold"
    /\ life' = [life EXCEPT ![id] = "warming"]
    /\ warmAt' = [warmAt EXCEPT ![id] = clock + ColdStart]
    /\ idleAt' = [idleAt EXCEPT ![id] = clock + IdleTimeout]
    /\ reply' = "warming"
    /\ UNCHANGED clock

Use(id) ==
    /\ life[id] # "cold"
    /\ idleAt' = [idleAt EXCEPT ![id] = clock + IdleTimeout]
    /\ reply' = life[id]
    /\ UNCHANGED <<clock, life, warmAt>>

\* An injected failure is answered without touching the endpoint.
Refuse ==
    /\ reply' = "failed"
    /\ UNCHANGED <<clock, life, warmAt, idleAt>>

Reset ==
    /\ life' = [id \in Ids |-> "cold"]
    /\ warmAt' = [id \in Ids |-> 0]
    /\ idleAt' = [id \in Ids |-> 0]
    /\ UNCHANGED <<clock, reply>>

Next == \/ Tick
        \/ \E id \in Ids : Status(id) \/ Wake(id) \/ Use(id)
        \/ Refuse
        \/ Reset

Spec == Init /\ [][Next]_timelineVars

\* No due instant has passed: an endpoint is warming for ColdStart at most and
\* outlasts that, and is warm for IdleTimeout after its last invocation at most.
OnTime ==
    \A id \in Ids :
        /\ life[id] \in {"cold", "warming", "warm"}
        /\ IF life[id] = "warming"
           THEN warmAt[id] \in clock + 1 .. clock + ColdStart /\ warmAt[id] < idleAt[id]
           ELSE warmAt[id] = 0
        /\ IF life[id] # "cold"
           THEN idleAt[id] \in clock + 1 .. clock + IdleTimeout
           ELSE idleAt[id] = 0
=============================================================================
