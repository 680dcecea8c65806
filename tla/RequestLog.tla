----------------------------- MODULE RequestLog -----------------------------
(***************************************************************************)
(* The completion log of api/middleware: RequestLogger runs a handler with *)
(* a fresh requestContext, goroutines of the handler add attributes to it  *)
(* with AddAttrs, and when the handler returns one line is written with    *)
(* the attributes collected so far.  Goroutines may outlive their handler, *)
(* and a handler may panic, which net/http recovers from.                  *)
(*                                                                         *)
(* An attribute is a key and a value.  A key is a spelling with the name   *)
(* it has once lower-cased and with "-" and "." read as "_".  A value is a *)
(* scalar, an opaque Any, a group of attributes, or a LogValuer.           *)
(***************************************************************************)
EXTENDS Naturals, Sequences, FiniteSets

CONSTANTS
    Requests,         \* the requests served
    Routes,           \* the patterns chi may report, "" when none matched
    Codes,            \* the statuses handlers write
    Keys,             \* spellings of attribute keys
    NameOf,           \* the name isSafeRequestAttr gives to a spelling
    Protected,        \* protectedRequestAttrKeys
    Attrs,            \* the attributes of calls, closed under Members
    Calls,            \* the argument lists of AddAttrs
    MaxRequestAttrs,  \* the cap on collected attributes
    MaxCalls          \* bound: AddAttrs calls made for one request

Values == {"scalar", "any", "apiKey", "provider", "redacted", "nested", "deep"}

Attr(k, v) == [key |-> k, value |-> v]

\* The members of the group that Resolve makes of a value: LogValue of APIKey
\* and Provider, and groups of the caller.  Secret, APIKeyHash and
\* ProviderCredentials are "redacted": they resolve to a string.
Members(v) ==
    CASE v = "apiKey" -> {Attr("id", "scalar"), Attr("key_hash", "scalar")}
      [] v = "provider" -> {Attr("id", "scalar"),
                            Attr("credentials_encrypted", "scalar")}
      [] v = "nested" -> {Attr("id", "scalar"), Attr("outcome", "any")}
      [] v = "deep" -> {Attr("id", "redacted"), Attr("outcome", "nested")}
      [] OTHER -> {}

ASSUME KeysAssumption == "" \in Keys /\ NameOf[""] = ""
ASSUME AttrsAssumption ==
    /\ Attrs \subseteq [key : Keys, value : Values]
    /\ \A a \in Attrs : Members(a.value) \subseteq Attrs
ASSUME CallsAssumption == Calls \subseteq Seq(Attrs)
ASSUME BoundsAssumption == MaxRequestAttrs \in Nat \ {0} /\ MaxCalls \in Nat

VARIABLES
    level,     \* the level of the logger: LOG_LEVEL
    phase,     \* where RequestLogger is with a request
    route,     \* the pattern the router matched
    written,   \* the status the handler wrote first, 0 for none
    collected, \* requestContext.attrs
    adding,    \* the arguments left to the call that holds requestContext.mu
    line,      \* the completion lines of a request, each the attributes it has
    calls,     \* AddAttrs calls made for a request
    offered,   \* history: the arguments of these calls, in the lock's order
    seen       \* history: the part of them made when the line was written

reqVars == <<phase, route, written>>
ctxVars == <<collected, adding>>
vars == <<level, reqVars, ctxVars, line, calls, offered, seen>>

Phases == {"new", "serving", "returned", "done", "panicked"}
None == <<>>
Unlocked == [held |-> FALSE, rest |-> None]

\* The levels of slog, from the least severe on.
Severity == [debug |-> 0, info |-> 1, warn |-> 2, error |-> 3]

\* A record less severe than the logger's level is discarded.
Enabled(severity) == Severity[severity] >= Severity[level]

Init ==
    /\ level \in DOMAIN Severity
    /\ phase = [r \in Requests |-> "new"]
    /\ route = [r \in Requests |-> ""]
    /\ written = [r \in Requests |-> 0]
    /\ collected = [r \in Requests |-> None]
    /\ adding = [r \in Requests |-> Unlocked]
    /\ line = [r \in Requests |-> None]
    /\ calls = [r \in Requests |-> 0]
    /\ offered = [r \in Requests |-> None]
    /\ seen = [r \in Requests |-> None]

-----------------------------------------------------------------------------
(* Which attributes a line may carry.                                       *)

\* Broken: the key is compared as it is spelled.
AsSpelled(key) == key

\* Case is folded, and "-" and "." are read as "_".
CanonicalName(key) == NameOf[key]

\* isSafeRequestAttr.
SafeRequestAttr[a \in Attrs] ==
    /\ CanonicalName(a.key) \notin Protected \cup {""}
    /\ a.value # "any"
    /\ \A m \in Members(a.value) : SafeRequestAttr[m]

-----------------------------------------------------------------------------
(* The requestContext that withRequestContext makes for each request,       *)
(* guarded by its mutex.                                                    *)

\* AddAttrs takes the lock.  Its caller may be a goroutine that outlived the
\* handler; without RequestLogger there is no context and nothing happens.
AddAttrs(r, args) ==
    /\ phase[r] # "new"
    /\ calls[r] < MaxCalls
    /\ ~adding[r].held
    /\ adding' = [adding EXCEPT ![r] = [held |-> TRUE, rest |-> args]]
    /\ calls' = [calls EXCEPT ![r] = @ + 1]
    /\ offered' = [offered EXCEPT ![r] = @ \o args]
    /\ UNCHANGED <<level, reqVars, collected, line, seen>>

\* One iteration of its loop: an unsafe attribute is passed over.
AddNext(r) ==
    LET a == Head(adding[r].rest)
    IN  /\ adding[r].rest # None
        /\ adding' = [adding EXCEPT ![r].rest = Tail(@)]
        /\ collected' = IF SafeRequestAttr[a]
                        THEN [collected EXCEPT ![r] = Append(@, a)]
                        ELSE collected
        /\ UNCHANGED <<level, reqVars, line, calls, offered, seen>>

HasRoom(r) == Len(collected[r]) < MaxRequestAttrs

\* Broken: the cap is tested against what the line may carry in all.
AddOneTooMany(r) == Len(collected[r]) <= MaxRequestAttrs /\ AddNext(r)

Add(r) == HasRoom(r) /\ AddNext(r)

\* The call returns, at the end of its arguments or at the cap, and unlocks.
AddReturns(r) ==
    /\ adding[r].held
    /\ adding[r].rest = None \/ ~HasRoom(r)
    /\ adding' = [adding EXCEPT ![r] = Unlocked]
    /\ UNCHANGED <<level, reqVars, collected, line, calls, offered, seen>>

-----------------------------------------------------------------------------
(* RequestLogger.                                                           *)

\* A request arrives; the handler its route names is called.
Serve(r, pattern) ==
    /\ phase[r] = "new"
    /\ phase' = [phase EXCEPT ![r] = "serving"]
    /\ route' = [route EXCEPT ![r] = pattern]
    /\ UNCHANGED <<level, written, ctxVars, line, calls, offered, seen>>

\* The first WriteHeader, or the first Write with 200, sets the status.
WriteHeader(r, code) ==
    /\ phase[r] = "serving"
    /\ written[r] = 0
    /\ written' = [written EXCEPT ![r] = code]
    /\ UNCHANGED <<level, phase, route, ctxVars, line, calls, offered, seen>>

\* next.ServeHTTP returns; goroutines of the handler may still be adding.
HandlerReturns(r) ==
    /\ phase[r] = "serving"
    /\ phase' = [phase EXCEPT ![r] = "returned"]
    /\ UNCHANGED <<level, route, written, ctxVars, line, calls, offered, seen>>

\* The panic passes through RequestLogger, which has no deferred call.
HandlerPanics(r) ==
    /\ phase[r] = "serving"
    /\ phase' = [phase EXCEPT ![r] = "panicked"]
    /\ UNCHANGED <<level, route, written, ctxVars, line, calls, offered, seen>>

\* A handler that wrote nothing has answered 200.
Status(r) == IF written[r] = 0 THEN 200 ELSE written[r]

\* Broken: a probe is recognised by its route alone.
ProbeRoute(r) == route[r] \in {"/healthz", "/readyz", "/metrics"}

\* isSuccessfulProbe.
IsSuccessfulProbe(r) ==
    /\ Status(r) \in 200 .. 399
    /\ route[r] \in {"/healthz", "/readyz", "/metrics"}

\* A successful probe leaves no line.
SkipProbe(r) ==
    /\ phase[r] = "returned"
    /\ IsSuccessfulProbe(r)
    /\ phase' = [phase EXCEPT ![r] = "done"]
    /\ UNCHANGED <<level, route, written, ctxVars, line, calls, offered, seen>>

\* The attributes are copied and the completion line is written, at Info:
\* whatever the status, a logger that wants warnings discards it.
WriteLine(r) ==
    /\ phase[r] = "returned"
    /\ ~IsSuccessfulProbe(r)
    /\ phase' = [phase EXCEPT ![r] = "done"]
    /\ line' = IF Enabled("info") THEN [line EXCEPT ![r] = Append(@, collected[r])]
                                  ELSE line
    /\ seen' = [seen EXCEPT ![r] = offered[r]]
    /\ UNCHANGED <<level, route, written, ctxVars, calls, offered>>

\* Broken: attributes() does not lock.
LogUnlocked(r) == WriteLine(r)

\* attributes() takes the lock for the copy.
LogCompletion(r) == ~adding[r].held /\ WriteLine(r)

\* Every request is over and every call has returned.
Finished ==
    /\ \A r \in Requests : phase[r] \in {"done", "panicked"} /\ ~adding[r].held
    /\ UNCHANGED vars

Next ==
    \/ \E r \in Requests :
          \/ \E pattern \in Routes : Serve(r, pattern)
          \/ \E code \in Codes : WriteHeader(r, code)
          \/ \E args \in Calls : AddAttrs(r, args)
          \/ Add(r)
          \/ AddReturns(r)
          \/ HandlerReturns(r)
          \/ HandlerPanics(r)
          \/ SkipProbe(r)
          \/ LogCompletion(r)
    \/ Finished

Spec == Init /\ [][Next]_vars

-----------------------------------------------------------------------------
(* What is promised of completion lines.                                    *)

TypeOK ==
    /\ level \in DOMAIN Severity
    /\ phase \in [Requests -> Phases]
    /\ route \in [Requests -> Routes \cup {""}]
    /\ written \in [Requests -> Codes \cup {0}]
    /\ collected \in [Requests -> Seq(Attrs)]
    /\ \A r \in Requests : Len(collected[r]) <= MaxRequestAttrs
    /\ adding \in [Requests -> [held : BOOLEAN, rest : Seq(Attrs)]]
    /\ line \in [Requests -> Seq(Seq(Attrs))]
    /\ calls \in [Requests -> 0 .. MaxCalls]
    /\ offered \in [Requests -> Seq(Attrs)]
    /\ seen \in [Requests -> Seq(Attrs)]

\* An attribute with everything inside it; groups nest three deep.
Parts(a) ==
    LET inside(S) == S \cup UNION {Members(b.value) : b \in S}
    IN  inside(inside(inside({a})))

Clean(a) ==
    \A b \in Parts(a) : b.value # "any" /\ NameOf[b.key] \notin Protected \cup {""}

\* No line carries a protected name, however it is spelled, an empty name, or
\* an opaque value at any depth of an attribute: nothing a handler adds can
\* repeat a field of RequestLogger or name a credential.
LineClean ==
    \A r \in Requests : \A n \in DOMAIN line[r] :
        \A i \in DOMAIN line[r][n] : Clean(line[r][n][i])

\* How many of the first k of some attributes are clean.
CleanAmong(s, k) == Cardinality({i \in 1 .. k : Clean(s[i])})

\* The clean ones of the first k of s, in their order and up to the cap, are t.
FirstClean(t, s, k) ==
    LET all == CleanAmong(s, k)
    IN  /\ Len(t) = IF all < MaxRequestAttrs THEN all ELSE MaxRequestAttrs
        /\ \A i \in 1 .. k : Clean(s[i]) /\ CleanAmong(s, i) <= MaxRequestAttrs
                            => t[CleanAmong(s, i)] = s[i]

\* A line has the first MaxRequestAttrs clean attributes that were offered
\* for the request before the line was written, in the order in which the
\* calls obtained the lock, and a call is seen as a whole or not at all,
\* whatever the other goroutines of the handler do meanwhile.
FirstComeFirstLogged ==
    \A r \in Requests : \A n \in DOMAIN line[r] :
        FirstClean(line[r][n], seen[r], Len(seen[r]))

\* A probe that did not fail.
QuietProbe(r) ==
    written[r] \in {0} \cup 200 .. 399 /\ route[r] \in {"/healthz", "/readyz", "/metrics"}

\* At the levels that admit Info a request whose handler returned has one line,
\* unless it is a probe that did not fail: no failed answer goes unlogged, on
\* any route.  At the others, warn and error, no answer is logged.
FailureLogged ==
    \A r \in Requests : phase[r] = "done" =>
        Len(line[r]) = IF level \in {"debug", "info"} /\ ~QuietProbe(r) THEN 1 ELSE 0
=============================================================================
