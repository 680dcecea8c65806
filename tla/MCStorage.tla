----------------------------- MODULE MCStorage -----------------------------
(* Two projects, an endpoint of the one with a provider of the other, which  *)
(* nothing in the schema forbids; two more endpoints have the name it has;   *)
(* the two prices, and the two instants, differ by less than a microsecond.   *)
EXTENDS Storage

CONSTANTS p1, p2, v1, v2, e1, e2, e3, q1, s1, a1, priceA, priceB, tA, tB

MCKeys == {p1, p2, v1, v2, e1, e2, e3, q1, s1, a1, priceA, priceB}
MCStoredAs == [k \in MCKeys |-> IF k = priceB THEN priceA ELSE k]
MCInstants == {tA, tB}
MCMicros == [t \in MCInstants |-> tA]

Row(key, parent, body) ==
    [key |-> key, parent |-> parent, provider |-> None, providerEndpoint |-> FALSE,
     name |-> "", status |-> "active", enums |-> TRUE, body |-> body, time |-> None, at |-> 0]

Timed(key, parent, time) == [Row(key, parent, <<>>) EXCEPT !.time = time]

Endpoint(key, provider, name) ==
    [Row(key, p1, <<>>) EXCEPT !.provider = provider, !.name = name,
                               !.providerEndpoint = TRUE]

project == Row(p1, None, <<>>)
owner == Row(p2, None, <<>>)
provider == Row(v1, p2, <<>>)
served == Endpoint(e1, v1, "m")

MCEmpty == [t \in Tables |-> {}]
MCExisting ==
    [MCEmpty EXCEPT !["projects"] = {project, owner}, !["providers"] = {provider},
                    !["endpoints"] = {served}]

MCInserts ==
    {<<"projects", project>>, <<"providers", provider>>,
     <<"providers", [Row(v2, p1, <<>>) EXCEPT !.enums = FALSE]>>,
     <<"api_keys", Timed(a1, p1, tB)>>,
     <<"endpoints", served>>, <<"endpoints", Endpoint(e2, v1, "m")>>,
     <<"endpoints", Endpoint(e3, None, "m")>>,
     <<"endpoints", [Endpoint(e3, v1, "n") EXCEPT !.providerEndpoint = FALSE]>>,
     <<"inference_requests", Timed(q1, e1, tB)>>,
     <<"status_snapshots", Timed(s1, e1, tA)>>,
     <<"pricing_defaults", Row(priceA, None, <<1>>)>>,
     <<"pricing_defaults", Row(priceB, None, <<2>>)>>}

MCMedians == {Row(e1, e1, <<1, 1>>), Row(e1, e1, <<2, 2>>)}
MCDeletes == {<<"projects", project>>, <<"projects", owner>>,
              <<"providers", provider>>, <<"endpoints", served>>}
=============================================================================
