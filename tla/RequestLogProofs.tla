-------------------------- MODULE RequestLogProofs --------------------------
(***************************************************************************)
(* Theorems about the completion log, for any requests, attributes, calls  *)
(* and caps.                                                               *)
(***************************************************************************)
EXTENDS RequestLog, FiniteSetTheorems, TLAPS

-----------------------------------------------------------------------------
(* isSafeRequestAttr, which calls itself for the members of a group, is the *)
(* test of everything inside an attribute.                                  *)

LEMMA MembersOf ==
    /\ \A v : v \in {"scalar", "any", "redacted"} => Members(v) = {}
    /\ Members("apiKey") = {Attr("id", "scalar"), Attr("key_hash", "scalar")}
    /\ Members("provider") = {Attr("id", "scalar"),
                              Attr("credentials_encrypted", "scalar")}
    /\ Members("nested") = {Attr("id", "scalar"), Attr("outcome", "any")}
    /\ Members("deep") = {Attr("id", "redacted"), Attr("outcome", "nested")}
  BY DEF Members

\* What isSafeRequestAttr asks of an attribute itself.
Plain(a) == NameOf[a.key] \notin Protected \cup {""} /\ a.value # "any"

LEMMA CleanParts ==
    ASSUME NEW a, a.value \in Values
    PROVE  Clean(a) <=> Plain(a) /\ \A m \in Members(a.value) : Clean(m)
  <1> DEFINE Inside(S) == S \cup UNION {Members(b.value) : b \in S}
  <1>1. ASSUME NEW b PROVE Parts(b) = Inside(Inside(Inside({b})))
    BY DEF Parts
  <1>2. ASSUME NEW b, b.value \in {"scalar", "any", "redacted"}
        PROVE  Parts(b) = {b}
    <2>1. Inside({b}) = {b}
      BY <1>2, MembersOf
    <2> HIDE DEF Inside
    <2> QED BY <1>1, <2>1
  <1>3. ASSUME NEW b, b.value \in {"apiKey", "provider", "nested"}
        PROVE  Parts(b) = {b} \cup Members(b.value)
    <2>1. Inside({b}) = {b} \cup Members(b.value)
      OBVIOUS
    <2>2. \A m \in Members(b.value) : Members(m.value) = {}
      BY <1>3, MembersOf DEF Attr
    <2>3. Inside({b} \cup Members(b.value)) = {b} \cup Members(b.value)
      BY <2>2
    <2> HIDE DEF Inside
    <2> QED BY <1>1, <2>1, <2>3
  <1>4. ASSUME NEW b, b.value = "deep"
        PROVE  Parts(b) = {b} \cup Members("deep") \cup Members("nested")
    <2>1. Inside({b}) = {b} \cup Members("deep")
      BY <1>4
    <2>2. Inside({b} \cup Members("deep")) = {b} \cup Members("deep") \cup Members("nested")
      <3>1. UNION {Members(c.value) : c \in {b} \cup Members("deep")}
              = Members("deep") \cup UNION {Members(c.value) : c \in Members("deep")}
        BY <1>4
      <3>2. UNION {Members(c.value) : c \in Members("deep")}
              = Members(Attr("id", "redacted").value) \cup Members(Attr("outcome", "nested").value)
        BY MembersOf
      <3> QED BY <3>1, <3>2, MembersOf DEF Attr
    <2>3. Inside({b} \cup Members("deep") \cup Members("nested"))
            = {b} \cup Members("deep") \cup Members("nested")
      BY <1>4, MembersOf DEF Attr
    <2> HIDE DEF Inside
    <2> QED BY <1>1, <2>1, <2>2, <2>3
  <1>5. ASSUME NEW b PROVE Clean(b) <=> \A c \in Parts(b) : Plain(c)
    BY DEF Clean, Plain
  <1>6. CASE a.value \in {"scalar", "any", "redacted"}
    BY <1>2, <1>5, <1>6, MembersOf
  <1>7. CASE a.value \in {"apiKey", "provider", "nested"}
    <2>1. \A m \in Members(a.value) : Parts(m) = {m}
      BY <1>2, <1>7, MembersOf DEF Attr
    <2> QED BY <1>3, <1>5, <1>7, <2>1
  <1>8. CASE a.value = "deep"
    <2>1. Parts(Attr("id", "redacted")) = {Attr("id", "redacted")}
      BY <1>2 DEF Attr
    <2>2. Parts(Attr("outcome", "nested")) = {Attr("outcome", "nested")} \cup Members("nested")
      BY <1>3 DEF Attr
    <2> QED BY <1>4, <1>5, <1>8, <2>1, <2>2, MembersOf
  <1> QED BY <1>6, <1>7, <1>8 DEF Values

\* isSafeRequestAttr accepts an attribute exactly when all of it is clean.
THEOREM SafeIsClean == \A a \in Attrs : SafeRequestAttr[a] <=> Clean(a)
  <1> DEFINE Def(f) == f = [a \in Attrs |->
                 /\ CanonicalName(a.key) \notin Protected \cup {""}
                 /\ a.value # "any"
                 /\ \A m \in Members(a.value) : f[m]]
             W == [a \in Attrs |-> Clean(a)]
  <1>1. Def(W)
    <2>1. ASSUME NEW a \in Attrs
          PROVE  Clean(a) = (/\ CanonicalName(a.key) \notin Protected \cup {""}
                             /\ a.value # "any"
                             /\ \A m \in Members(a.value) : W[m])
      <3>1. a.value \in Values /\ Members(a.value) \subseteq Attrs
        BY AttrsAssumption
      <3>2. \A m \in Members(a.value) : W[m] = Clean(m)
        BY <3>1
      <3>3. Clean(a) \in BOOLEAN
        BY DEF Clean
      <3> QED BY CleanParts, <3>1, <3>2, <3>3 DEF Plain, CanonicalName
    <2> QED BY <2>1, Zenon
  <1>2. SafeRequestAttr = CHOOSE f : Def(f)
    BY DEF SafeRequestAttr
  <1>3. Def(SafeRequestAttr)
    <2> HIDE DEF Def, W
    <2> QED BY <1>1, <1>2, Zenon
  <1>4. ASSUME NEW a \in Attrs
        PROVE  SafeRequestAttr[a] <=> Plain(a) /\ \A m \in Members(a.value) : SafeRequestAttr[m]
    BY <1>3, Zenon DEF Plain, CanonicalName
  <1>5. \A a \in Attrs : a.value \in Values /\ Members(a.value) \subseteq Attrs
    BY AttrsAssumption
  <1> HIDE DEF Def
  <1>6. ASSUME NEW a \in Attrs, a.value \in {"scalar", "any", "redacted"}
        PROVE  SafeRequestAttr[a] <=> Clean(a)
    BY <1>4, <1>5, <1>6, CleanParts, MembersOf
  <1>7. ASSUME NEW a \in Attrs, a.value \in {"apiKey", "provider", "nested"}
        PROVE  SafeRequestAttr[a] <=> Clean(a)
    <2>1. \A m \in Members(a.value) : m.value \in {"scalar", "any", "redacted"}
      BY <1>7, MembersOf DEF Attr
    <2> QED BY <1>4, <1>5, <1>6, <2>1, CleanParts
  <1>8. ASSUME NEW a \in Attrs, a.value = "deep"
        PROVE  SafeRequestAttr[a] <=> Clean(a)
    <2>1. \A m \in Members(a.value) : m.value \in {"redacted", "nested"}
      BY <1>8, MembersOf DEF Attr
    <2> QED BY <1>4, <1>5, <1>6, <1>7, <2>1, CleanParts
  <1> QED BY <1>5, <1>6, <1>7, <1>8 DEF Values
-----------------------------------------------------------------------------
(* The clean ones among the first attributes of a sequence.                 *)

LEMMA CleanCount ==
    ASSUME NEW s, NEW k \in Nat
    PROVE  /\ CleanAmong(s, k) \in Nat
           /\ CleanAmong(s, 0) = 0
           /\ Clean(s[k + 1]) => CleanAmong(s, k + 1) = CleanAmong(s, k) + 1
           /\ ~Clean(s[k + 1]) => CleanAmong(s, k + 1) = CleanAmong(s, k)
  <1> DEFINE C(j) == {i \in 1 .. j : Clean(s[i])}
  <1>1. IsFiniteSet(C(k))
    <2>1. IsFiniteSet(1 .. k)
      BY FS_Interval
    <2> QED BY <2>1, FS_Subset
  <1>2. CleanAmong(s, k) \in Nat
    BY <1>1, FS_CardinalityType DEF CleanAmong
  <1>3. CleanAmong(s, 0) = 0
    <2>1. C(0) = {}
      OBVIOUS
    <2> QED BY <2>1, FS_EmptySet DEF CleanAmong
  <1>4. ASSUME Clean(s[k + 1])
        PROVE  CleanAmong(s, k + 1) = CleanAmong(s, k) + 1
    <2>1. C(k + 1) = C(k) \cup {k + 1} /\ k + 1 \notin C(k)
      BY <1>4
    <2> QED BY <1>1, <2>1, FS_AddElement DEF CleanAmong
  <1>5. ASSUME ~Clean(s[k + 1])
        PROVE  CleanAmong(s, k + 1) = CleanAmong(s, k)
    <2>1. C(k + 1) = C(k)
      BY <1>5
    <2> QED BY <2>1 DEF CleanAmong
  <1> QED BY <1>2, <1>3, <1>4, <1>5

LEMMA CleanCountGrows ==
    ASSUME NEW s, NEW k \in Nat, NEW i \in 1 .. k
    PROVE  /\ CleanAmong(s, i) \in Nat /\ CleanAmong(s, k) \in Nat
           /\ CleanAmong(s, i) <= CleanAmong(s, k)
           /\ Clean(s[i]) => 1 <= CleanAmong(s, i)
  <1> DEFINE C(j) == {n \in 1 .. j : Clean(s[n])}
  <1>1. C(i) \subseteq C(k)
    OBVIOUS
  <1>2. IsFiniteSet(C(k))
    <2>1. IsFiniteSet(1 .. k)
      BY FS_Interval
    <2> QED BY <2>1, FS_Subset
  <1>3. Cardinality(C(i)) <= Cardinality(C(k))
    BY <1>1, <1>2, FS_Subset
  <1>4. i - 1 \in Nat /\ (i - 1) + 1 = i
    OBVIOUS
  <1>5. Clean(s[i]) => CleanAmong(s, i) = CleanAmong(s, i - 1) + 1
    <2>1. Clean(s[(i - 1) + 1]) => CleanAmong(s, (i - 1) + 1) = CleanAmong(s, i - 1) + 1
      BY <1>4, CleanCount
    <2> QED BY <1>4, <2>1
  <1>6. CleanAmong(s, i) \in Nat /\ CleanAmong(s, k) \in Nat /\ CleanAmong(s, i - 1) \in Nat
    BY <1>4, CleanCount
  <1>7. CleanAmong(s, i) <= CleanAmong(s, k)
    BY <1>3 DEF CleanAmong
  <1> QED BY <1>5, <1>6, <1>7

\* Only the first k attributes count.
LEMMA CleanCountLocal ==
    ASSUME NEW s, NEW u, NEW k \in Nat, \A i \in 1 .. k : u[i] = s[i]
    PROVE  \A i \in 0 .. k : CleanAmong(u, i) = CleanAmong(s, i)
  <1>1. ASSUME NEW i \in 0 .. k PROVE CleanAmong(u, i) = CleanAmong(s, i)
    <2>1. {n \in 1 .. i : Clean(u[n])} = {n \in 1 .. i : Clean(s[n])}
      OBVIOUS
    <2> QED BY <2>1 DEF CleanAmong
  <1> QED BY <1>1

\* What is offered later changes nothing.
LEMMA FirstCleanLocal ==
    ASSUME NEW t, NEW s, NEW u, NEW k \in Nat, \A i \in 1 .. k : u[i] = s[i],
           FirstClean(t, s, k)
    PROVE  FirstClean(t, u, k)
  <1>0. \A i \in 0 .. k : CleanAmong(u, i) = CleanAmong(s, i)
    BY CleanCountLocal
  <1>1. \A i \in 1 .. k : CleanAmong(u, i) = CleanAmong(s, i)
    BY <1>0
  <1>2. CleanAmong(u, k) = CleanAmong(s, k)
    BY <1>0
  <1>3. ASSUME NEW i \in 1 .. k, Clean(u[i]), CleanAmong(u, i) <= MaxRequestAttrs
        PROVE  t[CleanAmong(u, i)] = u[i]
    BY <1>1, <1>3 DEF FirstClean
  <1> QED BY <1>2, <1>3 DEF FirstClean

LEMMA FirstCleanEmpty ==
    ASSUME NEW s
    PROVE  FirstClean(<<>>, s, 0)
  BY CleanCount, BoundsAssumption DEF FirstClean

\* A clean attribute is added where there is room.
LEMMA FirstCleanAdds ==
    ASSUME NEW t \in Seq(Attrs), NEW s, NEW k \in Nat, FirstClean(t, s, k),
           Len(t) < MaxRequestAttrs, NEW a \in Attrs, a = s[k + 1], Clean(a)
    PROVE  FirstClean(Append(t, a), s, k + 1)
  <1> DEFINE n == CleanAmong(s, k)
             v == Append(t, a)
  <1>1. n \in Nat /\ CleanAmong(s, k + 1) = n + 1
    BY CleanCount
  <1>2. Len(t) = n /\ n < MaxRequestAttrs
    <2>1. Len(t) = IF n < MaxRequestAttrs THEN n ELSE MaxRequestAttrs
      BY DEF FirstClean
    <2> QED BY <2>1, <1>1, BoundsAssumption
  <1>3. Len(v) = n + 1 /\ v[n + 1] = a /\ \A j \in 1 .. n : v[j] = t[j]
    BY <1>2
  <1>4. Len(v) = IF n + 1 < MaxRequestAttrs THEN n + 1 ELSE MaxRequestAttrs
    BY <1>1, <1>2, <1>3, BoundsAssumption
  <1>5. ASSUME NEW i \in 1 .. k + 1, Clean(s[i]), CleanAmong(s, i) <= MaxRequestAttrs
        PROVE  v[CleanAmong(s, i)] = s[i]
    <2>1. CASE i = k + 1
      BY <1>1, <1>3, <2>1
    <2>2. CASE i \in 1 .. k
      <3>1. CleanAmong(s, i) \in 1 .. n
        BY <1>1, <1>5, <2>2, CleanCountGrows
      <3>2. t[CleanAmong(s, i)] = s[i]
        BY <1>5, <2>2 DEF FirstClean
      <3> QED BY <1>3, <3>1, <3>2
    <2>3. i = k + 1 \/ i \in 1 .. k
      OBVIOUS
    <2> QED BY <2>1, <2>2, <2>3
  <1> HIDE DEF n, v
  <1> QED BY <1>1, <1>4, <1>5 DEF FirstClean, v

\* One that is not clean is passed over.
LEMMA FirstCleanSkips ==
    ASSUME NEW t, NEW s, NEW k \in Nat, FirstClean(t, s, k), ~Clean(s[k + 1])
    PROVE  FirstClean(t, s, k + 1)
  <1>1. CleanAmong(s, k + 1) = CleanAmong(s, k)
    BY CleanCount
  <1>2. ASSUME NEW i \in 1 .. k + 1, Clean(s[i]), CleanAmong(s, i) <= MaxRequestAttrs
        PROVE  t[CleanAmong(s, i)] = s[i]
    <2>1. i \in 1 .. k
      BY <1>2
    <2> QED BY <1>2, <2>1 DEF FirstClean
  <1> QED BY <1>1, <1>2 DEF FirstClean

\* At the cap the rest is passed over.
LEMMA FirstCleanFull ==
    ASSUME NEW t, NEW s, NEW k \in Nat, FirstClean(t, s, k),
           Len(t) >= MaxRequestAttrs, NEW j \in Nat, k <= j
    PROVE  FirstClean(t, s, j)
  <1> DEFINE n == CleanAmong(s, k)
  <1>1. n \in Nat /\ CleanAmong(s, j) \in Nat
    BY CleanCount
  <1>2. n >= MaxRequestAttrs /\ Len(t) = MaxRequestAttrs
    <2>1. Len(t) = IF n < MaxRequestAttrs THEN n ELSE MaxRequestAttrs
      BY DEF FirstClean
    <2> QED BY <2>1, <1>1, BoundsAssumption
  <1>3. n <= CleanAmong(s, j)
    <2>1. CASE k = 0
      BY <1>1, <2>1, CleanCount
    <2>2. CASE k # 0
      <3>1. k \in 1 .. j
        BY <2>2
      <3> QED BY <3>1, CleanCountGrows
    <2> QED BY <2>1, <2>2
  <1>4. ASSUME NEW i \in 1 .. j, Clean(s[i]), CleanAmong(s, i) <= MaxRequestAttrs
        PROVE  t[CleanAmong(s, i)] = s[i]
    <2>1. CASE i \in 1 .. k
      BY <1>4, <2>1 DEF FirstClean
    <2>2. CASE i \notin 1 .. k
      <3>1. i - 1 \in Nat /\ k <= i - 1 /\ (i - 1) + 1 = i
        BY <2>2
      <3>2. CleanAmong(s, i - 1) \in Nat /\ CleanAmong(s, i) = CleanAmong(s, i - 1) + 1
        <4>1. CleanAmong(s, (i - 1) + 1) = CleanAmong(s, i - 1) + 1
          BY <1>4, <3>1, CleanCount
        <4> QED BY <3>1, <4>1, CleanCount
      <3>3. n <= CleanAmong(s, i - 1)
        <4>1. CASE k = 0
          BY <3>2, <4>1, CleanCount
        <4>2. CASE k # 0
          <5>1. k \in 1 .. i - 1
            BY <3>1, <4>2
          <5> QED BY <3>1, <5>1, CleanCountGrows
        <4> QED BY <4>1, <4>2
      <3> HIDE DEF n
      <3> QED BY <1>1, <1>2, <1>4, <3>2, <3>3, BoundsAssumption
    <2> QED BY <2>1, <2>2
  <1> HIDE DEF n
  <1>5. Len(t) = IF CleanAmong(s, j) < MaxRequestAttrs THEN CleanAmong(s, j) ELSE MaxRequestAttrs
    BY <1>1, <1>2, <1>3, BoundsAssumption
  <1> QED BY <1>4, <1>5 DEF FirstClean
-----------------------------------------------------------------------------
(* The inductive invariant.                                                 *)

\* How many of the attributes offered the calls are through with.
Handled(r) == Len(offered[r]) - Len(adding[r].rest)

\* The rest of the call that holds the lock is the end of what was offered,
\* and what has been collected is the clean part of everything before it.
Collecting(r) ==
    /\ Handled(r) \in Nat
    /\ ~adding[r].held => adding[r].rest = None
    /\ \A i \in 1 .. Len(adding[r].rest) :
          adding[r].rest[i] = offered[r][Handled(r) + i]
    /\ FirstClean(collected[r], offered[r], Handled(r))
    /\ \A i \in DOMAIN collected[r] : Clean(collected[r][i])

\* The one line is written last, from what was collected between two calls.
Logged(r) ==
    /\ phase[r] # "done" => line[r] = None
    /\ Len(line[r]) <= 1
    /\ \A n \in DOMAIN line[r] :
          /\ FirstClean(line[r][n], seen[r], Len(seen[r]))
          /\ \A i \in DOMAIN line[r][n] : Clean(line[r][n][i])
    /\ phase[r] = "done" =>
          Len(line[r]) = IF level \in {"debug", "info"} /\ ~QuietProbe(r) THEN 1 ELSE 0

LogInv == TypeOK /\ \A r \in Requests : Collecting(r) /\ Logged(r)

LEMMA LogInit == Init => LogInv
  <1> SUFFICES ASSUME Init PROVE LogInv
    OBVIOUS
  <1>1. None \in Seq(Attrs) /\ None \in Seq(Seq(Attrs)) /\ Len(None) = 0
    BY DEF None
  <1>2. TypeOK
    <2>1. Unlocked \in [held : BOOLEAN, rest : Seq(Attrs)]
      BY <1>1 DEF Unlocked
    <2>2. 0 \in 0 .. MaxCalls /\ Len(None) <= MaxRequestAttrs
      BY <1>1, BoundsAssumption
    <2>3. \A r \in Requests : collected[r] = None
      BY DEF Init
    <2> QED BY <1>1, <2>1, <2>2, <2>3 DEF Init, TypeOK, Phases
  <1>3. ASSUME NEW r \in Requests PROVE Collecting(r) /\ Logged(r)
    <2>1. /\ offered[r] = <<>> /\ collected[r] = <<>> /\ adding[r].rest = <<>>
          /\ line[r] = <<>> /\ phase[r] = "new"
      BY DEF Init, Unlocked, None
    <2>2. Handled(r) = 0
      BY <2>1 DEF Handled
    <2>3. FirstClean(collected[r], offered[r], Handled(r))
      BY <2>1, <2>2, FirstCleanEmpty
    <2>4. Collecting(r)
      BY <2>1, <2>2, <2>3 DEF Collecting, None
    <2>5. Logged(r)
      BY <2>1 DEF Logged, None
    <2> QED BY <2>4, <2>5
  <1> QED BY <1>2, <1>3 DEF LogInv

\* A request that a step leaves alone stays as it is.
LEMMA CollectingKept ==
    ASSUME NEW r, Collecting(r), collected'[r] = collected[r],
           adding'[r] = adding[r], offered'[r] = offered[r]
    PROVE  Collecting(r)'
  BY DEF Collecting, Handled

LEMMA LoggedKept ==
    ASSUME NEW r, Logged(r), line'[r] = line[r], seen'[r] = seen[r],
           phase'[r] = phase[r], written'[r] = written[r], route'[r] = route[r],
           level' = level
    PROVE  Logged(r)'
  BY DEF Logged, QuietProbe

\* Before the line is written nothing depends on the answer.
LEMMA LoggedBefore ==
    ASSUME NEW r, Logged(r), phase[r] # "done", phase'[r] # "done",
           line'[r] = line[r]
    PROVE  Logged(r)'
  BY DEF Logged, None

LEMMA AddAttrsKeeps ==
    ASSUME LogInv, NEW r \in Requests, NEW args \in Calls, AddAttrs(r, args)
    PROVE  LogInv'
  <1>1. args \in Seq(Attrs)
    BY CallsAssumption
  <1>2. TypeOK'
    <2>1. offered[r] \o args \in Seq(Attrs)
      <3>1. offered[r] \in Seq(Attrs)
        BY DEF LogInv, TypeOK
      <3> QED BY <1>1, <3>1
    <2>2. calls[r] + 1 \in 0 .. MaxCalls
      <3>1. calls[r] \in 0 .. MaxCalls /\ calls[r] < MaxCalls
        BY DEF LogInv, TypeOK, AddAttrs
      <3> QED BY <3>1, BoundsAssumption
    <2>3. [held |-> TRUE, rest |-> args] \in [held : BOOLEAN, rest : Seq(Attrs)]
      BY <1>1
    <2>4. /\ offered' \in [Requests -> Seq(Attrs)]
          /\ calls' \in [Requests -> 0 .. MaxCalls]
          /\ adding' \in [Requests -> [held : BOOLEAN, rest : Seq(Attrs)]]
      BY <2>1, <2>2, <2>3 DEF LogInv, TypeOK, AddAttrs
    <2> QED BY <2>4 DEF LogInv, TypeOK, AddAttrs, reqVars
  <1>3. Collecting(r)'
    <2> DEFINE old == offered[r]
               new == offered'[r]
    <2>1. old \in Seq(Attrs) /\ new = old \o args
      BY DEF LogInv, TypeOK, AddAttrs
    <2>2. adding'[r].rest = args /\ adding'[r].held /\ collected'[r] = collected[r]
      BY DEF LogInv, TypeOK, AddAttrs
    <2>3. Handled(r) = Len(old) /\ FirstClean(collected[r], old, Len(old))
      <3>1. adding[r].rest = <<>> /\ FirstClean(collected[r], old, Handled(r))
        BY DEF LogInv, Collecting, AddAttrs, None
      <3>2. Handled(r) = Len(old)
        BY <2>1, <3>1 DEF Handled
      <3> QED BY <3>1, <3>2
    <2>4. /\ Len(new) = Len(old) + Len(args)
          /\ \A i \in 1 .. Len(old) : new[i] = old[i]
          /\ \A i \in 1 .. Len(args) : new[Len(old) + i] = args[i]
      BY <1>1, <2>1
    <2>5. Handled(r)' = Len(old) /\ Len(old) \in Nat
      BY <1>1, <2>1, <2>2, <2>4 DEF Handled
    <2>6. FirstClean(collected[r], new, Len(old))
      BY <2>3, <2>4, <2>5, FirstCleanLocal
    <2>7. \A i \in DOMAIN collected[r] : Clean(collected[r][i])
      BY DEF LogInv, Collecting
    <2> HIDE DEF old
    <2> QED BY <2>2, <2>4, <2>5, <2>6, <2>7 DEF Collecting
  <1>4. ASSUME NEW q \in Requests, q # r PROVE Collecting(q)'
    BY <1>4, CollectingKept DEF LogInv, TypeOK, AddAttrs
  <1>5. \A q \in Requests : Logged(q)'
    BY LoggedKept DEF LogInv, TypeOK, AddAttrs, reqVars
  <1> QED BY <1>2, <1>3, <1>4, <1>5 DEF LogInv

LEMMA AddKeeps ==
    ASSUME LogInv, NEW r \in Requests, Add(r)
    PROVE  LogInv'
  <1> DEFINE rest == adding[r].rest
             a == Head(rest)
             all == offered[r]
             k == Handled(r)
             t == collected[r]
  <1>1. /\ rest \in Seq(Attrs) /\ rest # <<>> /\ all \in Seq(Attrs)
        /\ t \in Seq(Attrs) /\ Len(t) < MaxRequestAttrs
    BY DEF LogInv, TypeOK, Add, AddNext, HasRoom, None
  <1>2. /\ a \in Attrs /\ Tail(rest) \in Seq(Attrs) /\ Len(Tail(rest)) = Len(rest) - 1
        /\ \A i \in 1 .. Len(rest) - 1 : Tail(rest)[i] = rest[i + 1]
        /\ a = rest[1] /\ Len(rest) \in Nat \ {0} /\ Len(all) \in Nat
    BY <1>1
  <1>3. /\ k \in Nat /\ k = Len(all) - Len(rest)
        /\ \A i \in 1 .. Len(rest) : rest[i] = all[k + i]
        /\ FirstClean(t, all, k) /\ \A i \in DOMAIN t : Clean(t[i])
        /\ adding[r].held
    BY <1>1 DEF LogInv, Collecting, Handled, None
  <1>4. /\ adding' = [adding EXCEPT ![r].rest = Tail(rest)]
        /\ collected' = IF SafeRequestAttr[a]
                        THEN [collected EXCEPT ![r] = Append(t, a)] ELSE collected
        /\ UNCHANGED <<level, phase, route, written, line, calls, offered, seen>>
    BY DEF Add, AddNext, reqVars
  <1>5. SafeRequestAttr[a] <=> Clean(a)
    BY <1>2, SafeIsClean
  <1>6. a = all[k + 1]
    <2> HIDE DEF rest, a, all, k
    <2> QED BY <1>2, <1>3
  <1> DEFINE u == IF SafeRequestAttr[a] THEN Append(t, a) ELSE t
  <1>7. /\ u \in Seq(Attrs) /\ Len(u) <= MaxRequestAttrs
        /\ FirstClean(u, all, k + 1)
        /\ \A i \in DOMAIN u : Clean(u[i])
    <2> HIDE DEF a, t, rest, all, k
    <2>1. CASE Clean(a)
      <3>1. u = Append(t, a)
        BY <1>5, <2>1
      <3>2. FirstClean(Append(t, a), all, k + 1)
        BY <1>1, <1>2, <1>3, <1>6, <2>1, FirstCleanAdds
      <3>3. Append(t, a) \in Seq(Attrs) /\ Len(Append(t, a)) = Len(t) + 1
        BY <1>1, <1>2
      <3>4. \A i \in 1 .. Len(t) + 1 : Clean(Append(t, a)[i])
        BY <1>1, <1>2, <1>3, <2>1
      <3> HIDE DEF u
      <3> QED BY <1>1, <3>1, <3>2, <3>3, <3>4, BoundsAssumption
    <2>2. CASE ~Clean(a)
      <3>1. u = t
        BY <1>5, <2>2
      <3>2. FirstClean(t, all, k + 1)
        BY <1>3, <1>6, <2>2, FirstCleanSkips
      <3> HIDE DEF u
      <3> QED BY <1>1, <1>3, <3>1, <3>2, BoundsAssumption
    <2> QED BY <2>1, <2>2
  <1>8. /\ collected' = [collected EXCEPT ![r] = u]
        /\ adding' = [adding EXCEPT ![r].rest = Tail(rest)]
    BY <1>4 DEF LogInv, TypeOK
  <1> HIDE DEF u, a
  <1>9. TypeOK'
    <2>1. collected' \in [Requests -> Seq(Attrs)]
      BY <1>7, <1>8 DEF LogInv, TypeOK
    <2>2. \A q \in Requests : Len(collected'[q]) <= MaxRequestAttrs
      BY <1>7, <1>8 DEF LogInv, TypeOK
    <2>3. adding' \in [Requests -> [held : BOOLEAN, rest : Seq(Attrs)]]
      BY <1>2, <1>8 DEF LogInv, TypeOK
    <2> QED BY <1>4, <2>1, <2>2, <2>3 DEF LogInv, TypeOK
  <1>10. Collecting(r)'
    <2>1. collected'[r] = u /\ offered'[r] = all
      BY <1>4, <1>8 DEF LogInv, TypeOK
    <2>4. adding'[r].rest = Tail(rest) /\ adding'[r].held
      BY <1>3, <1>8 DEF LogInv, TypeOK
    <2>2. Handled(r)' = k + 1 /\ k + 1 \in Nat
      <3>1. Handled(r)' = Len(all) - Len(Tail(rest))
        BY <2>1, <2>4 DEF Handled
      <3> HIDE DEF rest, all, k
      <3> QED BY <1>2, <1>3, <3>1
    <2> HIDE DEF rest, all, k, t
    <2>3. \A i \in 1 .. Len(Tail(rest)) : Tail(rest)[i] = all[(k + 1) + i]
      BY <1>2, <1>3
    <2> QED BY <1>7, <2>1, <2>2, <2>3, <2>4 DEF Collecting
  <1>11. ASSUME NEW q \in Requests, q # r PROVE Collecting(q)'
    BY <1>4, <1>8, <1>11, CollectingKept DEF LogInv, TypeOK
  <1>12. \A q \in Requests : Logged(q)'
    BY <1>4, LoggedKept DEF LogInv, TypeOK
  <1> QED BY <1>9, <1>10, <1>11, <1>12 DEF LogInv

LEMMA AddReturnsKeeps ==
    ASSUME LogInv, NEW r \in Requests, AddReturns(r)
    PROVE  LogInv'
  <1>1. Unlocked \in [held : BOOLEAN, rest : Seq(Attrs)]
    BY DEF Unlocked, None
  <1>2. TypeOK'
    BY <1>1 DEF LogInv, TypeOK, AddReturns, reqVars
  <1>3. Collecting(r)'
    <2>1. /\ adding'[r] = Unlocked /\ offered'[r] = offered[r]
          /\ collected'[r] = collected[r]
      BY DEF LogInv, TypeOK, AddReturns
    <2>2. offered[r] \in Seq(Attrs) /\ adding[r].rest \in Seq(Attrs) /\ collected[r] \in Seq(Attrs)
      BY DEF LogInv, TypeOK
    <2>3. Handled(r)' = Len(offered[r]) /\ Handled(r)' \in Nat
      BY <2>1, <2>2 DEF Handled, Unlocked, None
    <2>4. FirstClean(collected[r], offered[r], Len(offered[r]))
      <3>1. FirstClean(collected[r], offered[r], Handled(r)) /\ Handled(r) \in Nat
        BY DEF LogInv, Collecting
      <3>2. CASE adding[r].rest = None
        <4>1. Handled(r) = Len(offered[r])
          BY <2>2, <3>2 DEF Handled, None
        <4> QED BY <3>1, <4>1
      <3>3. CASE ~HasRoom(r)
        <4>1. Len(collected[r]) >= MaxRequestAttrs
          BY <2>2, <3>3, BoundsAssumption DEF HasRoom
        <4>2. Handled(r) <= Len(offered[r]) /\ Len(offered[r]) \in Nat
          <5>1. Len(offered[r]) \in Nat /\ Len(adding[r].rest) \in Nat
            BY <2>2
          <5> DEFINE x == Len(offered[r])
                     y == Len(adding[r].rest)
          <5>2. Handled(r) = x - y
            BY DEF Handled
          <5> HIDE DEF x, y
          <5>3. x \in Nat /\ y \in Nat
            BY <5>1 DEF x, y
          <5>4. Handled(r) <= x
            BY <5>2, <5>3
          <5> QED BY <5>3, <5>4 DEF x
        <4> QED BY <3>1, <4>1, <4>2, FirstCleanFull
      <3> QED BY <3>2, <3>3 DEF AddReturns
    <2> QED BY <2>1, <2>3, <2>4 DEF LogInv, Collecting, Unlocked, None
  <1>4. ASSUME NEW q \in Requests, q # r PROVE Collecting(q)'
    BY <1>4, CollectingKept DEF LogInv, TypeOK, AddReturns
  <1>5. \A q \in Requests : Logged(q)'
    BY LoggedKept DEF LogInv, TypeOK, AddReturns, reqVars
  <1> QED BY <1>2, <1>3, <1>4, <1>5 DEF LogInv

\* Serve, WriteHeader, HandlerReturns and HandlerPanics.
LEMMA AnswerKeeps ==
    ASSUME LogInv, NEW r \in Requests,
           NEW p \in Phases \ {"done"}, NEW pattern \in Routes \cup {""},
           NEW code \in Codes \cup {0}, phase[r] # "done",
           phase' = [phase EXCEPT ![r] = p],
           route' = [route EXCEPT ![r] = pattern],
           written' = [written EXCEPT ![r] = code],
           UNCHANGED <<level, ctxVars, line, calls, offered, seen>>
    PROVE  LogInv'
  <1>1. TypeOK'
    BY DEF LogInv, TypeOK, ctxVars
  <1>2. \A q \in Requests : Collecting(q)'
    BY CollectingKept DEF LogInv, ctxVars
  <1>3. Logged(r)'
    BY LoggedBefore DEF LogInv, TypeOK
  <1>4. ASSUME NEW q \in Requests, q # r PROVE Logged(q)'
    BY <1>4, LoggedKept DEF LogInv, TypeOK
  <1> QED BY <1>1, <1>2, <1>3, <1>4 DEF LogInv

LEMMA SkipProbeKeeps ==
    ASSUME LogInv, NEW r \in Requests, SkipProbe(r)
    PROVE  LogInv'
  <1>1. TypeOK'
    BY DEF LogInv, TypeOK, SkipProbe, ctxVars, Phases
  <1>2. \A q \in Requests : Collecting(q)'
    BY CollectingKept DEF LogInv, SkipProbe, ctxVars
  <1>3. Logged(r)'
    <2>1. line[r] = None /\ phase'[r] = "done"
      BY DEF LogInv, TypeOK, SkipProbe, Logged
    <2>2. QuietProbe(r)'
      BY DEF SkipProbe, IsSuccessfulProbe, Status, QuietProbe
    <2> QED BY <2>1, <2>2 DEF SkipProbe, Logged, None
  <1>4. ASSUME NEW q \in Requests, q # r PROVE Logged(q)'
    BY <1>4, LoggedKept DEF LogInv, TypeOK, SkipProbe
  <1> QED BY <1>1, <1>2, <1>3, <1>4 DEF LogInv

LEMMA LogCompletionKeeps ==
    ASSUME LogInv, NEW r \in Requests, LogCompletion(r)
    PROVE  LogInv'
  <1>0. /\ phase[r] = "returned" /\ ~adding[r].held
        /\ phase' = [phase EXCEPT ![r] = "done"]
        /\ line' = IF Enabled("info") THEN [line EXCEPT ![r] = Append(@, collected[r])]
                                      ELSE line
        /\ seen' = [seen EXCEPT ![r] = offered[r]]
        /\ UNCHANGED <<level, route, written, collected, adding, calls, offered>>
    BY DEF LogCompletion, WriteLine, ctxVars
  <1>7. level \in DOMAIN Severity /\ ~QuietProbe(r)
    <2>1. written[r] = 0 => 200 \in 200 .. 399
      OBVIOUS
    <2>2. ~IsSuccessfulProbe(r)
      BY DEF LogCompletion, WriteLine
    <2> QED BY <2>1, <2>2 DEF LogInv, TypeOK, QuietProbe, IsSuccessfulProbe, Status
  <1>1. line[r] = <<>> /\ collected[r] \in Seq(Attrs) /\ offered[r] \in Seq(Attrs)
    BY <1>0 DEF LogInv, TypeOK, Logged, None
  <1> DEFINE lines == IF level \in {"debug", "info"} THEN <<collected[r]>> ELSE <<>>
  <1>2. line' = [line EXCEPT ![r] = lines]
    <2>1. Append(<<>>, collected[r]) = <<collected[r]>>
      OBVIOUS
    <2>2. Enabled("info") <=> level \in {"debug", "info"}
      BY <1>7 DEF Enabled, Severity
    <2>3. line = [line EXCEPT ![r] = <<>>]
      BY <1>1 DEF LogInv, TypeOK
    <2> QED BY <1>0, <1>1, <2>1, <2>2, <2>3
  <1>3. TypeOK'
    <2>1. lines \in Seq(Seq(Attrs))
      BY <1>1
    <2> HIDE DEF lines
    <2>2. line' \in [Requests -> Seq(Seq(Attrs))] /\ seen' \in [Requests -> Seq(Attrs)]
      BY <1>0, <1>1, <1>2, <2>1 DEF LogInv, TypeOK
    <2> QED BY <1>0, <2>2 DEF LogInv, TypeOK, Phases
  <1>4. \A q \in Requests : Collecting(q)'
    BY <1>0, CollectingKept DEF LogInv
  <1>5. Logged(r)'
    <2>1. /\ line'[r] = lines /\ seen'[r] = offered[r] /\ phase'[r] = "done"
          /\ level' = level /\ ~QuietProbe(r)'
      BY <1>0, <1>2, <1>7 DEF LogInv, TypeOK, QuietProbe
    <2>2. Handled(r) = Len(offered[r])
      <3>1. adding[r].rest = <<>>
        BY <1>0 DEF LogInv, Collecting, None
      <3> QED BY <1>1, <3>1 DEF Handled
    <2>3. FirstClean(collected[r], offered[r], Len(offered[r]))
      BY <2>2 DEF LogInv, Collecting
    <2>4. \A i \in DOMAIN collected[r] : Clean(collected[r][i])
      BY <1>0 DEF LogInv, Collecting
    <2>5. /\ Len(lines) = IF level \in {"debug", "info"} THEN 1 ELSE 0
          /\ \A n \in DOMAIN lines : lines[n] = collected[r]
      OBVIOUS
    <2> HIDE DEF lines
    <2>6. \A n \in DOMAIN line'[r] :
             /\ FirstClean(line'[r][n], seen'[r], Len(seen'[r]))
             /\ \A i \in DOMAIN line'[r][n] : Clean(line'[r][n][i])
      BY <2>1, <2>3, <2>4, <2>5
    <2>7. /\ Len(line'[r]) = IF level' \in {"debug", "info"} /\ ~QuietProbe(r)' THEN 1 ELSE 0
          /\ Len(line'[r]) <= 1
      BY <2>1, <2>5
    <2> QED BY <2>1, <2>6, <2>7 DEF Logged
  <1>6. ASSUME NEW q \in Requests, q # r PROVE Logged(q)'
    BY <1>0, <1>2, <1>6, LoggedKept DEF LogInv, TypeOK
  <1> QED BY <1>3, <1>4, <1>5, <1>6 DEF LogInv

LEMMA LogStep == LogInv /\ [Next]_vars => LogInv'
  <1> SUFFICES ASSUME LogInv, [Next]_vars PROVE LogInv'
    OBVIOUS
  <1>1. CASE UNCHANGED vars
    <2>1. TypeOK'
      BY <1>1 DEF LogInv, TypeOK, vars, reqVars, ctxVars
    <2>2. \A r \in Requests : Collecting(r)'
      BY <1>1, CollectingKept DEF LogInv, vars, ctxVars
    <2>3. \A r \in Requests : Logged(r)'
      BY <1>1, LoggedKept DEF LogInv, vars, reqVars
    <2> QED BY <2>1, <2>2, <2>3 DEF LogInv
  <1>2. ASSUME NEW r \in Requests, NEW pattern \in Routes, Serve(r, pattern) PROVE LogInv'
    <2>1. /\ written' = [written EXCEPT ![r] = written[r]] /\ written[r] \in Codes \cup {0}
          /\ "serving" \in Phases \ {"done"}
      BY <1>2 DEF Serve, LogInv, TypeOK, Phases
    <2> QED BY <1>2, <2>1, AnswerKeeps DEF Serve
  <1>3. ASSUME NEW r \in Requests, NEW code \in Codes, WriteHeader(r, code) PROVE LogInv'
    <2>1. /\ phase' = [phase EXCEPT ![r] = "serving"] /\ "serving" \in Phases \ {"done"}
          /\ route' = [route EXCEPT ![r] = route[r]] /\ route[r] \in Routes \cup {""}
      BY <1>3 DEF WriteHeader, LogInv, TypeOK, Phases
    <2> QED BY <1>3, <2>1, AnswerKeeps DEF WriteHeader
  <1>4. ASSUME NEW r \in Requests, HandlerReturns(r) \/ HandlerPanics(r) PROVE LogInv'
    <2>1. /\ route' = [route EXCEPT ![r] = route[r]] /\ route[r] \in Routes \cup {""}
          /\ written' = [written EXCEPT ![r] = written[r]] /\ written[r] \in Codes \cup {0}
          /\ "returned" \in Phases \ {"done"} /\ "panicked" \in Phases \ {"done"}
      BY <1>4 DEF HandlerReturns, HandlerPanics, LogInv, TypeOK, Phases
    <2>2. CASE HandlerReturns(r)
      BY <2>1, <2>2, AnswerKeeps DEF HandlerReturns
    <2>3. CASE HandlerPanics(r)
      BY <2>1, <2>3, AnswerKeeps DEF HandlerPanics
    <2> QED BY <1>4, <2>2, <2>3
  <1>5. ASSUME NEW r \in Requests, NEW args \in Calls, AddAttrs(r, args) PROVE LogInv'
    BY <1>5, AddAttrsKeeps
  <1>6. ASSUME NEW r \in Requests, Add(r) PROVE LogInv'
    BY <1>6, AddKeeps
  <1>7. ASSUME NEW r \in Requests, AddReturns(r) PROVE LogInv'
    BY <1>7, AddReturnsKeeps
  <1>8. ASSUME NEW r \in Requests, SkipProbe(r) PROVE LogInv'
    BY <1>8, SkipProbeKeeps
  <1>9. ASSUME NEW r \in Requests, LogCompletion(r) PROVE LogInv'
    BY <1>9, LogCompletionKeeps
  <1>10. CASE Finished
    BY <1>1, <1>10 DEF Finished
  <1> QED
    BY <1>1, <1>2, <1>3, <1>4, <1>5, <1>6, <1>7, <1>8, <1>9, <1>10 DEF Next

THEOREM LogInvHolds == Spec => []LogInv
  BY LogInit, LogStep, PTL DEF Spec

-----------------------------------------------------------------------------
(* What is promised of completion lines.                                    *)

\* The state of the middleware is of its type and no more attributes are
\* collected than the cap allows.
THEOREM LogTyped == Spec => []TypeOK
  <1>1. LogInv => TypeOK
    BY DEF LogInv
  <1> QED BY LogInvHolds, <1>1, PTL

\* No line has a protected or empty name or an opaque value at any depth,
\* whatever goroutines of the handler add, and when.
THEOREM LinesClean == Spec => []LineClean
  <1>1. LogInv => LineClean
    BY DEF LogInv, Logged, LineClean
  <1> QED BY LogInvHolds, <1>1, PTL

\* A line has the first clean attributes offered up to the cap, in the order
\* of the calls, each call as a whole or not at all.
THEOREM FirstLogged == Spec => []FirstComeFirstLogged
  <1>1. LogInv => FirstComeFirstLogged
    BY DEF LogInv, Logged, FirstComeFirstLogged
  <1> QED BY LogInvHolds, <1>1, PTL

\* At the levels that admit Info a handler that returned has left one line, or
\* none when it was a probe that did not fail; at warn and error it has left none.
THEOREM FailuresLogged == Spec => []FailureLogged
  <1>1. LogInv => FailureLogged
    BY DEF LogInv, Logged, FailureLogged
  <1> QED BY LogInvHolds, <1>1, PTL
=============================================================================
