-------------------------- MODULE MigrationsProofs --------------------------
(* Theorems about Migrations, for any processes, seeds and prices and any   *)
(* number of calls.                                                         *)
EXTENDS Migrations, TLAPS

\* Who runs a file has marked its version, and nothing of it has happened
\* before the file has run.
UnderWay(r) ==
    LET up == runner[r].up
        to == runner[r].to
        from == IF up THEN to - 1 ELSE to + 1
    IN  /\ runner[r].pc \in {"next", "file", "ran"} =>
              IF up THEN to \in 1 .. LastVersion ELSE to \in 0 .. LastVersion - 1
        /\ runner[r].pc = "next" => recorded = [version |-> from, dirty |-> FALSE]
        /\ runner[r].pc = "file" => recorded = [version |-> to, dirty |-> TRUE] /\ Whole(from)
        /\ runner[r].pc = "ran" => recorded = [version |-> to, dirty |-> TRUE] /\ Whole(to)

\* The invariants, with what the process that holds the lock relies on.
Inv ==
    /\ TypeOK
    /\ CleanMeansWhole
    /\ DirtyMeansBetween
    /\ \A r \in Runners : UnderWay(r)

-----------------------------------------------------------------------------
(* What the files do.                                                       *)

LEMMA CreatedTables ==
    AllOf(Creates) = {"projects", "api_keys", "providers", "endpoints",
                      "inference_requests", "status_snapshots",
                      "pricing_defaults", "warm_medians"}
  <1> DEFINE range == {Creates[i] : i \in 1 .. 8}
  <1>1. 1 .. 8 = {1, 2, 3, 4, 5, 6, 7, 8}
    OBVIOUS
  <1>2. range = {Creates[1], Creates[2], Creates[3], Creates[4],
                 Creates[5], Creates[6], Creates[7], Creates[8]}
    BY <1>1
  <1>3. Len(Creates) = 8
    BY DEF Creates
  <1>4. AllOf(Creates) = range
    BY <1>3 DEF AllOf, FirstOf
  <1> QED BY <1>2, <1>4 DEF Creates

\* The down file drops what the up file creates, and no more.
LEMMA DroppedTables == AllOf(Drops) = AllOf(Creates)
  <1> DEFINE range == {Drops[i] : i \in 1 .. 8}
  <1>1. 1 .. 8 = {1, 2, 3, 4, 5, 6, 7, 8}
    OBVIOUS
  <1>2. range = {Drops[1], Drops[2], Drops[3], Drops[4],
                 Drops[5], Drops[6], Drops[7], Drops[8]}
    BY <1>1
  <1>3. Len(Drops) = 8
    BY DEF Drops
  <1>4. AllOf(Drops) = range
    BY <1>3 DEF AllOf, FirstOf
  <1> QED BY <1>2, <1>4, CreatedTables DEF Drops

\* A file that succeeds leads from the version before it to its own.
LEMMA FileReaches ==
    ASSUME NEW up \in BOOLEAN, NEW to \in 0 .. 2,
           Whole(IF up THEN to - 1 ELSE to + 1), Effect(up, to)
    PROVE  Whole(to)'
  <1>1. CASE up /\ to = 1
    BY <1>1 DEF Whole, Effect
  <1>2. CASE up /\ to = 2
    BY <1>2 DEF Whole, Effect
  <1>3. CASE ~up /\ to = 1
    BY <1>3 DEF Whole, Effect
  <1>4. CASE ~up /\ to = 0
    <2>1. tables = AllOf(Creates)
      BY <1>4 DEF Whole
    <2>2. tables' = {} /\ prices' = {}
      BY <1>4, <2>1, DroppedTables DEF Effect
    <2> QED BY <1>4, <2>2 DEF Whole
  <1> QED BY <1>1, <1>2, <1>3, <1>4 DEF Effect

\* Inserting a price leaves the database whole for the same versions.
LEMMA InsertKeepsWhole ==
    ASSUME NEW p \in Prices, InsertPricingDefault(p), NEW version, Whole(version)
    PROVE  Whole(version)'
  BY DEF InsertPricingDefault, Whole

-----------------------------------------------------------------------------
(* Steps that leave the database alone.                                     *)

States == [pc : {"idle", "waiting", "locked", "next", "file", "ran"},
           up : BOOLEAN, to : 0 .. LastVersion]

AtWork(state) == state.pc \in {"locked", "next", "file", "ran"}

\* Nobody but the holder of the lock has anything under way.
LEMMA OthersWait ==
    ASSUME TypeOK, NEW r \in Runners, holder = r, NEW s \in Runners \ {r}
    PROVE  ~AtWork(runner[s])
  BY DEF TypeOK, AtWork

\* A step of one process that leaves the database alone keeps the invariant,
\* when what the process is doing next is under way as it must be.
LEMMA StepInv ==
    ASSUME Inv, NEW r \in Runners, NEW state \in States,
           runner' = [runner EXCEPT ![r] = state],
           holder' \in Runners \cup {NoRunner},
           \A s \in Runners : s # r => (holder' = s <=> holder = s),
           holder' = r <=> AtWork(state),
           calls' \in 0 .. MaxCalls, result' \in [Runners -> Results],
           UNCHANGED dbVars,
           UnderWay(r)'
    PROVE  Inv'
  <1>1. runner \in [Runners -> States]
    BY DEF Inv, TypeOK, States
  <1>2. runner' \in [Runners -> States] /\ runner'[r] = state
          /\ \A s \in Runners : s # r => runner'[s] = runner[s]
    BY <1>1
  <1>3. \A s \in Runners : holder' = s <=> AtWork(runner'[s])
    <2>1. \A s \in Runners : holder = s <=> AtWork(runner[s])
      BY DEF Inv, TypeOK, AtWork
    <2> QED BY <2>1, <1>2
  <1>4. TypeOK'
    BY <1>2, <1>3 DEF Inv, TypeOK, States, AtWork, dbVars
  <1>5. CleanMeansWhole' /\ DirtyMeansBetween'
    BY DEF Inv, CleanMeansWhole, DirtyMeansBetween, Whole, dbVars
  <1>6. ASSUME NEW s \in Runners PROVE UnderWay(s)'
    <2>1. CASE s = r
      BY <2>1
    <2>2. CASE s # r
      BY <2>2, <1>2 DEF Inv, UnderWay, Whole, dbVars
    <2> QED BY <2>1, <2>2
  <1> QED BY <1>4, <1>5, <1>6 DEF Inv

LEMMA ReturnInv ==
    ASSUME Inv, NEW r \in Runners, NEW err \in {"nil"} \cup Errors, runner[r].pc # "idle",
           Return(r, err), UNCHANGED dbVars
    PROVE  Inv'
  <1>1. Idle \in States /\ ~AtWork(Idle)
    BY DEF Idle, States, AtWork, LastVersion
  <1>2. runner' = [runner EXCEPT ![r] = Idle] /\ runner'[r] = Idle
    BY DEF Return, Inv, TypeOK
  <1>3. holder' \in Runners \cup {NoRunner} /\ holder' # r
          /\ \A s \in Runners : s # r => (holder' = s <=> holder = s)
    BY RunnersAssumption DEF Return, Inv, TypeOK
  <1>4. calls' \in 0 .. MaxCalls /\ result' \in [Runners -> Results]
    BY DEF Return, Inv, TypeOK, Results
  <1>5. UnderWay(r)'
    BY <1>2 DEF UnderWay, Idle
  <1> QED BY <1>1, <1>2, <1>3, <1>4, <1>5, StepInv

LEMMA CallInv ==
    ASSUME Inv, NEW r \in Runners, NEW up \in BOOLEAN, Call(r, up)
    PROVE  Inv'
  <1> DEFINE state == [pc |-> "waiting", up |-> up, to |-> 0]
  <1>1. state \in States /\ ~AtWork(state)
    BY DEF States, AtWork, LastVersion
  <1>2. runner' = [runner EXCEPT ![r] = state] /\ runner'[r].pc = "waiting"
          /\ UNCHANGED <<dbVars, holder>>
    BY DEF Call, Inv, TypeOK
  <1> HIDE DEF state
  <1>3. holder' \in Runners \cup {NoRunner} /\ holder' # r
    BY <1>2 DEF Call, Inv, TypeOK
  <1>4. calls' \in 0 .. MaxCalls /\ result' \in [Runners -> Results]
    BY BoundAssumption DEF Call, Inv, TypeOK
  <1>5. UnderWay(r)'
    BY <1>2 DEF UnderWay
  <1> QED BY <1>1, <1>2, <1>3, <1>4, <1>5, StepInv

LEMMA LockInv ==
    ASSUME Inv, NEW r \in Runners, Lock(r)
    PROVE  Inv'
  <1> DEFINE state == [runner[r] EXCEPT !.pc = "locked"]
  <1>1. runner[r] \in States
    BY DEF Inv, TypeOK, States
  <1>2. state \in States /\ AtWork(state)
    BY <1>1 DEF States, AtWork
  <1>3. runner' = [runner EXCEPT ![r] = state] /\ runner'[r].pc = "locked"
          /\ UNCHANGED <<dbVars, calls, result>>
    BY <1>1 DEF Lock, Inv, TypeOK, States
  <1> HIDE DEF state
  <1>4. holder' = r /\ \A s \in Runners : s # r => (holder' = s <=> holder = s)
    BY RunnersAssumption DEF Lock, Inv, TypeOK
  <1>5. calls' \in 0 .. MaxCalls /\ result' \in [Runners -> Results]
    BY <1>3 DEF Inv, TypeOK
  <1>6. UnderWay(r)'
    BY <1>3 DEF UnderWay
  <1> QED BY <1>2, <1>3, <1>4, <1>5, <1>6, StepInv

\* Version is read and is clean: the next file's turn.
LEMMA ReadVersionInv ==
    ASSUME Inv, NEW r \in Runners, ReadVersion(r)
    PROVE  Inv'
  <1>1. CASE (Return(r, "ErrDirty") \/ Return(r, "ErrNoChange")) /\ UNCHANGED dbVars
    BY <1>1, ReturnInv DEF ReadVersion, Errors
  <1>2. CASE ~recorded.dirty /\ Proceed(r, recorded.version) /\ UNCHANGED dbVars
    <2> DEFINE up == runner[r].up
               state == [pc |-> "next", up |-> up,
                         to |-> IF up THEN recorded.version + 1 ELSE recorded.version - 1]
    <2>1. up \in BOOLEAN /\ recorded.version \in 0 .. 2
            /\ recorded = [version |-> recorded.version, dirty |-> FALSE]
      BY <1>2 DEF Inv, TypeOK, LastVersion
    <2>2. recorded.version # IF up THEN 2 ELSE 0
      BY <1>2 DEF Proceed, LastVersion
    <2>3. runner' = [runner EXCEPT ![r] = state] /\ runner'[r] = state
            /\ UNCHANGED <<dbVars, holder, calls, result>>
      BY <1>2 DEF Proceed, Inv, TypeOK
    <2>4. CASE up
      <3> DEFINE forth == [pc |-> "next", up |-> TRUE, to |-> recorded.version + 1]
      <3>1. state = forth /\ forth \in States /\ AtWork(forth)
        BY <2>1, <2>2, <2>4 DEF States, AtWork, LastVersion
      <3>2. UnderWay(r)'
        BY <2>1, <2>2, <2>3, <2>4, <3>1 DEF UnderWay, LastVersion, dbVars
      <3>3. holder = r /\ holder' \in Runners \cup {NoRunner}
              /\ calls' \in 0 .. MaxCalls /\ result' \in [Runners -> Results]
        BY <2>3 DEF ReadVersion, Inv, TypeOK
      <3> QED BY <2>3, <3>1, <3>2, <3>3, StepInv
    <2>5. CASE ~up
      <3> DEFINE back == [pc |-> "next", up |-> FALSE, to |-> recorded.version - 1]
      <3>0. up = FALSE
        BY <2>1, <2>5
      <3>1. state = back /\ back \in States /\ AtWork(back)
        <4>1. state = back
          BY <3>0
        <4>2. recorded.version - 1 \in 0 .. 2
          BY <2>1, <2>2, <3>0
        <4> QED BY <4>1, <4>2 DEF States, AtWork, LastVersion
      <3>2. UnderWay(r)'
        BY <2>1, <2>2, <2>3, <2>5, <3>1 DEF UnderWay, LastVersion, dbVars
      <3>3. holder = r /\ holder' \in Runners \cup {NoRunner}
              /\ calls' \in 0 .. MaxCalls /\ result' \in [Runners -> Results]
        BY <2>3 DEF ReadVersion, Inv, TypeOK
      <3> QED BY <2>3, <3>1, <3>2, <3>3, StepInv
    <2> QED BY <2>1, <2>4, <2>5
  <1> QED BY <1>1, <1>2 DEF ReadVersion

\* Steps that change the database: those of the process that holds the lock,
\* while nobody else is at work.
LEMMA HolderInv ==
    ASSUME Inv, NEW r \in Runners, holder = r,
           NEW state \in States,
           runner' = [runner EXCEPT ![r] = state],
           holder' = IF AtWork(state) THEN r ELSE NoRunner,
           UNCHANGED calls, result' \in [Runners -> Results],
           recorded' \in [version : 0 .. LastVersion, dirty : BOOLEAN],
           tables' \subseteq AllOf(Creates), prices' \subseteq Prices,
           CleanMeansWhole', DirtyMeansBetween', UnderWay(r)'
    PROVE  Inv'
  <1>1. runner \in [Runners -> States]
    BY DEF Inv, TypeOK, States
  <1>2. runner' \in [Runners -> States] /\ runner'[r] = state
          /\ \A s \in Runners : s # r => runner'[s] = runner[s]
    BY <1>1
  <1>3. \A s \in Runners : s # r => ~AtWork(runner'[s])
    BY <1>2, OthersWait DEF Inv
  <1>4. \A s \in Runners : holder' = s <=> AtWork(runner'[s])
    BY <1>2, <1>3, RunnersAssumption
  <1>5. TypeOK'
    BY <1>2, <1>4 DEF Inv, TypeOK, States, AtWork
  <1>6. ASSUME NEW s \in Runners PROVE UnderWay(s)'
    <2>1. CASE s = r
      BY <2>1
    <2>2. CASE s # r
      BY <2>2, <1>3 DEF UnderWay, AtWork
    <2> QED BY <2>1, <2>2
  <1> QED BY <1>5, <1>6 DEF Inv

LEMMA MarkDirtyInv ==
    ASSUME Inv, NEW r \in Runners, MarkDirty(r)
    PROVE  Inv'
  <1> DEFINE state == [runner[r] EXCEPT !.pc = "file"]
  <1>1. runner[r] \in States /\ holder = r /\ UnderWay(r) /\ runner[r].pc = "next"
    BY DEF Inv, TypeOK, States, MarkDirty
  <1>2. state \in States /\ AtWork(state)
    BY <1>1 DEF States, AtWork
  <1>3. PICK to \in 0 .. 2, from \in 0 .. 2 :
            /\ to = runner[r].to
            /\ from = IF runner[r].up THEN to - 1 ELSE to + 1
            /\ IF runner[r].up THEN to \in 1 .. LastVersion ELSE to \in 0 .. LastVersion - 1
    BY <1>1 DEF UnderWay, States, LastVersion
  <1>4. runner' = [runner EXCEPT ![r] = state] /\ runner'[r] = state
          /\ recorded' = [version |-> to, dirty |-> TRUE]
          /\ UNCHANGED <<tables, prices, holder, result, calls>>
    BY <1>1, <1>3 DEF MarkDirty, Inv, TypeOK, States
  <1>5. Whole(from)
    BY <1>1, <1>3 DEF UnderWay, Inv, CleanMeansWhole
  <1>6. Whole(from)'
    BY <1>4, <1>5 DEF Whole
  <1>7. runner'[r].up = runner[r].up /\ runner'[r].to = to /\ runner'[r].pc = "file"
    BY <1>1, <1>3, <1>4 DEF States
  <1> HIDE DEF state
  <1>8. UnderWay(r)'
    BY <1>3, <1>4, <1>6, <1>7 DEF UnderWay, LastVersion
  <1>9. CleanMeansWhole'
    BY <1>4 DEF CleanMeansWhole
  <1>10. DirtyMeansBetween'
    <2>1. from \in {to - 1, to, to + 1} /\ recorded'.version = to
      BY <1>3, <1>4
    <2> QED BY <2>1, <1>6 DEF DirtyMeansBetween, LastVersion
  <1>11. recorded' \in [version : 0 .. LastVersion, dirty : BOOLEAN]
           /\ tables' \subseteq AllOf(Creates) /\ prices' \subseteq Prices
           /\ result' \in [Runners -> Results]
    BY <1>4 DEF Inv, TypeOK, LastVersion
  <1> QED BY <1>1, <1>2, <1>4, <1>8, <1>9, <1>10, <1>11, HolderInv

LEMMA RunFileInv ==
    ASSUME Inv, NEW r \in Runners, RunFile(r)
    PROVE  Inv'
  <1>1. CASE Return(r, "ErrFile") /\ UNCHANGED dbVars
    BY <1>1, ReturnInv DEF RunFile, Errors
  <1>2. CASE /\ Effect(runner[r].up, runner[r].to)
             /\ runner' = [runner EXCEPT ![r].pc = "ran"]
             /\ UNCHANGED <<recorded, holder, result, calls>>
    <2> DEFINE state == [runner[r] EXCEPT !.pc = "ran"]
    <2>1. runner[r] \in States /\ holder = r /\ UnderWay(r) /\ runner[r].pc = "file"
      BY DEF Inv, TypeOK, States, RunFile
    <2>2. state \in States /\ AtWork(state)
      BY <2>1 DEF States, AtWork
    <2>3. PICK up \in BOOLEAN, to \in 0 .. 2 :
              /\ up = runner[r].up /\ to = runner[r].to
              /\ recorded = [version |-> to, dirty |-> TRUE]
              /\ Whole(IF up THEN to - 1 ELSE to + 1)
              /\ IF up THEN to \in 1 .. LastVersion ELSE to \in 0 .. LastVersion - 1
      BY <2>1 DEF UnderWay, States, LastVersion
    <2>4. runner' = [runner EXCEPT ![r] = state] /\ runner'[r] = state
      BY <1>2, <2>1 DEF Inv, TypeOK, States
    <2>5. runner'[r].up = up /\ runner'[r].to = to /\ runner'[r].pc = "ran"
      BY <2>1, <2>3, <2>4 DEF States
    <2> HIDE DEF state
    <2>6. Whole(to)'
      BY <1>2, <2>3, FileReaches
    <2>7. recorded' = [version |-> to, dirty |-> TRUE]
      BY <1>2, <2>3
    <2>8. UnderWay(r)'
      BY <2>3, <2>5, <2>6, <2>7 DEF UnderWay
    <2>9. CleanMeansWhole' /\ DirtyMeansBetween'
      BY <2>6, <2>7 DEF CleanMeansWhole, DirtyMeansBetween, LastVersion
    <2>10. tables' \subseteq AllOf(Creates) /\ prices' \subseteq Prices
      BY <1>2, SeedsAssumption DEF Effect, Inv, TypeOK
    <2>11. recorded' \in [version : 0 .. LastVersion, dirty : BOOLEAN]
              /\ result' \in [Runners -> Results]
      BY <1>2 DEF Inv, TypeOK
    <2> QED BY <1>2, <2>1, <2>2, <2>4, <2>8, <2>9, <2>10, <2>11, HolderInv
  <1> QED BY <1>1, <1>2 DEF RunFile

LEMMA MarkCleanInv ==
    ASSUME Inv, NEW r \in Runners, MarkClean(r)
    PROVE  Inv'
  <1>1. runner[r] \in States /\ holder = r /\ UnderWay(r) /\ runner[r].pc = "ran"
    BY DEF Inv, TypeOK, States, MarkClean
  <1>2. PICK up \in BOOLEAN, to \in 0 .. 2 :
            /\ up = runner[r].up /\ to = runner[r].to
            /\ recorded = [version |-> to, dirty |-> TRUE]
            /\ Whole(to)
    BY <1>1 DEF UnderWay, States, LastVersion
  <1>3. recorded' = [version |-> to, dirty |-> FALSE] /\ UNCHANGED <<tables, prices>>
    BY <1>2 DEF MarkClean
  <1>4. Whole(to)'
    BY <1>2, <1>3 DEF Whole
  <1>5. /\ CleanMeansWhole' /\ DirtyMeansBetween'
        /\ recorded' \in [version : 0 .. LastVersion, dirty : BOOLEAN]
        /\ tables' \subseteq AllOf(Creates) /\ prices' \subseteq Prices
    BY <1>3, <1>4 DEF CleanMeansWhole, DirtyMeansBetween, LastVersion, Inv, TypeOK
  <1>6. CASE Return(r, "nil")
    <2>1. Idle \in States /\ ~AtWork(Idle)
      BY DEF Idle, States, AtWork, LastVersion
    <2>2. runner' = [runner EXCEPT ![r] = Idle] /\ runner'[r] = Idle
            /\ holder' = NoRunner /\ UNCHANGED calls
            /\ result' \in [Runners -> Results]
      BY <1>1, <1>6 DEF Return, Inv, TypeOK, Results
    <2>3. UnderWay(r)'
      BY <2>2 DEF UnderWay, Idle
    <2> QED BY <1>1, <1>5, <2>1, <2>2, <2>3, HolderInv
  <1>7. CASE Proceed(r, to)
    <2>1. to # (IF up THEN 2 ELSE 0) /\ UNCHANGED <<holder, result, calls>>
      BY <1>2, <1>7 DEF Proceed, LastVersion
    <2>2. PICK next \in 0 .. 2 :
              /\ next = IF up THEN to + 1 ELSE to - 1
              /\ IF up THEN next \in 1 .. 2 ELSE next \in 0 .. 1
      BY <1>2, <2>1
    <2> DEFINE state == [pc |-> "next", up |-> up, to |-> next]
    <2>3. state \in States /\ AtWork(state)
      BY DEF States, AtWork, LastVersion
    <2>4. runner' = [runner EXCEPT ![r] = state] /\ runner'[r] = state
      BY <1>2, <1>7, <2>2 DEF Proceed, Inv, TypeOK
    <2>5. UnderWay(r)'
      <3>1. runner'[r].up = up /\ runner'[r].to = next /\ runner'[r].pc = "next"
        BY <2>4
      <3>2. to = IF up THEN next - 1 ELSE next + 1
        BY <2>2
      <3> HIDE DEF state
      <3>3. CASE up
        <4>1. to = next - 1 /\ next \in 1 .. 2
          BY <2>2, <3>2, <3>3
        <4> QED BY <1>3, <3>1, <3>3, <4>1 DEF UnderWay, LastVersion
      <3>4. CASE ~up
        <4>1. to = next + 1 /\ next \in 0 .. 1
          BY <2>2, <3>2, <3>4
        <4> QED BY <1>3, <3>1, <3>4, <4>1 DEF UnderWay, LastVersion
      <3> QED BY <3>3, <3>4
    <2>6. result' \in [Runners -> Results]
      BY <2>1 DEF Inv, TypeOK
    <2> HIDE DEF state
    <2> QED BY <1>1, <1>5, <2>1, <2>3, <2>4, <2>5, <2>6, HolderInv
  <1> QED BY <1>2, <1>6, <1>7 DEF MarkClean

LEMMA InsertInv ==
    ASSUME Inv, NEW p \in Prices, InsertPricingDefault(p)
    PROVE  Inv'
  <1>1. UNCHANGED <<recorded, tables, holder, runner, result, calls>>
          /\ prices' \subseteq Prices
    BY DEF InsertPricingDefault, Inv, TypeOK
  <1>2. \A version \in 0 .. 2 : Whole(version) => Whole(version)'
    BY InsertKeepsWhole
  <1>3. TypeOK'
    BY <1>1 DEF Inv, TypeOK
  <1>4. CleanMeansWhole'
    <2>1. recorded.version \in 0 .. 2
      BY DEF Inv, TypeOK, LastVersion
    <2>2. PICK version \in 0 .. 2 : version = recorded.version
      BY <2>1
    <2> QED BY <1>1, <1>2, <2>2 DEF Inv, CleanMeansWhole
  <1>5. DirtyMeansBetween'
    BY <1>1, <1>2 DEF Inv, DirtyMeansBetween, LastVersion
  <1>6. ASSUME NEW r \in Runners PROVE UnderWay(r)'
    <2>1. PICK up \in BOOLEAN, to \in 0 .. 2 : up = runner[r].up /\ to = runner[r].to
      BY DEF Inv, TypeOK, LastVersion
    <2>2. UnderWay(r)
      BY DEF Inv
    <2>3. CASE runner[r].pc \notin {"file", "ran"}
      BY <1>1, <2>2, <2>3 DEF UnderWay
    <2>4. CASE runner[r].pc = "ran"
      BY <1>1, <1>2, <2>1, <2>2, <2>4 DEF UnderWay
    <2>5. CASE runner[r].pc = "file"
      <3>1. PICK from \in 0 .. 2 : from = (IF up THEN to - 1 ELSE to + 1) /\ Whole(from)
        BY <2>1, <2>2, <2>5 DEF UnderWay, LastVersion
      <3>2. Whole(from)'
        BY <1>2, <3>1
      <3> QED BY <1>1, <2>1, <2>2, <2>5, <3>1, <3>2 DEF UnderWay
    <2> QED BY <2>3, <2>4, <2>5
  <1> QED BY <1>3, <1>4, <1>5, <1>6 DEF Inv

LEMMA InitInv == Init => Inv
  BY RunnersAssumption, BoundAssumption
  DEF Init, Inv, TypeOK, CleanMeansWhole, DirtyMeansBetween, UnderWay, Whole,
      Idle, LastVersion, Results

LEMMA NextInv == Inv /\ [Next]_vars => Inv'
  <1> SUFFICES ASSUME Inv, [Next]_vars PROVE Inv'
    OBVIOUS
  <1>1. ASSUME NEW r \in Runners, \E up \in BOOLEAN : Call(r, up) PROVE Inv'
    BY <1>1, CallInv
  <1>2. ASSUME NEW r \in Runners, LockTimeout(r) \/ Interrupt(r) PROVE Inv'
    BY <1>2, ReturnInv DEF LockTimeout, Interrupt, Errors
  <1>3. ASSUME NEW r \in Runners,
               \/ Lock(r) \/ ReadVersion(r) \/ MarkDirty(r)
               \/ RunFile(r) \/ MarkClean(r)
        PROVE  Inv'
    BY <1>3, LockInv, ReadVersionInv, MarkDirtyInv, RunFileInv, MarkCleanInv
  <1>4. ASSUME NEW p \in Prices, InsertPricingDefault(p) PROVE Inv'
    BY <1>4, InsertInv
  <1>5. CASE UNCHANGED vars
    BY <1>5 DEF vars, dbVars, Inv, TypeOK, CleanMeansWhole, DirtyMeansBetween,
                UnderWay, Whole
  <1>6. CASE Finished
    BY <1>5, <1>6 DEF Finished
  <1> QED BY <1>1, <1>2, <1>3, <1>4, <1>5, <1>6 DEF Next

-----------------------------------------------------------------------------
(* What a call that returns has done.                                       *)

\* A call ends in Return only.
LEMMA ReturnResult ==
    ASSUME TypeOK, NEW r \in Runners, NEW s \in Runners, NEW err, Return(s, err),
           runner[r].pc # "idle", runner'[r].pc = "idle"
    PROVE  r = s /\ result'[r] = IF err = "nil" \/ Ignored(err) THEN "nil" ELSE err
  BY DEF TypeOK, Return

\* The other steps let no call end.
LEMMA NoReturn ==
    ASSUME TypeOK, NEW r \in Runners, runner[r].pc # "idle", runner'[r].pc = "idle",
           [Next]_vars
    PROVE  \/ LockTimeout(r) /\ Return(r, "ErrLockTimeout")
           \/ Interrupt(r) /\ Return(r, "interrupted")
           \/ ReadVersion(r) /\ recorded.dirty /\ Return(r, "ErrDirty")
           \/ /\ ReadVersion(r) /\ ~recorded.dirty /\ Return(r, "ErrNoChange")
              /\ recorded.version = IF runner[r].up THEN LastVersion ELSE 0
           \/ RunFile(r) /\ Return(r, "ErrFile") /\ ~Succeeds(runner[r].up, runner[r].to)
           \/ /\ MarkClean(r) /\ Return(r, "nil")
              /\ runner[r].to = IF runner[r].up THEN LastVersion ELSE 0
  <1>1. runner' # runner
    OBVIOUS
  <1>2. PICK s \in Runners :
            \/ \E up \in BOOLEAN : Call(s, up)
            \/ Lock(s) \/ LockTimeout(s) \/ ReadVersion(s)
            \/ MarkDirty(s) \/ RunFile(s) \/ MarkClean(s) \/ Interrupt(s)
    BY <1>1 DEF Next, vars, InsertPricingDefault, Finished
  <1>3. ASSUME NEW state, state.pc # "idle", runner' = [runner EXCEPT ![s] = state]
        PROVE  FALSE
    BY <1>3 DEF TypeOK
  <1>4. ASSUME NEW pc, pc # "idle", runner' = [runner EXCEPT ![s].pc = pc]
        PROVE  FALSE
    BY <1>4 DEF TypeOK
  <1>5. ~Call(s, TRUE) /\ ~Call(s, FALSE) /\ ~Lock(s) /\ ~MarkDirty(s)
    BY <1>3, <1>4 DEF Call, Lock, MarkDirty
  <1>6. \A version : ~Proceed(s, version)
    BY <1>3 DEF Proceed
  <1>7. ASSUME NEW err, Return(s, err) PROVE r = s
    BY <1>7, ReturnResult
  <1>8. CASE LockTimeout(s)
    BY <1>7, <1>8 DEF LockTimeout
  <1>9. CASE Interrupt(s)
    BY <1>7, <1>9 DEF Interrupt
  <1>10. CASE ReadVersion(s)
    BY <1>6, <1>7, <1>10 DEF ReadVersion
  <1>11. CASE RunFile(s)
    BY <1>4, <1>7, <1>11 DEF RunFile
  <1>12. CASE MarkClean(s)
    BY <1>6, <1>7, <1>12 DEF MarkClean
  <1> QED BY <1>2, <1>5, <1>8, <1>9, <1>10, <1>11, <1>12

Reached(r) ==
    /\ recorded' = [version |-> IF runner[r].up THEN LastVersion ELSE 0, dirty |-> FALSE]
    /\ Whole(recorded.version)'

LEMMA NilReached ==
    ASSUME Inv, [Next]_vars, NEW r \in Runners,
           runner[r].pc # "idle", runner'[r].pc = "idle", result'[r] = "nil"
    PROVE  Reached(r)
  <1>1. CASE /\ ReadVersion(r) /\ ~recorded.dirty /\ Return(r, "ErrNoChange")
             /\ recorded.version = IF runner[r].up THEN LastVersion ELSE 0
    <2>1. UNCHANGED dbVars
      BY <1>1 DEF ReadVersion
    <2>2. recorded = [version |-> IF runner[r].up THEN LastVersion ELSE 0, dirty |-> FALSE]
      BY <1>1 DEF Inv, TypeOK
    <2>3. Whole(recorded.version)
      BY <1>1 DEF Inv, CleanMeansWhole
    <2> QED BY <2>1, <2>2, <2>3 DEF Reached, dbVars, Whole
  <1>2. CASE /\ MarkClean(r) /\ Return(r, "nil")
             /\ runner[r].to = IF runner[r].up THEN LastVersion ELSE 0
    <2>1. recorded' = [version |-> runner[r].to, dirty |-> FALSE]
      <3>1. recorded = [version |-> runner[r].to, dirty |-> TRUE]
        <4>1. UnderWay(r) /\ runner[r].pc = "ran"
          BY <1>2 DEF Inv, MarkClean
        <4> QED BY <4>1 DEF UnderWay
      <3> QED BY <1>2, <3>1 DEF MarkClean
    <2>2. Inv'
      BY NextInv
    <2> QED BY <1>2, <2>1, <2>2 DEF Reached, Inv, CleanMeansWhole
  <1>3. \A err \in {"ErrLockTimeout", "interrupted", "ErrDirty", "ErrFile"} : ~Return(r, err)
    BY ReturnResult DEF Inv, Ignored
  <1> QED BY <1>1, <1>2, <1>3, NoReturn DEF Inv

\* In a whole database every file succeeds but the seeds, which fail over a
\* price that is there already.
LEMMA CreatesWork ==
    ASSUME Whole(0)
    PROVE  CreatesSucceed
  <1>1. DOMAIN Creates = {1, 2, 3, 4, 5, 6, 7, 8}
    BY DEF Creates
  <1>2. tables = {}
    BY DEF Whole
  <1>3. FirstOf(1, Creates) = {"projects"}
    BY DEF FirstOf, Creates
  <1>4. {"projects"} \subseteq FirstOf(2, Creates)
    BY DEF FirstOf, Creates
  <1>5. {"projects", "providers"} \subseteq FirstOf(3, Creates)
    BY DEF FirstOf, Creates
  <1>6. \A n \in {4, 5, 6, 7} : {"endpoints"} \subseteq FirstOf(n, Creates)
    <2>1. \A n \in {4, 5, 6, 7} : 4 \in 1 .. n
      OBVIOUS
    <2>2. Creates[4] = "endpoints"
      BY DEF Creates
    <2> QED BY <2>1, <2>2 DEF FirstOf
  <1>7. \A n \in {1, 2, 3, 4, 5, 6, 7, 8} : Refers[Creates[n]] \subseteq FirstOf(n - 1, Creates)
    BY <1>3, <1>4, <1>5, <1>6 DEF Creates, Refers
  <1> QED BY <1>1, <1>2, <1>7 DEF CreatesSucceed

LEMMA DropsWork ==
    ASSUME tables \subseteq AllOf(Creates)
    PROVE  DropsSucceed
  <1>1. DOMAIN Drops = {1, 2, 3, 4, 5, 6, 7, 8}
    BY DEF Drops
  <1>2. \A n \in 1 .. 8 : \A i \in 1 .. n : Drops[i] \in FirstOf(n, Drops)
    BY DEF FirstOf
  <1>3. \A t \in tables : Refers[t] \subseteq {"projects", "providers", "endpoints"}
    BY CreatedTables DEF Refers
  <1>4. ASSUME NEW n \in {1, 2, 3, 4, 7}, NEW t \in tables
        PROVE  Drops[n] \notin Refers[t]
    <2>1. Drops[n] \notin {"projects", "providers", "endpoints"}
      BY DEF Drops
    <2> QED BY <1>3, <2>1
  <1>5. ASSUME NEW t \in tables \ FirstOf(5, Drops) PROVE Drops[5] \notin Refers[t]
    <2>1. {Drops[1], Drops[2], Drops[3], Drops[4], Drops[5]} \subseteq FirstOf(5, Drops)
      BY <1>2
    <2>2. t \in {"providers", "api_keys", "projects"}
      BY <2>1, CreatedTables DEF Drops
    <2> QED BY <2>2 DEF Drops, Refers
  <1>6. ASSUME NEW t \in tables \ FirstOf(6, Drops) PROVE Drops[6] \notin Refers[t]
    <2>1. {Drops[1], Drops[2], Drops[3], Drops[4], Drops[5], Drops[6]} \subseteq FirstOf(6, Drops)
      BY <1>2
    <2>2. t \in {"api_keys", "projects"}
      BY <2>1, CreatedTables DEF Drops
    <2> QED BY <2>2 DEF Drops, Refers
  <1>7. ASSUME NEW t \in tables \ FirstOf(8, Drops) PROVE Drops[8] \notin Refers[t]
    <2>1. {Drops[1], Drops[2], Drops[3], Drops[4],
           Drops[5], Drops[6], Drops[7], Drops[8]} \subseteq FirstOf(8, Drops)
      BY <1>2
    <2> QED BY <2>1, CreatedTables DEF Drops
  <1> QED BY <1>1, <1>4, <1>5, <1>6, <1>7 DEF DropsSucceed

LEMMA FilesWork ==
    ASSUME Inv, NEW r \in Runners, runner[r].pc = "file",
           ~Succeeds(runner[r].up, runner[r].to)
    PROVE  recorded.dirty /\ runner[r].to = 2 /\ Seeds \cap prices # {}
  <1>1. PICK up \in BOOLEAN, to \in 0 .. 2 :
            /\ up = runner[r].up /\ to = runner[r].to
            /\ recorded = [version |-> to, dirty |-> TRUE]
            /\ Whole(IF up THEN to - 1 ELSE to + 1)
            /\ IF up THEN to \in 1 .. 2 ELSE to \in 0 .. 1
    <2>1. runner[r].up \in BOOLEAN /\ runner[r].to \in 0 .. 2 /\ UnderWay(r)
      BY DEF Inv, TypeOK, LastVersion
    <2> QED BY <2>1 DEF UnderWay, LastVersion
  <1>2. ~(up /\ to = 1)
    BY <1>1, CreatesWork DEF Succeeds
  <1>3. ~(~up /\ to = 0)
    <2>1. DropsSucceed
      BY DropsWork DEF Inv, TypeOK
    <2> QED BY <1>1, <2>1 DEF Succeeds
  <1>4. "pricing_defaults" \in tables
    <2>1. tables = AllOf(Creates)
      BY <1>1, <1>2, <1>3 DEF Whole
    <2> QED BY <2>1, CreatedTables
  <1>5. ~(~up /\ to = 1)
    BY <1>1, <1>4 DEF Succeeds
  <1>6. up /\ to = 2
    BY <1>1, <1>2, <1>3, <1>5
  <1> QED BY <1>1, <1>4, <1>6 DEF Succeeds

LEMMA ErrorDirty ==
    ASSUME Inv, [Next]_vars, NEW r \in Runners,
           runner[r].pc # "idle", runner'[r].pc = "idle",
           result'[r] \notin {"nil", "interrupted", "ErrLockTimeout"}
    PROVE  /\ recorded'.dirty
           /\ runner[r].pc = "file" => runner[r].to = 2 /\ Seeds \cap prices # {}
  <1>1. CASE ReadVersion(r) /\ recorded.dirty
    BY <1>1 DEF ReadVersion, dbVars
  <1>2. CASE RunFile(r) /\ Return(r, "ErrFile") /\ ~Succeeds(runner[r].up, runner[r].to)
    <2>1. UNCHANGED recorded /\ runner[r].pc = "file"
      BY <1>2 DEF RunFile, dbVars
    <2> QED BY <1>2, <2>1, FilesWork
  <1>3. ~Return(r, "ErrLockTimeout") /\ ~Return(r, "interrupted")
          /\ ~Return(r, "ErrNoChange") /\ ~Return(r, "nil")
    BY ReturnResult DEF Inv, Ignored
  <1> QED BY <1>1, <1>2, <1>3, NoReturn DEF Inv

-----------------------------------------------------------------------------
(* The theorems.                                                            *)

\* The invariant holds in every reachable state.
THEOREM InvHolds == Spec => []Inv
  BY InitInv, NextInv, PTL DEF Spec

\* The types hold, and the advisory lock is with whoever is at work, however
\* many processes migrate (golang-migrate as db.go:37-59 uses it).
THEOREM MigrationsTyped == Spec => []TypeOK
  <1>1. Inv => TypeOK
    BY DEF Inv
  <1> QED BY InvHolds, <1>1, PTL

\* A clean version can be believed after any interruptions of any number of
\* processes (db.go:43, 55 and the four files).
THEOREM CleanIsWhole == Spec => []CleanMeansWhole
  <1>1. Inv => CleanMeansWhole
    BY DEF Inv
  <1> QED BY InvHolds, <1>1, PTL

\* A dirty version hides no halfway state (the files, each one transaction).
THEOREM DirtyIsBetween == Spec => []DirtyMeansBetween
  <1>1. Inv => DirtyMeansBetween
    BY DEF Inv
  <1> QED BY InvHolds, <1>1, PTL

\* RunMigrations and MigrateDown return nil only over a database that is as
\* they promise (db.go:43-46, 55-58).
THEOREM NilIsReached == Spec => NilMeansReached
  <1>1. Inv /\ [Next]_vars =>
          [\A r \in Runners :
              runner[r].pc # "idle" /\ runner'[r].pc = "idle" /\ result'[r] = "nil" =>
                  /\ recorded' = [version |-> IF runner[r].up THEN LastVersion ELSE 0, dirty |-> FALSE]
                  /\ Whole(recorded.version)']_vars
    BY NilReached DEF Reached
  <1> QED BY InvHolds, <1>1, PTL DEF Spec, NilMeansReached

\* Nothing but a version that is dirty already, a price in the way of a seed, a
\* lock or an interruption makes a call fail: the files create and drop the
\* tables in an order that their references allow.
THEOREM ErrorIsDirty == Spec => ErrorMeansDirty
  <1>1. Inv /\ [Next]_vars =>
          [\A r \in Runners :
              runner[r].pc # "idle" /\ runner'[r].pc = "idle"
                  /\ result'[r] \notin {"nil", "interrupted", "ErrLockTimeout"} =>
                      /\ recorded'.dirty
                      /\ runner[r].pc = "file" => runner[r].to = 2 /\ Seeds \cap prices # {}]_vars
    BY ErrorDirty
  <1> QED BY InvHolds, <1>1, PTL DEF Spec, ErrorMeansDirty
=============================================================================
