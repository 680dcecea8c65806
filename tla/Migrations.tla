----------------------------- MODULE Migrations -----------------------------
(***************************************************************************)
(* RunMigrations and MigrateDown of storage/db.go over the SQL files of    *)
(* internal/migrations, while the Store of another process inserts prices. *)
(* Runners are processes; each may be stopped or lose its connection at    *)
(* any step, and calls again later.                                        *)
(*                                                                         *)
(* golang-migrate is outside the repository: it takes an advisory lock in  *)
(* its database session, records the version it is going to as dirty, runs *)
(* the file as one implicit transaction, and records it as clean.          *)
(***************************************************************************)
EXTENDS Naturals, Sequences

CONSTANTS
    Runners,   \* the processes that migrate
    NoRunner,
    Seeds,     \* the keys of the prices in 000002_seed_pricing_defaults.up.sql
    Prices,    \* the keys of prices that may be inserted
    MaxCalls   \* bound: calls of RunMigrations and MigrateDown

ASSUME BoundAssumption == MaxCalls \in Nat
ASSUME RunnersAssumption == NoRunner \notin Runners
ASSUME SeedsAssumption == Seeds # {} /\ Seeds \subseteq Prices

\* Versions are 0, for none, 1 and 2.
LastVersion == 2

VARIABLES
    recorded,  \* schema_migrations
    tables,    \* the tables of the application
    prices,    \* the keys in pricing_defaults
    holder,    \* who has the advisory lock
    runner,    \* what each process is doing
    result,    \* what its last call returned
    calls      \* the number of calls made
dbVars == <<recorded, tables, prices>>
vars == <<dbVars, holder, runner, result, calls>>

Errors == {"ErrNoChange", "ErrLockTimeout", "ErrDirty", "ErrFile", "interrupted"}
Results == {"none", "nil"} \cup Errors

Idle == [pc |-> "idle", up |-> TRUE, to |-> 0]

Init ==
    /\ recorded = [version |-> 0, dirty |-> FALSE]
    /\ tables = {}
    /\ prices = {}
    /\ holder = NoRunner
    /\ runner = [r \in Runners |-> Idle]
    /\ result = [r \in Runners |-> "none"]
    /\ calls = 0

-----------------------------------------------------------------------------
(* The files.                                                               *)

\* The tables in the order in which 000001_init.up.sql creates them.
Creates == <<"projects", "api_keys", "providers", "endpoints",
             "inference_requests", "status_snapshots", "pricing_defaults",
             "warm_medians">>

\* Broken: pricing_defaults was forgotten.
DropsTooFew == <<"warm_medians", "status_snapshots", "inference_requests",
                 "endpoints", "providers", "api_keys", "projects">>

\* Broken: in the order of creation.
DropsInOrder == Creates

\* The tables in the order in which 000001_init.down.sql drops them.
Drops == <<"warm_medians", "pricing_defaults", "status_snapshots",
           "inference_requests", "endpoints", "providers", "api_keys",
           "projects">>

\* REFERENCES.
Refers ==
    [projects |-> {}, api_keys |-> {"projects"}, providers |-> {"projects"},
     endpoints |-> {"projects", "providers"}, pricing_defaults |-> {},
     inference_requests |-> {"endpoints"}, status_snapshots |-> {"endpoints"},
     warm_medians |-> {"endpoints"}]

FirstOf(n, list) == {list[i] : i \in 1 .. n}
AllOf(list) == FirstOf(Len(list), list)

\* CREATE TABLE needs the tables it refers to, and that it is new.
CreatesSucceed ==
    \A n \in DOMAIN Creates :
        /\ Creates[n] \notin tables
        /\ Refers[Creates[n]] \subseteq FirstOf(n - 1, Creates)

\* DROP TABLE IF EXISTS needs that no other table refers to it.
DropsSucceed ==
    \A n \in DOMAIN Drops :
        \A t \in tables \ FirstOf(n, Drops) : Drops[n] \notin Refers[t]

\* The file that leads up to a version, or down to it, succeeds.
Succeeds(up, to) ==
    \/ up /\ to = 1 /\ CreatesSucceed
    \/ up /\ to = 2 /\ "pricing_defaults" \in tables /\ Seeds \cap prices = {}
    \/ ~up /\ to = 1 /\ "pricing_defaults" \in tables
    \/ ~up /\ to = 0 /\ DropsSucceed

\* What it does then.
Effect(up, to) ==
    \/ up /\ to = 1 /\ tables' = tables \cup AllOf(Creates) /\ UNCHANGED prices
    \/ up /\ to = 2 /\ prices' = prices \cup Seeds /\ UNCHANGED tables
    \/ ~up /\ to = 1 /\ prices' = prices \ Seeds /\ UNCHANGED tables
    \/ /\ ~up /\ to = 0
       /\ tables' = tables \ AllOf(Drops)
       /\ prices' = IF "pricing_defaults" \in tables' THEN prices ELSE {}

-----------------------------------------------------------------------------
(* The calls.                                                               *)

\* Broken: somebody else is migrating, so there is nothing to do.
NoChangeOrLocked(err) == err \in {"ErrNoChange", "ErrLockTimeout"}

\* The error that RunMigrations and MigrateDown do not return.
Ignored(err) == err = "ErrNoChange"

\* Broken: the session outlives the call.
ReturnUnclosed(r, err) ==
    /\ runner' = [runner EXCEPT ![r] = Idle]
    /\ result' = [result EXCEPT ![r] =
                    IF err = "nil" \/ Ignored(err) THEN "nil" ELSE err]
    /\ UNCHANGED <<holder, calls>>

\* The call returns.  golang-migrate gives the lock back at the end of Up and
\* Down and Close ends the session, with nothing in between that matters.
Return(r, err) ==
    /\ runner' = [runner EXCEPT ![r] = Idle]
    /\ result' = [result EXCEPT ![r] =
                    IF err = "nil" \/ Ignored(err) THEN "nil" ELSE err]
    /\ holder' = IF holder = r THEN NoRunner ELSE holder
    /\ UNCHANGED calls

\* RunMigrations or MigrateDown is called.  If newMigrator does not succeed the
\* call ends as by Interrupt, before it has the lock.
Call(r, up) ==
    /\ runner[r].pc = "idle"
    /\ calls < MaxCalls
    /\ calls' = calls + 1
    /\ runner' = [runner EXCEPT ![r] = [pc |-> "waiting", up |-> up, to |-> 0]]
    /\ UNCHANGED <<dbVars, holder, result>>

Lock(r) ==
    /\ runner[r].pc = "waiting"
    /\ holder = NoRunner
    /\ holder' = r
    /\ runner' = [runner EXCEPT ![r].pc = "locked"]
    /\ UNCHANGED <<dbVars, result, calls>>

LockTimeout(r) ==
    /\ runner[r].pc = "waiting"
    /\ holder # NoRunner
    /\ Return(r, "ErrLockTimeout")
    /\ UNCHANGED dbVars

\* The next version, if there is one, on the way of the call.
Proceed(r, version) ==
    LET up == runner[r].up
    IN  /\ version # IF up THEN LastVersion ELSE 0
        /\ runner' = [runner EXCEPT ![r] =
                        [pc |-> "next", up |-> up,
                         to |-> IF up THEN version + 1 ELSE version - 1]]
        /\ UNCHANGED <<holder, result, calls>>

\* The version is read: a dirty one ends the call.
ReadVersion(r) ==
    /\ runner[r].pc = "locked"
    /\ \/ recorded.dirty /\ Return(r, "ErrDirty")
       \/ ~recorded.dirty /\ Proceed(r, recorded.version)
       \/ /\ ~recorded.dirty
          /\ recorded.version = IF runner[r].up THEN LastVersion ELSE 0
          /\ Return(r, "ErrNoChange")
    /\ UNCHANGED dbVars

MarkDirty(r) ==
    /\ runner[r].pc = "next"
    /\ recorded' = [version |-> runner[r].to, dirty |-> TRUE]
    /\ runner' = [runner EXCEPT ![r].pc = "file"]
    /\ UNCHANGED <<tables, prices, holder, result, calls>>

\* Broken: the statements of a file are transactions of their own.
RunFilePartly(r) ==
    /\ runner[r].pc = "file"
    /\ \E n \in DOMAIN Creates : tables' = tables \cup FirstOf(n, Creates)
    /\ Return(r, "ErrFile")
    /\ UNCHANGED <<recorded, prices>>

\* The file runs as a whole or not at all; a failure ends the call, and the
\* version stays dirty.
RunFile(r) ==
    LET up == runner[r].up
        to == runner[r].to
    IN  /\ runner[r].pc = "file"
        /\ \/ /\ Succeeds(up, to)
              /\ Effect(up, to)
              /\ runner' = [runner EXCEPT ![r].pc = "ran"]
              /\ UNCHANGED <<recorded, holder, result, calls>>
           \/ /\ ~Succeeds(up, to)
              /\ Return(r, "ErrFile")
              /\ UNCHANGED dbVars

MarkClean(r) ==
    /\ runner[r].pc = "ran"
    /\ recorded' = [recorded EXCEPT !.dirty = FALSE]
    /\ \/ Proceed(r, runner[r].to)
       \/ /\ runner[r].to = IF runner[r].up THEN LastVersion ELSE 0
          /\ Return(r, "nil")
    /\ UNCHANGED <<tables, prices>>

\* The process dies or its connection breaks: PostgreSQL ends the session.
Interrupt(r) ==
    /\ runner[r].pc # "idle"
    /\ Return(r, "interrupted")
    /\ UNCHANGED dbVars

\* InsertPricingDefault of a Store.
InsertPricingDefault(p) ==
    /\ "pricing_defaults" \in tables
    /\ p \notin prices
    /\ prices' = prices \cup {p}
    /\ UNCHANGED <<recorded, tables, holder, runner, result, calls>>

\* The bound on calls is reached and all have returned.
Finished ==
    /\ calls = MaxCalls
    /\ \A r \in Runners : runner[r].pc = "idle"
    /\ UNCHANGED vars

Next ==
    \/ \E r \in Runners :
          \/ \E up \in BOOLEAN : Call(r, up)
          \/ Lock(r) \/ LockTimeout(r) \/ ReadVersion(r)
          \/ MarkDirty(r) \/ RunFile(r) \/ MarkClean(r)
          \/ Interrupt(r)
    \/ \E p \in Prices : InsertPricingDefault(p)
    \/ Finished

Spec == Init /\ [][Next]_vars
-----------------------------------------------------------------------------
(* What is promised of a migrated database.                                 *)

\* The types, and that the lock is with a call that is at work or nobody.
TypeOK ==
    /\ recorded \in [version : 0 .. LastVersion, dirty : BOOLEAN]
    /\ tables \subseteq AllOf(Creates)
    /\ prices \subseteq Prices
    /\ holder \in Runners \cup {NoRunner}
    /\ runner \in [Runners -> [pc : {"idle", "waiting", "locked", "next", "file", "ran"},
                               up : BOOLEAN, to : 0 .. LastVersion]]
    /\ \A r \in Runners :
          holder = r <=> runner[r].pc \in {"locked", "next", "file", "ran"}
    /\ result \in [Runners -> Results]
    /\ calls \in 0 .. MaxCalls

\* The database is exactly what a version says.
Whole(version) ==
    /\ tables = IF version = 0 THEN {} ELSE AllOf(Creates)
    /\ version = 0 => prices = {}
    /\ version = 2 => Seeds \subseteq prices

\* A clean version can be believed: its tables, all and no others, are there,
\* and at version 2 the seeded prices, whoever was interrupted where.
CleanMeansWhole == ~recorded.dirty => Whole(recorded.version)

\* A dirty version hides no halfway state: an interrupted or failed file has
\* done everything or nothing, so that the database is whole for the dirty
\* version or for one of its neighbours.
DirtyMeansBetween ==
    recorded.dirty =>
        \E version \in 0 .. LastVersion :
            /\ version \in {recorded.version - 1, recorded.version, recorded.version + 1}
            /\ Whole(version)

\* A call that returns nil has reached its goal: RunMigrations the last version
\* and MigrateDown an empty database, recorded as clean, though another process
\* held the lock for a while or an earlier call was interrupted.
NilMeansReached ==
    [][\A r \in Runners :
          runner[r].pc # "idle" /\ runner'[r].pc = "idle" /\ result'[r] = "nil" =>
              /\ recorded' = [version |-> IF runner[r].up THEN LastVersion ELSE 0, dirty |-> FALSE]
              /\ Whole(recorded.version)']_vars

\* A call that is neither interrupted nor kept waiting for the lock returns an
\* error only over a dirty version, one that was dirty before or one whose
\* seeds somebody has inserted; a call with nothing left to do succeeds.
ErrorMeansDirty ==
    [][\A r \in Runners :
          runner[r].pc # "idle" /\ runner'[r].pc = "idle"
              /\ result'[r] \notin {"nil", "interrupted", "ErrLockTimeout"} =>
                  /\ recorded'.dirty
                  /\ runner[r].pc = "file" => runner[r].to = 2 /\ Seeds \cap prices # {}]_vars
=============================================================================
