------------------------------ MODULE Storage ------------------------------
(***************************************************************************)
(* The storage package over the schema of 000001_init.up.sql.  A method of *)
(* Store is one SQL statement, its own transaction: now() is the instant   *)
(* at which it begins, and it takes effect at once, later, when the locks  *)
(* it needs are free.  The caller may stop waiting for the reply because   *)
(* its context is cancelled or the connection breaks; it cannot know then  *)
(* whether the statement took effect, or still will, and it may call the   *)
(* method again with the same row.                                         *)
(*                                                                         *)
(* Columns that no constraint and no property looks at are in `body`.      *)
(***************************************************************************)
EXTENDS Naturals, Sequences, FiniteSets

CONSTANTS
    None,      \* SQL NULL
    Keys,      \* the primary keys of all tables, as Go has them
    StoredAs,  \* what is stored of a key
    Instants,  \* the timestamps that callers send, as Go has them
    Micros,    \* an instant in whole microseconds
    Inserts,   \* the pairs of a table and a row that callers may insert
    Medians,   \* the warm medians that callers may upsert
    Deletes,   \* the pairs of a table and a row that somebody may delete
    Existing,  \* the database to begin with
    MaxSent    \* bound: statements sent in all

\* REFERENCES ... ON DELETE CASCADE: the table that `parent` refers to.
ParentTable ==
    [api_keys |-> "projects", providers |-> "projects", endpoints |-> "projects",
     inference_requests |-> "endpoints", status_snapshots |-> "endpoints",
     warm_medians |-> "endpoints"]

Tables == {"projects", "pricing_defaults"} \cup DOMAIN ParentTable

\* A row; `enums` tells whether the columns with CHECK (... IN ...) have listed
\* values, `time` is the timestamp that the caller sets (expires_at of a key,
\* occurred_at of a request, taken_at of a snapshot), `at` the one that the
\* database sets.
Rows == [key : Keys, parent : Keys \cup {None}, provider : Keys \cup {None},
         providerEndpoint : BOOLEAN, name : STRING, status : {"active", "deleted"},
         enums : BOOLEAN, body : Seq(Nat), time : Instants \cup {None}, at : Nat]

\* pgx sends a timestamp in whole microseconds.  So the effective_from of two
\* pricing keys may be stored as one; other keys are stored as they are.
ASSUME StoredAsAssumption ==
    /\ StoredAs \in [Keys -> Keys]
    /\ \A k \in Keys : StoredAs[StoredAs[k]] = StoredAs[k]
    /\ Micros \in [Instants -> Instants]
    /\ \A t \in Instants : Micros[Micros[t]] = Micros[t]

\* Every row has the row it refers to.
Closed(db) ==
    /\ \A t \in DOMAIN ParentTable : \A row \in db[t] :
          \E p \in db[ParentTable[t]] : p.key = row.parent
    /\ \A e \in db["endpoints"] :
          e.provider # None => \E v \in db["providers"] : v.key = e.provider

\* No two rows of a table have the same key, at the database's precision.
KeysUnique(db) ==
    \A t \in Tables :
       /\ \A row, other \in db[t] : row.key = other.key => row = other
       /\ \A row \in db[t] : StoredAs[row.key] = row.key

\* No two active endpoints of a project have the same name.
NamesUnique(db) ==
    \A e, f \in db["endpoints"] :
        /\ e.status = "active" /\ f.status = "active"
        /\ e.parent = f.parent /\ e.name = f.name
        => e = f

\* A warm median has no method to insert it.
ASSUME ArgumentsAssumption ==
    /\ Inserts \subseteq (Tables \ {"warm_medians"}) \X Rows
    /\ Deletes \subseteq Tables \X Rows
    /\ Medians \subseteq Rows

\* The database was written under the same constraints.
ASSUME ExistingAssumption ==
    /\ Existing \in [Tables -> SUBSET Rows]
    /\ Closed(Existing) /\ KeysUnique(Existing) /\ NamesUnique(Existing)

VARIABLES
    table,     \* the rows of each table
    calls      \* the statements sent, with where server and caller are
vars == <<table, calls>>

\* A call of a method, with where the server and the caller are with it.
Call == [op : {"insert", "upsert", "delete", "softDelete"}, table : Tables,
         row : Rows, server : {"running", "committed", "failed"},
         caller : {"waiting", "acked", "refused", "unsure"}, order : Nat]

Find(t, key) == {row \in table[t] : row.key = key}

\* The row that the Get method of a table returns, if there is one.
Get(t, key) == Find(t, StoredAs[key])

-----------------------------------------------------------------------------
(* The constraints of the schema.                                           *)

\* Broken: the key is looked up as the caller has it.
KeyFreeAsSent(t, row) == Find(t, row.key) = {}

\* PRIMARY KEY.
KeyFree(t, row) == Find(t, StoredAs[row.key]) = {}

\* Broken: provider_id is a plain column.
ParentExists(t, row) ==
    t \in DOMAIN ParentTable => Find(ParentTable[t], row.parent) # {}

\* REFERENCES.
References(t, row) ==
    /\ ParentExists(t, row)
    /\ row.provider # None => Find("providers", row.provider) # {}

\* CHECK: listed values, and endpoints_provider_endpoint_required.  The insert
\* names the columns, so that "" is refused and never becomes the default.
Checks(t, row) ==
    /\ row.enums
    /\ row.provider # None => row.providerEndpoint

\* Broken: the index is on (provider_id, name).
ProviderNameFree(row) ==
    row.status = "active" =>
        ~\E e \in table["endpoints"] :
            e.status = "active" /\ e.provider = row.provider /\ e.name = row.name

\* endpoints_project_active_name_uniq.
NameFree(row) ==
    row.status = "active" =>
        ~\E e \in table["endpoints"] :
            e.status = "active" /\ e.parent = row.parent /\ e.name = row.name

Accepts(t, row) ==
    /\ KeyFree(t, row)
    /\ References(t, row)
    /\ Checks(t, row)
    /\ t = "endpoints" => NameFree(row)

-----------------------------------------------------------------------------
(* What a statement does to the database.                                   *)

\* What is stored of a timestamp of the caller's.
Truncated(t) == IF t = None THEN None ELSE Micros[t]

\* The row as it is stored: each column as it was sent, but for the precision
\* of the timestamps.
Stored(row, now) ==
    [row EXCEPT !.key = StoredAs[@], !.time = Truncated(@), !.at = now]

\* The methods Insert...; created_at and updated_at, or received_at, are now().
Inserted(t, row, now) == [table EXCEPT ![t] = @ \cup {Stored(row, now)}]

\* Broken: sample_count is missing in DO UPDATE.
UpsertKeepingSamples(row, now) ==
    LET old == Get("warm_medians", row.key)
        new == {[m EXCEPT !.body[1] = row.body[1], !.at = now] : m \in old}
    IN  [table EXCEPT !["warm_medians"] =
            (@ \ old) \cup IF old = {} THEN {Stored(row, now)} ELSE new]

\* UpsertWarmMedian: the row of the endpoint is inserted or overwritten.
Upserted(row, now) ==
    [table EXCEPT !["warm_medians"] =
        (@ \ Get("warm_medians", row.key)) \cup {Stored(row, now)}]

\* ON DELETE CASCADE, one level: rows whose parent is gone go too.
Cascade(db) ==
    [t \in Tables |->
        IF t \in DOMAIN ParentTable
        THEN {row \in db[t] : \E p \in db[ParentTable[t]] : p.key = row.parent}
        ELSE db[t]]

\* Broken: ON DELETE CASCADE for the provider of an endpoint, too.
DropWithProvider(db) ==
    Cascade([db EXCEPT !["endpoints"] =
        {e \in @ : \/ e.provider = None
                   \/ \E v \in db["providers"] : v.key = e.provider}])

\* ON DELETE SET NULL: endpoints outlive their provider.
SetNull(db) ==
    [db EXCEPT !["endpoints"] =
        {IF \E v \in db["providers"] : v.key = e.provider
         THEN e ELSE [e EXCEPT !.provider = None] : e \in @}]

\* A DELETE, by an operator or by code to come.
Deleted(t, key) ==
    SetNull(Cascade(Cascade([table EXCEPT ![t] = @ \ Get(t, key)])))

\* An endpoint is deleted softly, by an operator or by code to come.
SoftDeleted(key) ==
    [table EXCEPT !["endpoints"] =
        {IF e.key = key THEN [e EXCEPT !.status = "deleted"] ELSE e : e \in @}]

-----------------------------------------------------------------------------
(* Calls.                                                                    *)

Init ==
    /\ table = Existing
    /\ calls = <<>>

\* A method is called; its statement begins on the server.
Send(op, t, row) ==
    /\ Len(calls) < MaxSent
    /\ calls' = Append(calls, [op |-> op, table |-> t, row |-> row,
                               server |-> "running", caller |-> "waiting",
                               order |-> 0])
    /\ UNCHANGED table

\* The instant at which a statement began: its place among the calls.
Now(i) == i

Executed == Cardinality({j \in DOMAIN calls : calls[j].order # 0})

\* The statement of call i commits, or fails on a constraint.
Commit(i) ==
    calls' = [calls EXCEPT ![i].server = "committed", ![i].order = Executed + 1]

Fail(i) == calls' = [calls EXCEPT ![i].server = "failed"] /\ UNCHANGED table

Insert(i) ==
    LET c == calls[i]
    IN  /\ c.server = "running" /\ c.op = "insert"
        /\ \/ /\ Accepts(c.table, c.row)
              /\ table' = Inserted(c.table, c.row, Now(i))
              /\ Commit(i)
           \/ ~Accepts(c.table, c.row) /\ Fail(i)

UpsertWarmMedian(i) ==
    LET c == calls[i]
    IN  /\ c.server = "running" /\ c.op = "upsert"
        /\ \/ /\ References("warm_medians", c.row)
              /\ table' = Upserted(c.row, Now(i))
              /\ Commit(i)
           \/ ~References("warm_medians", c.row) /\ Fail(i)

Delete(i) ==
    LET c == calls[i]
    IN  /\ c.server = "running"
        /\ \/ c.op = "delete" /\ table' = Deleted(c.table, c.row.key)
           \/ c.op = "softDelete" /\ table' = SoftDeleted(c.row.key)
        /\ Commit(i)

\* The server drops a statement whose caller has gone.
Drop(i) ==
    /\ calls[i].server = "running"
    /\ calls[i].caller = "unsure"
    /\ Fail(i)

\* The reply arrives: the row is complete, or an error is returned.
Reply(i) ==
    /\ calls[i].caller = "waiting"
    /\ calls[i].server # "running"
    /\ calls' = [calls EXCEPT ![i].caller =
                    IF calls[i].server = "committed" THEN "acked" ELSE "refused"]
    /\ UNCHANGED table

\* The context is cancelled or the connection breaks: an error, too.
GiveUp(i) ==
    /\ calls[i].caller = "waiting"
    /\ calls' = [calls EXCEPT ![i].caller = "unsure"]
    /\ UNCHANGED table

\* The bound on calls is reached and nothing is under way.
Finished ==
    /\ Len(calls) = MaxSent
    /\ \A i \in DOMAIN calls :
          calls[i].server # "running" /\ calls[i].caller # "waiting"
    /\ UNCHANGED vars

Next ==
    \/ \E tr \in Inserts : Send("insert", tr[1], tr[2])
    \/ \E m \in Medians : Send("upsert", "warm_medians", m)
    \/ \E tr \in Deletes : Send("delete", tr[1], tr[2])
    \/ \E tr \in Deletes : tr[1] = "endpoints" /\ Send("softDelete", tr[1], tr[2])
    \/ \E i \in DOMAIN calls :
          Insert(i) \/ UpsertWarmMedian(i) \/ Delete(i) \/ Drop(i) \/ Reply(i) \/ GiveUp(i)
    \/ Finished

Spec == Init /\ [][Next]_vars

-----------------------------------------------------------------------------
(* What callers may rely on.                                                *)

\* Rows and calls have their columns, and the primary keys hold at the
\* precision of the database.
TypeOK ==
    /\ table \in [Tables -> SUBSET Rows]
    /\ calls \in Seq(Call)
    /\ KeysUnique(table)

\* Nothing refers to a row that is not there, in whatever order children are
\* inserted, by first calls, retries or statements nobody waits for any more,
\* and parents and providers are deleted.
NoDangling == Closed(table)

\* At most one active endpoint of a project has a given name.
ActiveNameUnique == NamesUnique(table)

\* Call j committed after call i.
After(i, j) == calls[j].order > calls[i].order

\* After call i, call j deletes the row of table t with the stored key.
DeletesAfter(i, j, t, key) ==
    /\ calls[j].op = "delete" /\ After(i, j)
    /\ calls[j].table = t /\ StoredAs[calls[j].row.key] = key

\* A row of table t with the stored key belongs, or once belonged, to the
\* project: it was there to begin with, or has been inserted.
Owned(t, key, project) ==
    \/ \E row \in Existing[t] : row.key = key /\ row.parent = project
    \/ \E k \in DOMAIN calls :
          /\ calls[k].op = "insert" /\ calls[k].order # 0 /\ calls[k].table = t
          /\ StoredAs[calls[k].row.key] = key /\ calls[k].row.parent = project

\* After call i, call j deletes the project of such a row.
DeletesOwner(i, j, t, key) ==
    /\ calls[j].op = "delete" /\ After(i, j) /\ calls[j].table = "projects"
    /\ Owned(t, key, StoredAs[calls[j].row.key])

\* Call j deletes the row that call i inserted, or one it belongs to.
Removes(j, i) ==
    LET t == calls[i].table
        row == calls[i].row
    IN  \/ DeletesAfter(i, j, t, StoredAs[row.key])
        \/ t \in DOMAIN ParentTable /\ DeletesAfter(i, j, ParentTable[t], row.parent)
        \/ /\ t \in DOMAIN ParentTable /\ ParentTable[t] = "endpoints"
           /\ DeletesOwner(i, j, "endpoints", row.parent)

\* Call j deletes the provider of the endpoint that call i inserted, or the
\* provider's project, which need not be the endpoint's own.
Unlinks(j, i) ==
    LET provider == calls[i].row.provider
    IN  \/ DeletesAfter(i, j, "providers", provider)
        \/ DeletesOwner(i, j, "providers", provider)

\* Call j soft-deletes the endpoint that call i inserted.
Marks(j, i) ==
    /\ calls[j].op = "softDelete" /\ After(i, j)
    /\ calls[i].table = "endpoints" /\ calls[j].row.key = StoredAs[calls[i].row.key]

\* The row that call i inserted is there with every column of the statement,
\* its timestamps in whole microseconds, and the timestamp that was returned.
\* Only an endpoint's provider may have become NULL, and its status "deleted",
\* if a call since then did that.
KeptAsSent(i) ==
    LET sent == Stored(calls[i].row, Now(i))
    IN  \E row \in Get(calls[i].table, calls[i].row.key) :
           /\ row = [sent EXCEPT !.provider = row.provider, !.status = row.status]
           /\ \/ row.provider = sent.provider
              \/ row.provider = None /\ \E j \in DOMAIN calls : Unlinks(j, i)
           /\ \/ row.status = sent.status
              \/ row.status = "deleted" /\ \E j \in DOMAIN calls : Marks(j, i)

\* An insert that returned nil stays: until the row, its parent or its own
\* parent's project is deleted, the Get method finds it with the columns that
\* the statement sent, at the precision of the database, whatever is retried,
\* inserted or deleted meanwhile, other projects included.
AckedStays ==
    \A i \in DOMAIN calls :
        calls[i].op = "insert" /\ calls[i].caller = "acked"
            => KeptAsSent(i) \/ \E j \in DOMAIN calls : Removes(j, i)

\* Two inserts of one key in one table, a call and its retry among them, both
\* take effect only if a call in between removed what the first had inserted.
InsertedOnce ==
    \A i, k \in DOMAIN calls :
        /\ i # k
        /\ calls[i].op = "insert" /\ calls[i].server = "committed"
        /\ calls[k].op = "insert" /\ calls[k].server = "committed"
        /\ calls[i].table = calls[k].table
        /\ StoredAs[calls[i].row.key] = StoredAs[calls[k].row.key]
        => \E j \in DOMAIN calls : \/ Removes(j, i) /\ After(j, k)
                                   \/ Removes(j, k) /\ After(j, i)

\* A warm median is as a whole the one of the upsert that committed last, even
\* if that began before another, with its own computed_at.
LastUpsertWhole ==
    \A m \in table["warm_medians"] :
        LET upserts == {i \in DOMAIN calls : /\ calls[i].op = "upsert"
                                             /\ calls[i].server = "committed"
                                             /\ StoredAs[calls[i].row.key] = m.key}
        IN  \/ m \in Existing["warm_medians"] /\ upserts = {}
            \/ \E i \in upserts :
                  /\ m = Stored(calls[i].row, Now(i))
                  /\ \A j \in upserts : ~After(i, j)
=============================================================================
