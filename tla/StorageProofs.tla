--------------------------- MODULE StorageProofs ---------------------------
(* Theorems about Storage, for any rows, statements and database to begin   *)
(* with.  TypeOK, NoDangling and ActiveNameUnique are inductive together,   *)
(* and with Told, which is about the calls, so are the other two.           *)
EXTENDS Storage, FiniteSetTheorems, TLAPS

Inv == TypeOK /\ NoDangling /\ ActiveNameUnique

\* A stored row is a row, and differs from the one sent in key and time only.
LEMMA StoredRow ==
    ASSUME NEW row \in Rows, NEW now \in Nat
    PROVE  /\ Stored(row, now) \in Rows
           /\ Stored(row, now).key = StoredAs[row.key]
           /\ StoredAs[Stored(row, now).key] = Stored(row, now).key
           /\ Stored(row, now).parent = row.parent
           /\ Stored(row, now).provider = row.provider
           /\ Stored(row, now).name = row.name
           /\ Stored(row, now).status = row.status
  <1>1. Truncated(row.time) \in Instants \cup {None}
    BY StoredAsAssumption DEF Truncated, Rows
  <1> QED BY <1>1, StoredAsAssumption DEF Stored, Rows

\* Counting executed statements gives a number.
LEMMA ExecutedNat ==
    ASSUME TypeOK
    PROVE  Executed \in Nat
  <1>1. IsFiniteSet(DOMAIN calls)
    <2>1. DOMAIN calls = 1 .. Len(calls) /\ Len(calls) \in Nat
      BY DEF TypeOK
    <2> QED BY <2>1, FS_Interval
  <1>2. {j \in DOMAIN calls : calls[j].order # 0} \subseteq DOMAIN calls
    OBVIOUS
  <1>3. IsFiniteSet({j \in DOMAIN calls : calls[j].order # 0})
    BY <1>1, <1>2, FS_Subset
  <1> QED BY <1>3, FS_CardinalityType DEF Executed

-----------------------------------------------------------------------------
(* What the constraints and the cascades make of a database.                *)

\* An accepted insert leaves the database closed and its keys and names unique.
LEMMA InsertedSound ==
    ASSUME table \in [Tables -> SUBSET Rows],
           KeysUnique(table), Closed(table), NamesUnique(table),
           NEW t \in Tables, NEW row \in Rows, NEW now \in Nat,
           Accepts(t, row)
    PROVE  LET db == Inserted(t, row, now)
           IN  /\ db \in [Tables -> SUBSET Rows]
               /\ KeysUnique(db) /\ Closed(db) /\ NamesUnique(db)
  <1> DEFINE db == Inserted(t, row, now)
             new == Stored(row, now)
  <1> HIDE DEF new
  <1>0. new \in Rows /\ new.key = StoredAs[row.key] /\ StoredAs[new.key] = new.key
          /\ new.parent = row.parent /\ new.provider = row.provider
          /\ new.name = row.name /\ new.status = row.status
    BY StoredRow DEF new
  <1>1. db = [table EXCEPT ![t] = @ \cup {new}]
    BY DEF new, Inserted
  <1> HIDE DEF db
  <1>2. /\ db \in [Tables -> SUBSET Rows]
        /\ \A u \in Tables : u # t => db[u] = table[u]
        /\ db[t] = table[t] \cup {new}
        /\ \A u \in Tables : table[u] \subseteq db[u]
    BY <1>0, <1>1
  <1>3. KeysUnique(db)
    <2>1. \A other \in table[t] : other.key # new.key
      BY <1>0 DEF Accepts, KeyFree, Find
    <2> QED BY <2>1, <1>0, <1>2 DEF KeysUnique
  <1>4. Closed(db)
    <2>1. ASSUME NEW u \in DOMAIN ParentTable, NEW r \in db[u]
          PROVE  \E p \in db[ParentTable[u]] : p.key = r.parent
      <3>1. u \in Tables /\ ParentTable[u] \in Tables
        BY DEF Tables, ParentTable
      <3>2. CASE r \in table[u]
        BY <3>1, <3>2, <1>2 DEF Closed
      <3>3. CASE r \notin table[u]
        <4>1. u = t /\ r = new
          BY <3>1, <3>3, <1>2
        <4> QED BY <3>1, <4>1, <1>0, <1>2
              DEF Accepts, References, ParentExists, Find
      <3> QED BY <3>2, <3>3
    <2>2. ASSUME NEW e \in db["endpoints"], e.provider # None
          PROVE  \E v \in db["providers"] : v.key = e.provider
      <3>1. "endpoints" \in Tables /\ "providers" \in Tables
        BY DEF Tables, ParentTable
      <3>2. CASE e \in table["endpoints"]
        BY <2>2, <3>1, <3>2, <1>2 DEF Closed
      <3>3. CASE e \notin table["endpoints"]
        <4>1. e = new
          BY <3>1, <3>3, <1>2
        <4> QED BY <2>2, <3>1, <4>1, <1>0, <1>2 DEF Accepts, References, Find
      <3> QED BY <3>2, <3>3
    <2> QED BY <2>1, <2>2 DEF Closed
  <1>5. NamesUnique(db)
    <2>1. "endpoints" \in Tables
      BY DEF Tables, ParentTable
    <2>2. CASE t # "endpoints"
      BY <2>1, <2>2, <1>2 DEF NamesUnique
    <2>3. CASE t = "endpoints"
      <3>1. new.status = "active" =>
              ~\E e \in table["endpoints"] :
                  e.status = "active" /\ e.parent = new.parent /\ e.name = new.name
        BY <2>3, <1>0 DEF Accepts, NameFree
      <3> QED BY <2>3, <3>1, <1>2 DEF NamesUnique
    <2> QED BY <2>2, <2>3
  <1> QED BY <1>2, <1>3, <1>4, <1>5 DEF db

\* An upsert whose endpoint is there does, too.
LEMMA UpsertedSound ==
    ASSUME table \in [Tables -> SUBSET Rows],
           KeysUnique(table), Closed(table), NamesUnique(table),
           NEW row \in Rows, NEW now \in Nat,
           References("warm_medians", row)
    PROVE  LET db == Upserted(row, now)
           IN  /\ db \in [Tables -> SUBSET Rows]
               /\ KeysUnique(db) /\ Closed(db) /\ NamesUnique(db)
  <1> DEFINE db == Upserted(row, now)
             new == Stored(row, now)
  <1> HIDE DEF new
  <1>0. new \in Rows /\ new.key = StoredAs[row.key] /\ StoredAs[new.key] = new.key
          /\ new.parent = row.parent
    BY StoredRow DEF new
  <1>1. db = [table EXCEPT !["warm_medians"] =
                  (@ \ {r \in @ : r.key = new.key}) \cup {new}]
    BY <1>0 DEF new, Upserted, Get, Find
  <1> HIDE DEF db
  <1>2. "warm_medians" \in Tables /\ "endpoints" \in Tables /\ "providers" \in Tables
    BY DEF Tables, ParentTable
  <1>3. /\ db \in [Tables -> SUBSET Rows]
        /\ \A u \in Tables : u # "warm_medians" => db[u] = table[u]
        /\ \A r \in db["warm_medians"] :
              r = new \/ (r \in table["warm_medians"] /\ r.key # new.key)
    BY <1>0, <1>1, <1>2
  <1>4. KeysUnique(db)
    BY <1>0, <1>2, <1>3 DEF KeysUnique
  <1>5. Closed(db)
    <2>1. ASSUME NEW u \in DOMAIN ParentTable, NEW r \in db[u]
          PROVE  \E p \in db[ParentTable[u]] : p.key = r.parent
      <3>1. u \in Tables /\ ParentTable[u] \in Tables /\ ParentTable[u] # "warm_medians"
        BY DEF Tables, ParentTable
      <3>2. CASE r \in table[u]
        BY <3>1, <3>2, <1>3 DEF Closed
      <3>3. CASE r \notin table[u]
        <4>1. u = "warm_medians" /\ r = new
          BY <3>1, <3>3, <1>3
        <4> QED BY <3>1, <4>1, <1>0, <1>3
              DEF References, ParentExists, Find
      <3> QED BY <3>2, <3>3
    <2> QED BY <2>1, <1>2, <1>3 DEF Closed
  <1>6. NamesUnique(db)
    BY <1>2, <1>3 DEF NamesUnique
  <1> QED BY <1>3, <1>4, <1>5, <1>6 DEF db

\* What an operation on endpoints that may change some of their columns leaves
\* of the rest of a database.
Narrows(db, old) ==
    /\ db \in [Tables -> SUBSET Rows]
    /\ \A t \in Tables \ {"endpoints"} : db[t] \subseteq old[t]
    /\ \A e \in db["endpoints"] : \E o \in old["endpoints"] :
          /\ o.key = e.key /\ o.parent = e.parent /\ o.name = e.name
          /\ e.status = "active" => o.status = "active"
    /\ \A e, f \in db["endpoints"] : e.key = f.key => e = f

\* It keeps keys and names unique.
LEMMA NarrowsSound ==
    ASSUME NEW db, NEW old, Narrows(db, old),
           old \in [Tables -> SUBSET Rows], KeysUnique(old), NamesUnique(old)
    PROVE  KeysUnique(db) /\ NamesUnique(db)
  <1>1. "endpoints" \in Tables
    BY DEF Tables, ParentTable
  <1>2. KeysUnique(db)
    <2>1. ASSUME NEW t \in Tables
          PROVE  /\ \A row, other \in db[t] : row.key = other.key => row = other
                 /\ \A row \in db[t] : StoredAs[row.key] = row.key
      <3>1. CASE t = "endpoints"
        BY <3>1, <1>1 DEF Narrows, KeysUnique
      <3>2. CASE t # "endpoints"
        BY <3>2 DEF Narrows, KeysUnique
      <3> QED BY <3>1, <3>2
    <2> QED BY <2>1 DEF KeysUnique
  <1>3. NamesUnique(db)
    <2> SUFFICES ASSUME NEW e \in db["endpoints"], NEW f \in db["endpoints"],
                        e.status = "active", f.status = "active",
                        e.parent = f.parent, e.name = f.name
                 PROVE  e.key = f.key
      BY DEF Narrows, NamesUnique
    <2>1. PICK o \in old["endpoints"] :
              /\ o.key = e.key /\ o.parent = e.parent /\ o.name = e.name
              /\ o.status = "active"
      BY DEF Narrows
    <2>2. PICK q \in old["endpoints"] :
              /\ q.key = f.key /\ q.parent = f.parent /\ q.name = f.name
              /\ q.status = "active"
      BY DEF Narrows
    <2>3. o = q
      BY <2>1, <2>2 DEF NamesUnique
    <2> QED BY <2>1, <2>2, <2>3
  <1> QED BY <1>2, <1>3

\* One level of ON DELETE CASCADE, table by table.
LEMMA CascadeRows ==
    ASSUME NEW db, db \in [Tables -> SUBSET Rows]
    PROVE  /\ Cascade(db) \in [Tables -> SUBSET Rows]
           /\ \A t \in Tables : Cascade(db)[t] \subseteq db[t]
           /\ \A t \in Tables \ DOMAIN ParentTable : Cascade(db)[t] = db[t]
           /\ \A t \in DOMAIN ParentTable : Cascade(db)[t] =
                 {row \in db[t] : \E p \in db[ParentTable[t]] : p.key = row.parent}
  <1>1. DOMAIN ParentTable \subseteq Tables
    BY DEF Tables
  <1> QED BY <1>1 DEF Cascade

\* Two levels are enough, for only endpoints have both a parent and children.
LEMMA CascadeTwice ==
    ASSUME NEW db, db \in [Tables -> SUBSET Rows]
    PROVE  \A t \in DOMAIN ParentTable : \A row \in Cascade(Cascade(db))[t] :
              \E p \in Cascade(Cascade(db))[ParentTable[t]] : p.key = row.parent
  <1> DEFINE once == Cascade(db)
             twice == Cascade(once)
  <1>1. /\ once \in [Tables -> SUBSET Rows]
        /\ once["projects"] = db["projects"]
        /\ \A row \in once["endpoints"] : \E p \in db["projects"] : p.key = row.parent
    <2>1. "projects" \in Tables \ DOMAIN ParentTable /\ "endpoints" \in DOMAIN ParentTable
            /\ ParentTable["endpoints"] = "projects"
      BY DEF Tables, ParentTable
    <2> QED BY <2>1, CascadeRows
  <1>2. /\ twice["projects"] = once["projects"]
        /\ \A t \in DOMAIN ParentTable : twice[t] =
              {row \in once[t] : \E p \in once[ParentTable[t]] : p.key = row.parent}
    <2>1. "projects" \in Tables \ DOMAIN ParentTable
      BY DEF Tables, ParentTable
    <2> QED BY <2>1, <1>1, CascadeRows
  <1> HIDE DEF once, twice
  <1>3. \A p \in once["endpoints"] : p \in twice["endpoints"]
    <2>1. "endpoints" \in DOMAIN ParentTable /\ ParentTable["endpoints"] = "projects"
      BY DEF ParentTable
    <2> QED BY <2>1, <1>1, <1>2
  <1>4. \A t \in DOMAIN ParentTable : ParentTable[t] \in {"projects", "endpoints"}
    BY DEF ParentTable
  <1>5. ASSUME NEW t \in DOMAIN ParentTable, NEW row \in twice[t]
        PROVE  \E p \in twice[ParentTable[t]] : p.key = row.parent
    <2>1. PICK p \in once[ParentTable[t]] : p.key = row.parent
      BY <1>2
    <2>2. p \in twice[ParentTable[t]]
      BY <2>1, <1>2, <1>3, <1>4
    <2> QED BY <2>1, <2>2
  <1> QED BY <1>5 DEF once, twice

\* ON DELETE SET NULL and the soft delete each change one column of a row.
LEMMA UnlinkedRow ==
    ASSUME NEW e \in Rows, NEW f, f = [e EXCEPT !.provider = None]
    PROVE  /\ f \in Rows /\ f.key = e.key /\ f.parent = e.parent
           /\ f.name = e.name /\ f.status = e.status /\ f.provider = None
  BY DEF Rows

LEMMA MarkedRow ==
    ASSUME NEW e \in Rows, NEW f, f = [e EXCEPT !.status = "deleted"]
    PROVE  /\ f \in Rows /\ f.key = e.key /\ f.parent = e.parent
           /\ f.name = e.name /\ f.provider = e.provider /\ f.status # "active"
  BY DEF Rows

\* A DELETE with its cascades leaves a closed database and narrows it.
LEMMA DeletedSound ==
    ASSUME table \in [Tables -> SUBSET Rows],
           KeysUnique(table), NEW t \in Tables, NEW key
    PROVE  Narrows(Deleted(t, key), table) /\ Closed(Deleted(t, key))
  <1> DEFINE without == [table EXCEPT ![t] = @ \ Get(t, key)]
             left == Cascade(Cascade(without))
             db == SetNull(left)
             held(e) == \E v \in left["providers"] : v.key = e.provider
             kept(e) == IF held(e) THEN e ELSE [e EXCEPT !.provider = None]
  <1>1. without \in [Tables -> SUBSET Rows]
          /\ \A u \in Tables : without[u] \subseteq table[u]
    OBVIOUS
  <1>2. left \in [Tables -> SUBSET Rows] /\ \A u \in Tables : left[u] \subseteq table[u]
    BY <1>1, CascadeRows
  <1>3. \A u \in DOMAIN ParentTable : \A row \in left[u] :
            \E p \in left[ParentTable[u]] : p.key = row.parent
    BY <1>1, CascadeTwice
  <1>4. Deleted(t, key) = db
    BY DEF Deleted
  <1> HIDE DEF without, left
  <1>5. "endpoints" \in Tables /\ "providers" \in Tables
          /\ DOMAIN ParentTable \subseteq Tables /\ \A u \in DOMAIN ParentTable : ParentTable[u] \in Tables
    BY DEF Tables, ParentTable
  <1>6. /\ \A u \in Tables : u # "endpoints" => db[u] = left[u]
        /\ db["endpoints"] = {kept(e) : e \in left["endpoints"]}
    BY <1>2, <1>5 DEF SetNull
  <1>7. \A e \in left["endpoints"] :
            LET f == kept(e)
            IN  /\ f \in Rows /\ f.key = e.key /\ f.parent = e.parent
                /\ f.name = e.name /\ f.status = e.status
                /\ f.provider = None \/ (f.provider = e.provider /\ held(e))
    <2> SUFFICES ASSUME NEW e \in left["endpoints"]
                 PROVE  LET f == kept(e)
                        IN  /\ f \in Rows /\ f.key = e.key /\ f.parent = e.parent
                            /\ f.name = e.name /\ f.status = e.status
                            /\ f.provider = None \/ (f.provider = e.provider /\ held(e))
      OBVIOUS
    <2>1. e \in Rows
      BY <1>2, <1>5
    <2>2. CASE held(e)
      BY <2>1, <2>2
    <2>3. CASE ~held(e)
      <3>1. kept(e) = [e EXCEPT !.provider = None]
        BY <2>3
      <3> HIDE DEF kept
      <3> QED BY <2>1, <3>1, UnlinkedRow
    <2> QED BY <2>2, <2>3
  <1> HIDE DEF kept
  <1>8. db \in [Tables -> SUBSET Rows]
    <2>1. db["endpoints"] \in SUBSET Rows
      BY <1>6, <1>7
    <2>2. db = [left EXCEPT !["endpoints"] = db["endpoints"]]
      BY <1>2, <1>5 DEF SetNull
    <2> QED BY <2>1, <2>2, <1>2
  <1>9. \A f \in db["endpoints"] : \E e \in left["endpoints"] :
            /\ f = kept(e)
            /\ f.key = e.key /\ f.parent = e.parent
            /\ f.name = e.name /\ f.status = e.status
            /\ f.provider = None \/ (f.provider = e.provider /\ held(e))
    BY <1>6, <1>7
  <1>10. Narrows(db, table)
    <2>1. \A u \in Tables \ {"endpoints"} : db[u] \subseteq table[u]
      BY <1>2, <1>6
    <2>2. \A f \in db["endpoints"] : \E o \in table["endpoints"] :
            /\ o.key = f.key /\ o.parent = f.parent /\ o.name = f.name
            /\ f.status = "active" => o.status = "active"
      BY <1>2, <1>5, <1>9
    <2>3. ASSUME NEW f \in db["endpoints"], NEW g \in db["endpoints"], f.key = g.key
          PROVE  f = g
      <3>1. PICK e \in left["endpoints"] :
                /\ f = kept(e)
                /\ f.key = e.key
        BY <1>9
      <3>2. PICK d \in left["endpoints"] :
                /\ g = kept(d)
                /\ g.key = d.key
        BY <1>9
      <3>3. e = d
        BY <2>3, <3>1, <3>2, <1>2, <1>5 DEF KeysUnique
      <3> QED BY <3>1, <3>2, <3>3
    <2> QED BY <1>8, <2>1, <2>2, <2>3 DEF Narrows
  <1>11. Closed(db)
    <2>1. ASSUME NEW u \in DOMAIN ParentTable, NEW row \in db[u]
          PROVE  \E p \in db[ParentTable[u]] : p.key = row.parent
      <3>1. \E r \in left[u] : r.parent = row.parent
        BY <1>5, <1>6, <1>9
      <3>2. PICK p \in left[ParentTable[u]] : p.key = row.parent
        BY <3>1, <1>3
      <3>3. CASE ParentTable[u] = "endpoints"
        BY <3>2, <3>3, <1>6, <1>7
      <3>4. CASE ParentTable[u] # "endpoints"
        BY <3>2, <3>4, <1>5, <1>6
      <3> QED BY <3>3, <3>4
    <2>2. ASSUME NEW f \in db["endpoints"], f.provider # None
          PROVE  \E v \in db["providers"] : v.key = f.provider
      BY <2>2, <1>5, <1>6, <1>9
    <2> QED BY <2>1, <2>2 DEF Closed
  <1> QED BY <1>4, <1>10, <1>11

\* So does a soft delete.
LEMMA SoftDeletedSound ==
    ASSUME table \in [Tables -> SUBSET Rows],
           KeysUnique(table), Closed(table), NEW key
    PROVE  Narrows(SoftDeleted(key), table) /\ Closed(SoftDeleted(key))
  <1> DEFINE db == SoftDeleted(key)
             soft(e) == IF e.key = key THEN [e EXCEPT !.status = "deleted"] ELSE e
  <1>1. "endpoints" \in Tables /\ "providers" \in Tables
          /\ DOMAIN ParentTable \subseteq Tables /\ \A u \in DOMAIN ParentTable : ParentTable[u] \in Tables
    BY DEF Tables, ParentTable
  <1>2. /\ db = [table EXCEPT !["endpoints"] = db["endpoints"]]
        /\ \A u \in Tables : u # "endpoints" => db[u] = table[u]
        /\ db["endpoints"] = {soft(e) : e \in table["endpoints"]}
    BY <1>1 DEF SoftDeleted
  <1> HIDE DEF db
  <1>3. \A e \in table["endpoints"] :
            /\ soft(e) \in Rows /\ soft(e).key = e.key /\ soft(e).parent = e.parent
            /\ soft(e).name = e.name /\ soft(e).provider = e.provider
            /\ soft(e).status = "active" => e.status = "active"
    <2> SUFFICES ASSUME NEW e \in table["endpoints"]
                 PROVE  /\ soft(e) \in Rows /\ soft(e).key = e.key
                        /\ soft(e).parent = e.parent /\ soft(e).name = e.name
                        /\ soft(e).provider = e.provider
                        /\ soft(e).status = "active" => e.status = "active"
      OBVIOUS
    <2>1. e \in Rows
      BY <1>1
    <2>2. CASE e.key = key
      <3>1. soft(e) = [e EXCEPT !.status = "deleted"]
        BY <2>2
      <3> HIDE DEF soft
      <3> QED BY <2>1, <3>1, MarkedRow
    <2>3. CASE e.key # key
      BY <2>1, <2>3
    <2> QED BY <2>2, <2>3
  <1>4. \A f \in db["endpoints"] : \E e \in table["endpoints"] :
            /\ f = soft(e) /\ f.key = e.key /\ f.parent = e.parent
            /\ f.name = e.name /\ f.provider = e.provider
            /\ f.status = "active" => e.status = "active"
    BY <1>2, <1>3
  <1> HIDE DEF soft
  <1>5. db \in [Tables -> SUBSET Rows]
    BY <1>1, <1>2, <1>3
  <1>6. \A f, g \in db["endpoints"] : f.key = g.key => f = g
    BY <1>1, <1>4 DEF KeysUnique
  <1>7. Narrows(db, table)
    <2>1. \A f \in db["endpoints"] : \E o \in table["endpoints"] :
            /\ o.key = f.key /\ o.parent = f.parent /\ o.name = f.name
            /\ f.status = "active" => o.status = "active"
      BY <1>4
    <2> QED BY <1>2, <1>5, <1>6, <2>1 DEF Narrows
  <1>8. Closed(db)
    <2>1. ASSUME NEW u \in DOMAIN ParentTable, NEW row \in db[u]
          PROVE  \E p \in db[ParentTable[u]] : p.key = row.parent
      <3>1. \E r \in table[u] : r.parent = row.parent
        BY <1>1, <1>2, <1>4
      <3>2. PICK p \in table[ParentTable[u]] : p.key = row.parent
        BY <3>1 DEF Closed
      <3>3. CASE ParentTable[u] = "endpoints"
        BY <3>2, <3>3, <1>2, <1>3
      <3>4. CASE ParentTable[u] # "endpoints"
        BY <3>2, <3>4, <1>1, <1>2
      <3> QED BY <3>3, <3>4
    <2>2. ASSUME NEW f \in db["endpoints"], f.provider # None
          PROVE  \E v \in db["providers"] : v.key = f.provider
      BY <2>2, <1>1, <1>2, <1>4 DEF Closed
    <2> QED BY <2>1, <2>2 DEF Closed
  <1> QED BY <1>7, <1>8 DEF db

-----------------------------------------------------------------------------
(* The invariant is inductive.                                              *)

LEMMA InitInv == Init => Inv
  <1> SUFFICES ASSUME Init PROVE Inv
    OBVIOUS
  <1>1. calls \in Seq(Call)
    BY DEF Init
  <1> QED BY <1>1, ExistingAssumption DEF Init, Inv, TypeOK, NoDangling, ActiveNameUnique

\* A call that is replaced by one of the same kind leaves a sequence of calls.
LEMMA CallsTyped ==
    ASSUME calls \in Seq(Call), NEW i \in DOMAIN calls, NEW c \in Call
    PROVE  [calls EXCEPT ![i] = c] \in Seq(Call)
  OBVIOUS

LEMMA CallFields ==
    ASSUME TypeOK, NEW i \in DOMAIN calls
    PROVE  i \in Nat /\ calls[i].table \in Tables /\ calls[i].row \in Rows
  <1>1. i \in Nat /\ calls[i] \in Call
    BY DEF TypeOK
  <1>2. \A c \in Call : c.table \in Tables /\ c.row \in Rows
    BY DEF Call
  <1> QED BY <1>1, <1>2

\* A statement that commits leaves well-typed calls.
LEMMA CommitTyped ==
    ASSUME TypeOK, NEW i \in DOMAIN calls, Commit(i)
    PROVE  calls' \in Seq(Call)
  <1> DEFINE c == [calls[i] EXCEPT !.server = "committed", !.order = Executed + 1]
  <1>1. calls \in Seq(Call) /\ calls[i] \in Call
    BY DEF TypeOK
  <1>2. Executed + 1 \in Nat
    BY ExecutedNat
  <1>3. c \in Call
    BY <1>1, <1>2 DEF Call
  <1>4. calls' = [calls EXCEPT ![i] = c]
    BY <1>1 DEF Commit
  <1> QED BY <1>1, <1>3, <1>4, CallsTyped

\* So does one that fails, and the tables stay.
LEMMA FailTyped ==
    ASSUME TypeOK, NEW i \in DOMAIN calls, Fail(i)
    PROVE  calls' \in Seq(Call) /\ table' = table
  <1> DEFINE c == [calls[i] EXCEPT !.server = "failed"]
  <1>1. calls \in Seq(Call) /\ calls[i] \in Call
    BY DEF TypeOK
  <1>2. c \in Call
    BY <1>1 DEF Call
  <1>3. calls' = [calls EXCEPT ![i] = c] /\ table' = table
    BY <1>1 DEF Fail
  <1> QED BY <1>1, <1>2, <1>3, CallsTyped

\* The invariant speaks of the calls only as to their type.
LEMMA TableKept ==
    ASSUME Inv, table' = table, calls' \in Seq(Call)
    PROVE  Inv'
  BY DEF Inv, TypeOK, NoDangling, ActiveNameUnique, KeysUnique, Closed, NamesUnique

LEMMA SendInv ==
    ASSUME Inv, NEW op \in {"insert", "upsert", "delete", "softDelete"},
           NEW t \in Tables, NEW row \in Rows, Send(op, t, row)
    PROVE  Inv'
  <1> DEFINE c == [op |-> op, table |-> t, row |-> row, server |-> "running",
                   caller |-> "waiting", order |-> 0]
  <1>1. c \in Call
    BY DEF Call
  <1>2. calls \in Seq(Call)
    BY DEF Inv, TypeOK
  <1>3. calls' = Append(calls, c) /\ table' = table
    BY DEF Send
  <1> HIDE DEF c
  <1>4. calls' \in Seq(Call)
    BY <1>1, <1>2, <1>3
  <1> QED BY <1>3, <1>4, TableKept

LEMMA InsertInv ==
    ASSUME Inv, NEW i \in DOMAIN calls, Insert(i)
    PROVE  Inv'
  <1>1. i \in Nat /\ calls[i].table \in Tables /\ calls[i].row \in Rows
    BY CallFields DEF Inv
  <1>2. CASE Fail(i)
    BY <1>2, FailTyped, TableKept DEF Inv
  <1>3. CASE /\ Accepts(calls[i].table, calls[i].row)
             /\ table' = Inserted(calls[i].table, calls[i].row, i)
             /\ Commit(i)
    <2>1. calls' \in Seq(Call)
      BY <1>3, CommitTyped DEF Inv
    <2>2. /\ table' \in [Tables -> SUBSET Rows]
          /\ KeysUnique(table') /\ Closed(table') /\ NamesUnique(table')
      BY <1>1, <1>3, InsertedSound DEF Inv, TypeOK, NoDangling, ActiveNameUnique
    <2> QED BY <2>1, <2>2 DEF Inv, TypeOK, NoDangling, ActiveNameUnique
  <1> QED BY <1>2, <1>3 DEF Insert, Now

LEMMA UpsertInv ==
    ASSUME Inv, NEW i \in DOMAIN calls, UpsertWarmMedian(i)
    PROVE  Inv'
  <1>1. i \in Nat /\ calls[i].row \in Rows
    BY CallFields DEF Inv
  <1>2. CASE Fail(i)
    BY <1>2, FailTyped, TableKept DEF Inv
  <1>3. CASE /\ References("warm_medians", calls[i].row)
             /\ table' = Upserted(calls[i].row, i)
             /\ Commit(i)
    <2>1. calls' \in Seq(Call)
      BY <1>3, CommitTyped DEF Inv
    <2>2. /\ table' \in [Tables -> SUBSET Rows]
          /\ KeysUnique(table') /\ Closed(table') /\ NamesUnique(table')
      BY <1>1, <1>3, UpsertedSound DEF Inv, TypeOK, NoDangling, ActiveNameUnique
    <2> QED BY <2>1, <2>2 DEF Inv, TypeOK, NoDangling, ActiveNameUnique
  <1> QED BY <1>2, <1>3 DEF UpsertWarmMedian, Now

LEMMA DeleteInv ==
    ASSUME Inv, NEW i \in DOMAIN calls, Delete(i)
    PROVE  Inv'
  <1>1. calls[i].table \in Tables
    BY CallFields DEF Inv
  <1>2. calls' \in Seq(Call)
    BY CommitTyped DEF Delete, Inv
  <1>3. Narrows(table', table) /\ Closed(table')
    <2>1. CASE table' = Deleted(calls[i].table, calls[i].row.key)
      BY <1>1, <2>1, DeletedSound DEF Inv, TypeOK
    <2>2. CASE table' = SoftDeleted(calls[i].row.key)
      BY <2>2, SoftDeletedSound DEF Inv, TypeOK, NoDangling
    <2> QED BY <2>1, <2>2 DEF Delete
  <1>4. KeysUnique(table') /\ NamesUnique(table')
    BY <1>3, NarrowsSound DEF Inv, TypeOK, ActiveNameUnique
  <1>5. table' \in [Tables -> SUBSET Rows]
    BY <1>3 DEF Narrows
  <1> QED BY <1>2, <1>3, <1>4, <1>5 DEF Inv, TypeOK, NoDangling, ActiveNameUnique

LEMMA ReplyInv ==
    ASSUME Inv, NEW i \in DOMAIN calls, Reply(i) \/ GiveUp(i)
    PROVE  Inv'
  <1>1. calls \in Seq(Call) /\ calls[i] \in Call
    BY DEF Inv, TypeOK
  <1>2. PICK answer \in {"acked", "refused", "unsure"} :
            calls' = [calls EXCEPT ![i].caller = answer] /\ table' = table
    BY DEF Reply, GiveUp
  <1>3. [calls[i] EXCEPT !.caller = answer] \in Call
    BY <1>1 DEF Call
  <1>4. calls' \in Seq(Call)
    BY <1>1, <1>2, <1>3, CallsTyped
  <1> QED BY <1>2, <1>4, TableKept

LEMMA NextInv == Inv /\ [Next]_vars => Inv'
  <1> SUFFICES ASSUME Inv, [Next]_vars PROVE Inv'
    OBVIOUS
  <1> USE ArgumentsAssumption
  <1>1. CASE \E tr \in Inserts : Send("insert", tr[1], tr[2])
    BY <1>1, SendInv
  <1>2. CASE \E m \in Medians : Send("upsert", "warm_medians", m)
    <2>1. "warm_medians" \in Tables
      BY DEF Tables, ParentTable
    <2> QED BY <1>2, <2>1, SendInv
  <1>3. CASE \E tr \in Deletes : Send("delete", tr[1], tr[2])
    BY <1>3, SendInv
  <1>4. CASE \E tr \in Deletes : tr[1] = "endpoints" /\ Send("softDelete", tr[1], tr[2])
    BY <1>4, SendInv
  <1>5. ASSUME NEW i \in DOMAIN calls,
               Insert(i) \/ UpsertWarmMedian(i) \/ Delete(i) \/ Drop(i) \/ Reply(i) \/ GiveUp(i)
        PROVE  Inv'
    <2>1. CASE Drop(i)
      BY <2>1, FailTyped, TableKept DEF Drop, Inv
    <2> QED BY <1>5, <2>1, InsertInv, UpsertInv, DeleteInv, ReplyInv
  <1>6. CASE UNCHANGED vars
    BY <1>6, TableKept DEF vars, Inv, TypeOK
  <1>7. CASE Finished
    BY <1>6, <1>7 DEF Finished
  <1> QED BY <1>1, <1>2, <1>3, <1>4, <1>5, <1>6, <1>7 DEF Next

-----------------------------------------------------------------------------
(* What the calls say of each other.                                        *)

\* Orders are places among the executed, and only what was committed has one.
CallInv ==
    \A i \in DOMAIN calls :
       /\ calls[i].order \in 0 .. Executed
       /\ calls[i].server # "committed" => calls[i].order = 0
       /\ calls[i].caller = "acked" => calls[i].server = "committed"
       /\ calls[i].op = "insert" => calls[i].table # "warm_medians"

\* A step forgets no call and no place.
Remembers ==
    /\ DOMAIN calls \subseteq DOMAIN calls'
    /\ \A j \in DOMAIN calls :
          /\ calls'[j].op = calls[j].op /\ calls'[j].table = calls[j].table
          /\ calls'[j].row = calls[j].row
          /\ calls[j].order \in Nat
          /\ calls[j].order = 0 \/ calls'[j].order = calls[j].order

\* A step that executes nothing: what it adds or touches is without a place.
Quiet ==
    /\ Remembers /\ table' = table
    /\ \A j \in DOMAIN calls :
          /\ calls'[j].order = calls[j].order
          /\ calls'[j].server = "committed" => calls[j].server = "committed"
          /\ calls[j].server = "committed" => calls'[j].server = "committed"
          /\ calls'[j].caller = "acked" => calls'[j].server = "committed"
    /\ \A j \in DOMAIN calls' \ DOMAIN calls :
          /\ calls'[j].server = "running" /\ calls'[j].caller = "waiting"
          /\ calls'[j].order = 0
          /\ calls'[j].op = "insert" => calls'[j].table # "warm_medians"

LEMMA QuietCalls ==
    ASSUME TypeOK, CallInv, Quiet
    PROVE  Executed' = Executed /\ CallInv'
  <1>1. {j \in DOMAIN calls' : calls'[j].order # 0} = {j \in DOMAIN calls : calls[j].order # 0}
    BY DEF Quiet, Remembers
  <1>2. Executed' = Executed
    BY <1>1 DEF Executed
  <1>3. ASSUME NEW j \in DOMAIN calls'
        PROVE  /\ calls'[j].order \in 0 .. Executed
               /\ calls'[j].server # "committed" => calls'[j].order = 0
               /\ calls'[j].caller = "acked" => calls'[j].server = "committed"
               /\ calls'[j].op = "insert" => calls'[j].table # "warm_medians"
    <2>1. CASE j \in DOMAIN calls
      BY <2>1 DEF Quiet, Remembers, CallInv
    <2>2. CASE j \notin DOMAIN calls
      <3>1. Executed \in Nat
        BY ExecutedNat
      <3> QED BY <2>2, <3>1 DEF Quiet
    <2> QED BY <2>1, <2>2
  <1> QED BY <1>2, <1>3 DEF CallInv

\* A statement that commits is counted and takes the last place.
LEMMA CommitCalls ==
    ASSUME TypeOK, CallInv, NEW i \in DOMAIN calls, calls[i].server = "running", Commit(i)
    PROVE  /\ Remembers /\ DOMAIN calls' = DOMAIN calls
           /\ calls'[i].server = "committed" /\ calls'[i].order = Executed + 1
           /\ \A j \in DOMAIN calls \ {i} : calls'[j] = calls[j]
           /\ Executed \in Nat /\ CallInv'
  <1> DEFINE c == [calls[i] EXCEPT !.server = "committed", !.order = Executed + 1]
             placed == {j \in DOMAIN calls : calls[j].order # 0}
  <1>1. calls \in Seq(Call) /\ calls[i] \in Call /\ \A j \in DOMAIN calls : calls[j].order \in Nat
    <2>1. calls \in Seq(Call) /\ \A j \in DOMAIN calls : calls[j] \in Call
      BY DEF TypeOK
    <2> QED BY <2>1 DEF Call
  <1>2. Executed \in Nat
    BY ExecutedNat
  <1>3. calls' = [calls EXCEPT ![i] = c]
    BY <1>1 DEF Commit
  <1>4. /\ c.server = "committed" /\ c.order = Executed + 1 /\ c.op = calls[i].op
        /\ c.table = calls[i].table /\ c.row = calls[i].row /\ c.caller = calls[i].caller
    BY <1>1 DEF Call
  <1> HIDE DEF c
  <1>5. /\ DOMAIN calls' = DOMAIN calls /\ calls'[i] = c
        /\ \A j \in DOMAIN calls \ {i} : calls'[j] = calls[j]
    BY <1>1, <1>3
  <1>6. calls[i].order = 0
    BY DEF CallInv
  <1>7. Executed' = Executed + 1
    <2>1. {j \in DOMAIN calls' : calls'[j].order # 0} = placed \cup {i}
      BY <1>2, <1>4, <1>5
    <2>2. IsFiniteSet(placed)
      <3>1. DOMAIN calls = 1 .. Len(calls) /\ Len(calls) \in Nat
        BY <1>1
      <3>2. IsFiniteSet(DOMAIN calls)
        BY <3>1, FS_Interval
      <3> QED BY <3>2, FS_Subset
    <2>3. i \notin placed
      BY <1>6
    <2>4. Cardinality(placed \cup {i}) = Cardinality(placed) + 1
      BY <2>2, <2>3, FS_AddElement
    <2> QED BY <2>1, <2>4 DEF Executed
  <1>8. CallInv'
    <2> SUFFICES ASSUME NEW j \in DOMAIN calls
                 PROVE  /\ calls'[j].order \in 0 .. Executed + 1
                        /\ calls'[j].server # "committed" => calls'[j].order = 0
                        /\ calls'[j].caller = "acked" => calls'[j].server = "committed"
                        /\ calls'[j].op = "insert" => calls'[j].table # "warm_medians"
      BY <1>5, <1>7 DEF CallInv
    <2>1. CASE j = i
      BY <2>1, <1>2, <1>4, <1>5 DEF CallInv
    <2>2. CASE j # i
      BY <2>2, <1>2, <1>5 DEF CallInv
    <2> QED BY <2>1, <2>2
  <1>9. Remembers
    BY <1>1, <1>4, <1>5, <1>6 DEF Remembers
  <1> QED BY <1>2, <1>4, <1>5, <1>8, <1>9

-----------------------------------------------------------------------------
(* Inserts that were committed.                                             *)

\* AckedStays, from the commit on: nothing changes when the reply arrives.
InsertsKept ==
    \A i \in DOMAIN calls :
        calls[i].op = "insert" /\ calls[i].server = "committed"
            => KeptAsSent(i) \/ \E j \in DOMAIN calls : Removes(j, i)

\* What a row has belonged to stays known.
LEMMA OwnedStays ==
    ASSUME Remembers, NEW t, NEW key, NEW project, Owned(t, key, project)
    PROVE  Owned(t, key, project)'
  <1>1. CASE \E row \in Existing[t] : row.key = key /\ row.parent = project
    BY <1>1 DEF Owned
  <1>2. ASSUME NEW k \in DOMAIN calls,
               calls[k].op = "insert", calls[k].order # 0, calls[k].table = t,
               StoredAs[calls[k].row.key] = key, calls[k].row.parent = project
        PROVE  Owned(t, key, project)'
    <2>1. /\ k \in DOMAIN calls' /\ calls'[k].op = "insert" /\ calls'[k].order # 0
          /\ calls'[k].table = t /\ calls'[k].row = calls[k].row
      BY <1>2 DEF Remembers
    <2> QED BY <1>2, <2>1 DEF Owned
  <1> QED BY <1>1, <1>2 DEF Owned

\* What excused a change still does.
LEMMA ExcusesStay ==
    ASSUME Remembers, NEW i \in DOMAIN calls, calls'[i].order = calls[i].order,
           NEW j \in DOMAIN calls
    PROVE  /\ Removes(j, i) => Removes(j, i)'
           /\ Unlinks(j, i) => Unlinks(j, i)'
           /\ Marks(j, i) => Marks(j, i)'
  <1>1. After(i, j) => After(i, j)'
    BY DEF Remembers, After
  <1>2. /\ calls'[i].table = calls[i].table /\ calls'[i].row = calls[i].row
        /\ calls'[j].op = calls[j].op /\ calls'[j].table = calls[j].table
        /\ calls'[j].row = calls[j].row
    BY DEF Remembers
  <1>3. \A t, key : DeletesAfter(i, j, t, key) => DeletesAfter(i, j, t, key)'
    BY <1>1, <1>2 DEF DeletesAfter
  <1>4. \A t, key : DeletesOwner(i, j, t, key) => DeletesOwner(i, j, t, key)'
    BY <1>1, <1>2, OwnedStays DEF DeletesOwner
  <1> QED BY <1>1, <1>2, <1>3, <1>4 DEF Removes, Unlinks, Marks

\* A row that stays as it is stays as it was sent.
LEMMA KeptStays ==
    ASSUME Remembers, NEW i \in DOMAIN calls, calls'[i].order = calls[i].order,
           table[calls[i].table] \subseteq table'[calls[i].table],
           KeptAsSent(i) \/ \E j \in DOMAIN calls : Removes(j, i)
    PROVE  (KeptAsSent(i) \/ \E j \in DOMAIN calls : Removes(j, i))'
  <1>1. DOMAIN calls \subseteq DOMAIN calls'
          /\ calls'[i].table = calls[i].table /\ calls'[i].row = calls[i].row
    BY DEF Remembers
  <1>2. CASE \E j \in DOMAIN calls : Removes(j, i)
    BY <1>1, <1>2, ExcusesStay
  <1>3. CASE KeptAsSent(i)
    <2> DEFINE sent == Stored(calls[i].row, Now(i))
    <2>1. PICK row \in Get(calls[i].table, calls[i].row.key) :
           /\ row = [sent EXCEPT !.provider = row.provider, !.status = row.status]
           /\ \/ row.provider = sent.provider
              \/ row.provider = None /\ \E j \in DOMAIN calls : Unlinks(j, i)
           /\ \/ row.status = sent.status
              \/ row.status = "deleted" /\ \E j \in DOMAIN calls : Marks(j, i)
      BY <1>3 DEF KeptAsSent
    <2>2. row \in Get(calls[i].table, calls[i].row.key)'
      BY <1>1 DEF Get, Find
    <2>3. sent' = sent
      BY <1>1 DEF Stored, Now
    <2> HIDE DEF sent
    <2>4. /\ \/ row.provider = sent.provider
             \/ row.provider = None /\ \E j \in DOMAIN calls' : Unlinks(j, i)'
          /\ \/ row.status = sent.status
             \/ row.status = "deleted" /\ \E j \in DOMAIN calls' : Marks(j, i)'
      BY <1>1, <2>1, ExcusesStay
    <2> QED BY <2>1, <2>2, <2>3, <2>4 DEF KeptAsSent, sent
  <1> QED BY <1>2, <1>3

\* One column changes and the others stay as sent.
LEMMA StillAsSent ==
    ASSUME NEW sent \in Rows, NEW row \in Rows, NEW new \in Rows,
           row = [sent EXCEPT !.provider = row.provider, !.status = row.status],
           \/ new = [row EXCEPT !.provider = None]
           \/ new = [row EXCEPT !.status = "deleted"]
    PROVE  new = [sent EXCEPT !.provider = new.provider, !.status = new.status]
  BY DEF Rows

\* A row survives a DELETE that is neither of it, nor of what it belongs to, nor
\* of what that belongs to; it may lose its provider.
LEMMA Survives ==
    ASSUME table \in [Tables -> SUBSET Rows], Closed(table),
           NEW t \in Tables, NEW r \in table[t], NEW u \in Tables, NEW key,
           ~(u = t /\ StoredAs[key] = r.key),
           t \in DOMAIN ParentTable => ~(u = ParentTable[t] /\ StoredAs[key] = r.parent),
           t \in DOMAIN ParentTable /\ ParentTable[t] = "endpoints"
              => \A e \in table["endpoints"] :
                    e.key = r.parent => ~(u = "projects" /\ StoredAs[key] = e.parent)
    PROVE  \/ r \in Deleted(u, key)[t]
           \/ /\ [r EXCEPT !.provider = None] \in Deleted(u, key)[t]
              /\ t = "endpoints"
              /\ \/ r.provider = None
                 \/ u = "providers" /\ StoredAs[key] = r.provider
                 \/ /\ u = "projects"
                    /\ \E v \in table["providers"] :
                          v.key = r.provider /\ v.parent = StoredAs[key]
  <1> DEFINE without == [table EXCEPT ![u] = @ \ Get(u, key)]
             once == Cascade(without)
             left == Cascade(once)
  <1>0. /\ DOMAIN ParentTable \subseteq Tables
        /\ \A s \in DOMAIN ParentTable :
              ParentTable[s] \in Tables /\ ParentTable[s] \in {"projects", "endpoints"}
        /\ "projects" \in Tables \ DOMAIN ParentTable /\ "endpoints" \in DOMAIN ParentTable
        /\ "providers" \in DOMAIN ParentTable /\ ParentTable["providers"] = "projects"
        /\ ParentTable["endpoints"] = "projects"
    BY DEF Tables, ParentTable
  <1>1. /\ without \in [Tables -> SUBSET Rows]
        /\ \A s \in Tables : \A p \in table[s] :
              p \in without[s] \/ (s = u /\ p.key = StoredAs[key])
    BY DEF Get, Find
  <1>2. /\ once \in [Tables -> SUBSET Rows] /\ left \in [Tables -> SUBSET Rows]
        /\ once["projects"] = without["projects"] /\ left["projects"] = once["projects"]
        /\ \A s \in DOMAIN ParentTable :
              /\ once[s] = {row \in without[s] : \E p \in without[ParentTable[s]] : p.key = row.parent}
              /\ left[s] = {row \in once[s] : \E p \in once[ParentTable[s]] : p.key = row.parent}
        /\ \A s \in Tables \ DOMAIN ParentTable : left[s] = without[s]
    <2>1. /\ once \in [Tables -> SUBSET Rows] /\ once["projects"] = without["projects"]
          /\ \A s \in DOMAIN ParentTable : once[s] =
                {row \in without[s] : \E p \in without[ParentTable[s]] : p.key = row.parent}
          /\ \A s \in Tables \ DOMAIN ParentTable : once[s] = without[s]
      <3> HIDE DEF without
      <3> QED BY <1>0, <1>1, CascadeRows
    <2>2. /\ left \in [Tables -> SUBSET Rows] /\ left["projects"] = once["projects"]
          /\ \A s \in DOMAIN ParentTable : left[s] =
                {row \in once[s] : \E p \in once[ParentTable[s]] : p.key = row.parent}
          /\ \A s \in Tables \ DOMAIN ParentTable : left[s] = once[s]
      <3> HIDE DEF without, once
      <3> QED BY <1>0, <2>1, CascadeRows
    <2> HIDE DEF without, once, left
    <2> QED BY <2>1, <2>2
  <1>3. Deleted(u, key) = SetNull(left)
    BY DEF Deleted
  <1> HIDE DEF without, once, left
  \* Rows that belong to a project.
  <1>4. ASSUME NEW s \in DOMAIN ParentTable, ParentTable[s] = "projects", NEW q \in table[s],
               ~(u = s /\ StoredAs[key] = q.key), ~(u = "projects" /\ StoredAs[key] = q.parent)
        PROVE  q \in once[s] /\ q \in left[s]
    <2>1. PICK p \in table["projects"] : p.key = q.parent
      BY <1>4 DEF Closed
    <2>2. p \in without["projects"] /\ q \in without[s]
      BY <1>0, <1>1, <1>4, <2>1
    <2> QED BY <1>2, <1>4, <2>1, <2>2
  <1>5. r \in left[t]
    <2>1. CASE t \notin DOMAIN ParentTable
      BY <1>1, <1>2, <2>1
    <2>2. CASE t \in DOMAIN ParentTable /\ ParentTable[t] = "projects"
      BY <1>4, <2>2
    <2>3. CASE t \in DOMAIN ParentTable /\ ParentTable[t] = "endpoints"
      <3>1. PICK p \in table["endpoints"] : p.key = r.parent
        BY <2>3 DEF Closed
      <3>2. p \in once["endpoints"]
        <4>1. ~(u = "endpoints" /\ StoredAs[key] = p.key)
          BY <2>3, <3>1
        <4>2. ~(u = "projects" /\ StoredAs[key] = p.parent)
          BY <2>3, <3>1
        <4> QED BY <1>0, <1>4, <3>1, <4>1, <4>2
      <3>3. p \in without["endpoints"] /\ r \in without[t]
        BY <1>0, <1>1, <1>2, <2>3, <3>2
      <3> QED BY <1>2, <2>3, <3>1, <3>2, <3>3
    <2> QED BY <1>0, <2>1, <2>2, <2>3
  <1>6. CASE t # "endpoints"
    BY <1>0, <1>2, <1>3, <1>5, <1>6 DEF SetNull
  <1>7. CASE t = "endpoints"
    <2>1. Deleted(u, key)[t] = {IF \E v \in left["providers"] : v.key = e.provider
                                 THEN e ELSE [e EXCEPT !.provider = None] : e \in left[t]}
      BY <1>0, <1>2, <1>3, <1>7 DEF SetNull
    <2>2. CASE \E v \in left["providers"] : v.key = r.provider
      BY <1>5, <2>1, <2>2
    <2>3. CASE ~\E v \in left["providers"] : v.key = r.provider
      <3>1. [r EXCEPT !.provider = None] \in Deleted(u, key)[t]
        BY <1>5, <2>1, <2>3
      <3>2. ASSUME r.provider # None
            PROVE  \/ u = "providers" /\ StoredAs[key] = r.provider
                   \/ /\ u = "projects"
                      /\ \E v \in table["providers"] :
                            v.key = r.provider /\ v.parent = StoredAs[key]
        <4>1. PICK v \in table["providers"] : v.key = r.provider
          BY <1>7, <3>2 DEF Closed
        <4>2. v \notin left["providers"]
          BY <2>3, <4>1
        <4> QED BY <1>0, <1>4, <3>2, <4>1, <4>2
      <3> QED BY <1>7, <3>1, <3>2
    <2> QED BY <2>2, <2>3
  <1> QED BY <1>6, <1>7

\* Its key and parent are those that were sent.
LEMMA AsSentColumns ==
    ASSUME NEW sent \in Rows, NEW new,
           new = [sent EXCEPT !.provider = new.provider, !.status = new.status]
    PROVE  new.key = sent.key /\ new.parent = sent.parent
  BY DEF Rows

\* A row that differs from the one sent as calls have made it differ.
LEMMA KeptWitness ==
    ASSUME TypeOK, Remembers, NEW i \in DOMAIN calls, NEW new \in Rows,
           new \in table'[calls[i].table],
           LET sent == Stored(calls[i].row, Now(i))
           IN  /\ new = [sent EXCEPT !.provider = new.provider, !.status = new.status]
               /\ \/ new.provider = sent.provider
                  \/ new.provider = None /\ \E j \in DOMAIN calls' : Unlinks(j, i)'
               /\ \/ new.status = sent.status
                  \/ new.status = "deleted" /\ \E j \in DOMAIN calls' : Marks(j, i)'
    PROVE  KeptAsSent(i)'
  <1> DEFINE sent == Stored(calls[i].row, Now(i))
  <1>1. calls'[i].table = calls[i].table /\ calls'[i].row = calls[i].row
    BY DEF Remembers
  <1>2. sent' = sent
    BY <1>1 DEF Stored, Now
  <1>3. new.key = StoredAs[calls[i].row.key]
    <2>1. sent \in Rows /\ sent.key = StoredAs[calls[i].row.key]
      BY CallFields, StoredRow DEF Now
    <2> HIDE DEF sent
    <2>2. new = [sent EXCEPT !.provider = new.provider, !.status = new.status]
      BY DEF sent
    <2> QED BY <2>1, <2>2, AsSentColumns
  <1>4. new \in Get(calls[i].table, calls[i].row.key)'
    BY <1>1, <1>3 DEF Get, Find
  <1> HIDE DEF sent
  <1> QED BY <1>1, <1>2, <1>4 DEF KeptAsSent, sent

\* The projects of endpoints and providers are known.
OwnersKnown ==
    \A t \in {"endpoints", "providers"} : \A r \in table[t] : Owned(t, r.key, r.parent)

\* A deletion leaves what it does not remove.
LEMMA KeptOrGone ==
    ASSUME Inv, CallInv, OwnersKnown, NEW i \in DOMAIN calls, NEW d \in DOMAIN calls,
           calls[i].server = "committed", Delete(d),
           KeptAsSent(i) \/ \E j \in DOMAIN calls : Removes(j, i)
    PROVE  (KeptAsSent(i) \/ \E j \in DOMAIN calls : Removes(j, i))'
  <1> DEFINE sent == Stored(calls[i].row, Now(i))
             t == calls[i].table
             u == calls[d].table
             key == calls[d].row.key
  <1>1. /\ Remembers /\ DOMAIN calls' = DOMAIN calls
        /\ calls'[d].order = Executed + 1 /\ calls'[i].order = calls[i].order
        /\ Executed \in Nat /\ calls[i].order \in 0 .. Executed
    <2>1. calls[d].server = "running" /\ Commit(d)
      BY DEF Delete
    <2> QED BY <2>1, CommitCalls DEF Inv, CallInv
  <1>2. After(i, d)'
    BY <1>1 DEF After
  <1>3. /\ calls'[i].table = t /\ calls'[i].row = calls[i].row
        /\ calls'[d].op = calls[d].op /\ calls'[d].table = u /\ calls'[d].row = calls[d].row
    BY <1>1 DEF Remembers
  <1>4. t \in Tables /\ u \in Tables /\ calls[i].row \in Rows /\ i \in Nat
    BY CallFields DEF Inv
  <1>5. sent \in Rows /\ sent.key = StoredAs[calls[i].row.key]
          /\ sent.parent = calls[i].row.parent /\ sent.provider = calls[i].row.provider
    BY <1>4, StoredRow DEF Now
  <1>6. CASE \E j \in DOMAIN calls : Removes(j, i)
    BY <1>1, <1>6, ExcusesStay
  <1>7. CASE Removes(d, i)'
    BY <1>1, <1>7
  <1>8. CASE KeptAsSent(i) /\ ~Removes(d, i)'
    <2>1. PICK row \in Get(t, calls[i].row.key) :
           /\ row = [sent EXCEPT !.provider = row.provider, !.status = row.status]
           /\ \/ row.provider = sent.provider
              \/ row.provider = None /\ \E j \in DOMAIN calls : Unlinks(j, i)
           /\ \/ row.status = sent.status
              \/ row.status = "deleted" /\ \E j \in DOMAIN calls : Marks(j, i)
      BY <1>8 DEF KeptAsSent
    <2>2. row \in table[t] /\ row.key = StoredAs[calls[i].row.key] /\ row \in Rows
      BY <1>4, <2>1 DEF Get, Find, Inv, TypeOK
    <2> HIDE DEF sent
    <2>3. row.parent = calls[i].row.parent
      BY <1>5, <2>1, AsSentColumns
    <2>4. /\ \/ row.provider = sent.provider
             \/ row.provider = None /\ \E j \in DOMAIN calls' : Unlinks(j, i)'
          /\ \/ row.status = sent.status
             \/ row.status = "deleted" /\ \E j \in DOMAIN calls' : Marks(j, i)'
      BY <1>1, <2>1, ExcusesStay
    <2>5. CASE row \in table'[t]
      BY <1>1, <2>1, <2>2, <2>4, <2>5, KeptWitness DEF Inv, sent
    <2>6. CASE calls[d].op = "delete" /\ row \notin table'[t]
      <3>1. table' = Deleted(u, key)
        BY <2>6 DEF Delete
      <3>2. /\ ~(u = t /\ StoredAs[key] = row.key)
            /\ t \in DOMAIN ParentTable => ~(u = ParentTable[t] /\ StoredAs[key] = row.parent)
        BY <1>2, <1>3, <1>8, <2>2, <2>3, <2>6 DEF Removes, DeletesAfter
      <3>8. ASSUME t \in DOMAIN ParentTable, ParentTable[t] = "endpoints",
                   NEW e \in table["endpoints"], e.key = row.parent,
                   u = "projects", StoredAs[key] = e.parent
            PROVE  FALSE
        <4>1. Owned("endpoints", row.parent, StoredAs[key])'
          BY <1>1, <1>3, <3>8, OwnedStays DEF OwnersKnown
        <4>2. DeletesOwner(i, d, "endpoints", row.parent)'
          BY <1>2, <1>3, <2>6, <3>8, <4>1 DEF DeletesOwner
        <4>3. Removes(d, i)'
          BY <1>3, <2>3, <3>8, <4>2 DEF Removes
        <4> QED BY <1>8, <4>3
      <3> DEFINE new == [row EXCEPT !.provider = None]
      <3>3. /\ new \in table'[t]
            /\ \/ row.provider = None
               \/ u = "providers" /\ StoredAs[key] = row.provider
               \/ /\ u = "projects"
                  /\ \E v \in table["providers"] :
                        v.key = row.provider /\ v.parent = StoredAs[key]
        BY <1>4, <2>2, <2>6, <3>1, <3>2, <3>8, Survives DEF Inv, TypeOK, NoDangling
      <3>4. new \in Rows /\ new.provider = None /\ new.status = row.status
        BY <2>2, UnlinkedRow
      <3>5. row.provider = sent.provider \/ row.provider = None
        BY <2>1
      <3>6. new.provider = sent.provider \/ \E j \in DOMAIN calls' : Unlinks(j, i)'
        <4>1. CASE row.provider = None
          BY <2>4, <3>4, <4>1
        <4>2. CASE row.provider # None
          <5>1. row.provider = calls[i].row.provider
            BY <1>5, <3>5, <4>2
          <5>2. CASE u = "providers" /\ StoredAs[key] = row.provider
            <6>1. Unlinks(d, i)'
              BY <1>2, <1>3, <2>6, <5>1, <5>2 DEF Unlinks, DeletesAfter
            <6> QED BY <1>1, <6>1
          <5>3. ASSUME u = "projects", NEW v \in table["providers"],
                       v.key = row.provider, v.parent = StoredAs[key]
                PROVE  \E j \in DOMAIN calls' : Unlinks(j, i)'
            <6>1. Owned("providers", row.provider, StoredAs[key])'
              BY <1>1, <1>3, <5>3, OwnedStays DEF OwnersKnown
            <6>2. DeletesOwner(i, d, "providers", row.provider)'
              BY <1>2, <1>3, <2>6, <5>3, <6>1 DEF DeletesOwner
            <6>3. Unlinks(d, i)'
              BY <1>3, <5>1, <6>2 DEF Unlinks
            <6> QED BY <1>1, <6>3
          <5> QED BY <3>3, <4>2, <5>2, <5>3
        <4> QED BY <4>1, <4>2
      <3>7. new = [sent EXCEPT !.provider = new.provider, !.status = new.status]
        BY <1>5, <2>1, <2>2, <3>4, StillAsSent
      <3> HIDE DEF new
      <3> QED BY <1>1, <2>4, <3>3, <3>4, <3>6, <3>7, KeptWitness DEF Inv, sent
    <2>7. CASE calls[d].op = "softDelete" /\ row \notin table'[t]
      <3>1. table' = SoftDeleted(key)
        BY <2>7 DEF Delete
      <3> DEFINE new == [row EXCEPT !.status = "deleted"]
      <3>2. t = "endpoints" /\ row.key = key /\ new \in table'[t]
        <4>1. "endpoints" \in Tables
          BY DEF Tables, ParentTable
        <4>2. t = "endpoints"
          BY <1>4, <2>2, <2>7, <3>1, <4>1 DEF SoftDeleted, Inv, TypeOK
        <4>3. table'[t] = {IF e.key = key THEN [e EXCEPT !.status = "deleted"] ELSE e :
                               e \in table[t]}
          BY <3>1, <4>1, <4>2 DEF SoftDeleted, Inv, TypeOK
        <4> QED BY <2>2, <2>7, <4>2, <4>3
      <3>3. new \in Rows /\ new.status = "deleted" /\ new.provider = row.provider
        BY <2>2 DEF Rows
      <3>4. Marks(d, i)'
        BY <1>2, <1>3, <2>2, <2>7, <3>2 DEF Marks
      <3>5. new = [sent EXCEPT !.provider = new.provider, !.status = new.status]
        BY <1>5, <2>1, <2>2, <3>3, StillAsSent
      <3> HIDE DEF new
      <3> QED BY <1>1, <2>4, <3>2, <3>3, <3>4, <3>5, KeptWitness DEF Inv, sent
    <2> QED BY <2>5, <2>6, <2>7 DEF Delete
  <1> QED BY <1>6, <1>7, <1>8

-----------------------------------------------------------------------------
(* The steps, for the calls and what they have been told.                   *)

Told == CallInv /\ OwnersKnown /\ InsertsKept /\ LastUpsertWhole

\* A step after which the rows of these tables have keys and parents of before.
LEMMA OwnersStay ==
    ASSUME OwnersKnown, Remembers,
           \A t \in {"endpoints", "providers"} : \A r \in table'[t] :
              \E o \in table[t] : o.key = r.key /\ o.parent = r.parent
    PROVE  OwnersKnown'
  <1>1. ASSUME NEW t \in {"endpoints", "providers"}, NEW r \in table'[t]
        PROVE  Owned(t, r.key, r.parent)'
    <2>1. PICK o \in table[t] : o.key = r.key /\ o.parent = r.parent
      OBVIOUS
    <2>2. Owned(t, r.key, r.parent)
      BY <2>1 DEF OwnersKnown
    <2> QED BY <2>2, OwnedStays
  <1> QED BY <1>1 DEF OwnersKnown

\* The rows of a table other than the warm medians, and no step in its way.
LEMMA InsertsStay ==
    ASSUME InsertsKept, CallInv, Remembers, DOMAIN calls' = DOMAIN calls,
           NEW d \in DOMAIN calls, calls[d].server = "running",
           \A j \in DOMAIN calls \ {d} : calls'[j] = calls[j],
           \A i \in DOMAIN calls : calls[i].op = "insert"
               => table[calls[i].table] \subseteq table'[calls[i].table]
    PROVE  \A i \in DOMAIN calls \ {d} :
              calls'[i].op = "insert" /\ calls'[i].server = "committed"
                 => (KeptAsSent(i) \/ \E j \in DOMAIN calls : Removes(j, i))'
  <1> SUFFICES ASSUME NEW i \in DOMAIN calls \ {d},
                      calls'[i].op = "insert", calls'[i].server = "committed"
               PROVE  (KeptAsSent(i) \/ \E j \in DOMAIN calls : Removes(j, i))'
    OBVIOUS
  <1>1. calls'[i] = calls[i]
    OBVIOUS
  <1>2. KeptAsSent(i) \/ \E j \in DOMAIN calls : Removes(j, i)
    BY <1>1 DEF InsertsKept
  <1> QED BY <1>1, <1>2, KeptStays

\* A warm median that stays is still the last one, unless the step upserts it.
LEMMA MediansStay ==
    ASSUME LastUpsertWhole, DOMAIN calls' = DOMAIN calls,
           NEW d \in DOMAIN calls,
           \A j \in DOMAIN calls \ {d} : calls'[j] = calls[j],
           NEW m \in table["warm_medians"],
           calls[d].server = "running",
           calls'[d].op = "upsert" => StoredAs[calls'[d].row.key] # m.key
    PROVE  LET upserts == {i \in DOMAIN calls : /\ calls[i].op = "upsert"
                                                /\ calls[i].server = "committed"
                                                /\ StoredAs[calls[i].row.key] = m.key}'
           IN  \/ m \in Existing["warm_medians"] /\ upserts = {}
               \/ \E i \in upserts :
                     /\ m = Stored(calls'[i].row, Now(i))
                     /\ \A j \in upserts : ~After(i, j)'
  <1> DEFINE upserts == {i \in DOMAIN calls : /\ calls[i].op = "upsert"
                                              /\ calls[i].server = "committed"
                                              /\ StoredAs[calls[i].row.key] = m.key}
  <1>1. upserts' = upserts /\ d \notin upserts
    OBVIOUS
  <1>2. \A i \in upserts : calls'[i] = calls[i]
    OBVIOUS
  <1>3. \/ m \in Existing["warm_medians"] /\ upserts = {}
        \/ \E i \in upserts :
              m = Stored(calls[i].row, Now(i)) /\ \A j \in upserts : ~After(i, j)
    BY DEF LastUpsertWhole
  <1>4. \A i, j \in upserts : After(i, j)' = After(i, j)
    BY <1>2 DEF After
  <1> HIDE DEF upserts
  <1>5. \/ m \in Existing["warm_medians"] /\ upserts' = {}
        \/ \E i \in upserts' :
              m = Stored(calls'[i].row, Now(i)) /\ \A j \in upserts' : ~After(i, j)'
    BY <1>1, <1>2, <1>3, <1>4
  <1> QED BY <1>5 DEF upserts

LEMMA QuietTold ==
    ASSUME Inv, Told, Quiet
    PROVE  Told'
  <1>1. CallInv'
    BY QuietCalls DEF Inv, Told
  <1>2. InsertsKept'
    <2> SUFFICES ASSUME NEW i \in DOMAIN calls',
                        calls'[i].op = "insert", calls'[i].server = "committed"
                 PROVE  (KeptAsSent(i) \/ \E j \in DOMAIN calls : Removes(j, i))'
      BY DEF InsertsKept
    <2>1. i \in DOMAIN calls
      BY DEF Quiet
    <2>2. KeptAsSent(i) \/ \E j \in DOMAIN calls : Removes(j, i)
      BY <2>1 DEF Quiet, Remembers, Told, InsertsKept
    <2> QED BY <2>1, <2>2, KeptStays DEF Quiet
  <1>3. LastUpsertWhole'
    <2> SUFFICES ASSUME NEW m \in table["warm_medians"]
                 PROVE  LET upserts == {i \in DOMAIN calls : /\ calls[i].op = "upsert"
                                                /\ calls[i].server = "committed"
                                                /\ StoredAs[calls[i].row.key] = m.key}'
                        IN  \/ m \in Existing["warm_medians"] /\ upserts = {}
                            \/ \E i \in upserts :
                                  /\ m = Stored(calls'[i].row, Now(i))
                                  /\ \A j \in upserts : ~After(i, j)'
      BY DEF LastUpsertWhole, Quiet
    <2> DEFINE upserts == {i \in DOMAIN calls : /\ calls[i].op = "upsert"
                                                /\ calls[i].server = "committed"
                                                /\ StoredAs[calls[i].row.key] = m.key}
    <2>1. upserts' = upserts
      BY DEF Quiet, Remembers
    <2>2. \A i \in upserts : calls'[i].row = calls[i].row
      BY DEF Remembers, Quiet
    <2>3. \A i, j \in upserts : After(i, j)' = After(i, j)
      BY DEF After, Quiet
    <2>4. \/ m \in Existing["warm_medians"] /\ upserts = {}
          \/ \E i \in upserts :
                m = Stored(calls[i].row, Now(i)) /\ \A j \in upserts : ~After(i, j)
      BY DEF LastUpsertWhole, Told
    <2> HIDE DEF upserts
    <2>5. \/ m \in Existing["warm_medians"] /\ upserts' = {}
          \/ \E i \in upserts' :
                m = Stored(calls'[i].row, Now(i)) /\ \A j \in upserts' : ~After(i, j)'
      BY <2>1, <2>2, <2>3, <2>4
    <2> QED BY <2>5 DEF upserts
  <1>4. OwnersKnown'
    BY OwnersStay DEF Told, Quiet
  <1> QED BY <1>1, <1>2, <1>3, <1>4 DEF Told

LEMMA FailQuiet ==
    ASSUME Inv, Told, NEW i \in DOMAIN calls, calls[i].server = "running", Fail(i)
    PROVE  Quiet
  <1> DEFINE c == [calls[i] EXCEPT !.server = "failed"]
  <1>1. calls \in Seq(Call) /\ \A j \in DOMAIN calls : calls[j] \in Call
    BY DEF Inv, TypeOK
  <1>2. /\ c.server = "failed" /\ c.order = calls[i].order /\ c.op = calls[i].op
        /\ c.table = calls[i].table /\ c.row = calls[i].row /\ c.caller = calls[i].caller
    BY <1>1 DEF Call
  <1>3. calls' = [calls EXCEPT ![i] = c] /\ table' = table
    BY <1>1 DEF Fail
  <1> HIDE DEF c
  <1>4. /\ DOMAIN calls' = DOMAIN calls /\ calls'[i] = c
        /\ \A j \in DOMAIN calls \ {i} : calls'[j] = calls[j]
    BY <1>1, <1>3
  <1>5. \A j \in DOMAIN calls : calls[j].order \in Nat
    BY <1>1 DEF Call
  <1>6. \A j \in DOMAIN calls : calls[j].caller = "acked" => calls[j].server = "committed"
    BY DEF Told, CallInv
  <1> QED BY <1>2, <1>3, <1>4, <1>5, <1>6 DEF Quiet, Remembers

LEMMA ReplyQuiet ==
    ASSUME Inv, Told, NEW i \in DOMAIN calls, Reply(i) \/ GiveUp(i)
    PROVE  Quiet
  <1>1. calls \in Seq(Call) /\ \A j \in DOMAIN calls : calls[j] \in Call
    BY DEF Inv, TypeOK
  <1>2. PICK answer \in {"acked", "refused", "unsure"} :
            /\ calls' = [calls EXCEPT ![i].caller = answer] /\ table' = table
            /\ answer = "acked" => calls[i].server = "committed"
    BY DEF Reply, GiveUp
  <1> DEFINE c == [calls[i] EXCEPT !.caller = answer]
  <1>3. /\ c.server = calls[i].server /\ c.order = calls[i].order /\ c.op = calls[i].op
        /\ c.table = calls[i].table /\ c.row = calls[i].row /\ c.caller = answer
    BY <1>1 DEF Call
  <1>4. calls' = [calls EXCEPT ![i] = c]
    BY <1>1, <1>2
  <1> HIDE DEF c
  <1>5. /\ DOMAIN calls' = DOMAIN calls /\ calls'[i] = c
        /\ \A j \in DOMAIN calls \ {i} : calls'[j] = calls[j]
    BY <1>1, <1>4
  <1>6. \A j \in DOMAIN calls : calls[j].order \in Nat
    BY <1>1 DEF Call
  <1>7. \A j \in DOMAIN calls : calls[j].caller = "acked" => calls[j].server = "committed"
    BY DEF Told, CallInv
  <1> QED BY <1>2, <1>3, <1>5, <1>6, <1>7 DEF Quiet, Remembers

LEMMA SendQuiet ==
    ASSUME Inv, Told, NEW op \in {"insert", "upsert", "delete", "softDelete"},
           NEW t \in Tables, NEW row \in Rows, Send(op, t, row),
           op = "insert" => t # "warm_medians"
    PROVE  Quiet
  <1> DEFINE c == [op |-> op, table |-> t, row |-> row, server |-> "running",
                   caller |-> "waiting", order |-> 0]
  <1>1. calls \in Seq(Call) /\ \A j \in DOMAIN calls : calls[j] \in Call
    BY DEF Inv, TypeOK
  <1>2. calls' = Append(calls, c) /\ table' = table
    BY DEF Send
  <1>3. /\ c.op = op /\ c.table = t /\ c.server = "running" /\ c.caller = "waiting"
        /\ c.order = 0
    OBVIOUS
  <1> HIDE DEF c
  <1>4. /\ DOMAIN calls' = DOMAIN calls \cup {Len(calls) + 1}
        /\ Len(calls) + 1 \notin DOMAIN calls /\ calls'[Len(calls) + 1] = c
        /\ \A j \in DOMAIN calls : calls'[j] = calls[j]
    BY <1>1, <1>2
  <1>5. \A j \in DOMAIN calls : calls[j].order \in Nat
    BY <1>1 DEF Call
  <1>6. \A j \in DOMAIN calls : calls[j].caller = "acked" => calls[j].server = "committed"
    BY DEF Told, CallInv
  <1> QED BY <1>2, <1>3, <1>4, <1>5, <1>6 DEF Quiet, Remembers

\* Every step but a commit is quiet.
LEMMA QuietSteps ==
    ASSUME Inv, Told, [Next]_vars,
           ~\E i \in DOMAIN calls :
               (Insert(i) \/ UpsertWarmMedian(i) \/ Delete(i)) /\ Commit(i)
    PROVE  Quiet
  <1> USE ArgumentsAssumption
  <1>1. CASE \E tr \in Inserts : Send("insert", tr[1], tr[2])
    BY <1>1, SendQuiet
  <1>2. CASE \E m \in Medians : Send("upsert", "warm_medians", m)
    <2>1. "warm_medians" \in Tables
      BY DEF Tables, ParentTable
    <2> QED BY <1>2, <2>1, SendQuiet
  <1>3. CASE \E tr \in Deletes : Send("delete", tr[1], tr[2])
    BY <1>3, SendQuiet
  <1>4. CASE \E tr \in Deletes : tr[1] = "endpoints" /\ Send("softDelete", tr[1], tr[2])
    BY <1>4, SendQuiet
  <1>5. ASSUME NEW i \in DOMAIN calls,
               Insert(i) \/ UpsertWarmMedian(i) \/ Delete(i) \/ Drop(i) \/ Reply(i) \/ GiveUp(i)
        PROVE  Quiet
    <2>1. CASE Reply(i) \/ GiveUp(i)
      BY <2>1, ReplyQuiet
    <2>2. CASE Insert(i) \/ UpsertWarmMedian(i) \/ Delete(i) \/ Drop(i)
      <3>1. calls[i].server = "running" /\ Fail(i)
        BY <2>2 DEF Insert, UpsertWarmMedian, Delete, Drop
      <3> QED BY <3>1, FailQuiet
    <2> QED BY <1>5, <2>1, <2>2
  <1>6. CASE UNCHANGED vars
    <2>1. \A j \in DOMAIN calls : calls[j].order \in Nat
      <3>1. \A j \in DOMAIN calls : calls[j] \in Call
        BY DEF Inv, TypeOK
      <3> QED BY <3>1 DEF Call
    <2>2. table' = table /\ calls' = calls
      BY <1>6 DEF vars
    <2> QED BY <2>1, <2>2 DEF Quiet, Remembers, Told, CallInv
  <1>7. CASE Finished
    BY <1>6, <1>7 DEF Finished
  <1> QED BY <1>1, <1>2, <1>3, <1>4, <1>5, <1>6, <1>7 DEF Next

LEMMA InsertTold ==
    ASSUME Inv, Told, NEW d \in DOMAIN calls, Insert(d)
    PROVE  Told'
  <1> DEFINE t == calls[d].table
             row == calls[d].row
             new == Stored(row, Now(d))
  <1>1. CASE Fail(d)
    BY <1>1, FailQuiet, QuietTold DEF Insert
  <1>2. CASE table' = Inserted(t, row, Now(d)) /\ Commit(d)
    <2>1. /\ Remembers /\ DOMAIN calls' = DOMAIN calls
          /\ \A j \in DOMAIN calls \ {d} : calls'[j] = calls[j]
          /\ calls[d].server = "running" /\ calls[d].op = "insert" /\ CallInv'
          /\ calls'[d].order # 0
      BY <1>2, CommitCalls DEF Insert, Inv, Told
    <2>2. t \in Tables /\ row \in Rows /\ d \in Nat /\ t # "warm_medians"
      BY <2>1, CallFields DEF Inv, Told, CallInv
    <2>3. new \in Rows /\ new.key = StoredAs[row.key] /\ new.parent = row.parent
      BY <2>2, StoredRow DEF Now
    <2>4. table' = [table EXCEPT ![t] = @ \cup {new}]
      BY <1>2 DEF Inserted
    <2> HIDE DEF new
    <2>5. /\ \A u \in Tables : table[u] \subseteq table'[u]
          /\ table'["warm_medians"] = table["warm_medians"] /\ new \in table'[t]
      BY <2>2, <2>4 DEF Inv, TypeOK, Tables, ParentTable
    <2>6. \A i \in DOMAIN calls : calls[i].table \in Tables
      BY CallFields DEF Inv
    <2>7. KeptAsSent(d)'
      <3>1. new = [new EXCEPT !.provider = new.provider, !.status = new.status]
        BY <2>3 DEF Rows
      <3> QED BY <2>1, <2>3, <2>5, <3>1, KeptWitness DEF new, Inv
    <2>8. InsertsKept'
      <3>1. \A i \in DOMAIN calls \ {d} :
              calls'[i].op = "insert" /\ calls'[i].server = "committed"
                 => (KeptAsSent(i) \/ \E j \in DOMAIN calls : Removes(j, i))'
        BY <2>1, <2>5, <2>6, InsertsStay DEF Told
      <3> QED BY <2>1, <2>7, <3>1 DEF InsertsKept
    <2>9. LastUpsertWhole'
      <3>1. calls'[d].op # "upsert"
        BY <2>1 DEF Remembers
      <3> QED BY <2>1, <2>5, <3>1, MediansStay DEF Told, LastUpsertWhole
    <2>10. OwnersKnown'
      <3> SUFFICES ASSUME NEW s \in {"endpoints", "providers"}, NEW r \in table'[s]
                   PROVE  Owned(s, r.key, r.parent)'
        BY DEF OwnersKnown
      <3>1. CASE r \in table[s]
        BY <2>1, <3>1, OwnedStays DEF Told, OwnersKnown
      <3>2. CASE r \notin table[s]
        <4>1. s = t /\ r = new
          BY <2>2, <2>4, <3>2 DEF Inv, TypeOK, Tables, ParentTable
        <4>2. /\ d \in DOMAIN calls' /\ calls'[d].op = "insert" /\ calls'[d].order # 0
              /\ calls'[d].table = t /\ calls'[d].row = row
          BY <2>1 DEF Remembers
        <4>3. r.key = StoredAs[row.key] /\ r.parent = row.parent
          BY <2>3, <4>1
        <4> QED BY <4>1, <4>2, <4>3 DEF Owned
      <3> QED BY <3>1, <3>2
    <2> QED BY <2>1, <2>8, <2>9, <2>10 DEF Told
  <1> QED BY <1>1, <1>2 DEF Insert

LEMMA UpsertTold ==
    ASSUME Inv, Told, NEW d \in DOMAIN calls, UpsertWarmMedian(d)
    PROVE  Told'
  <1> DEFINE row == calls[d].row
             new == Stored(row, Now(d))
  <1>1. CASE Fail(d)
    BY <1>1, FailQuiet, QuietTold DEF UpsertWarmMedian
  <1>2. CASE table' = Upserted(row, Now(d)) /\ Commit(d)
    <2>1. /\ Remembers /\ DOMAIN calls' = DOMAIN calls
          /\ \A j \in DOMAIN calls \ {d} : calls'[j] = calls[j]
          /\ calls'[d].server = "committed" /\ calls'[d].order = Executed + 1
          /\ Executed \in Nat
          /\ calls[d].server = "running" /\ calls[d].op = "upsert" /\ CallInv'
      BY <1>2, CommitCalls DEF UpsertWarmMedian, Inv, Told
    <2>2. row \in Rows /\ d \in Nat
      BY CallFields DEF Inv
    <2>3. new \in Rows /\ new.key = StoredAs[row.key]
      BY <2>2, StoredRow DEF Now
    <2>4. table' = [table EXCEPT !["warm_medians"] =
                        (@ \ {r \in @ : r.key = new.key}) \cup {new}]
      BY <1>2, <2>3 DEF Upserted, Get, Find
    <2> HIDE DEF new
    <2>5. /\ \A u \in Tables : u # "warm_medians" => table'[u] = table[u]
          /\ \A m \in table'["warm_medians"] :
                m = new \/ (m \in table["warm_medians"] /\ m.key # new.key)
      <3>1. "warm_medians" \in Tables /\ DOMAIN table = Tables
        BY DEF Inv, TypeOK, Tables, ParentTable
      <3> QED BY <2>4, <3>1
    <2>6. \A i \in DOMAIN calls : /\ calls[i].table \in Tables
                                  /\ calls[i].op = "insert" => calls[i].table # "warm_medians"
      BY CallFields DEF Inv, Told, CallInv
    <2>7. calls'[d].op = "upsert" /\ calls'[d].row = row
      BY <2>1 DEF Remembers
    <2>8. InsertsKept'
      <3>1. \A i \in DOMAIN calls \ {d} :
              calls'[i].op = "insert" /\ calls'[i].server = "committed"
                 => (KeptAsSent(i) \/ \E j \in DOMAIN calls : Removes(j, i))'
        BY <2>1, <2>5, <2>6, InsertsStay DEF Told
      <3> QED BY <2>1, <2>7, <3>1 DEF InsertsKept
    <2>9. LastUpsertWhole'
      <3> SUFFICES ASSUME NEW m \in table'["warm_medians"]
                   PROVE  LET upserts == {i \in DOMAIN calls : /\ calls[i].op = "upsert"
                                                  /\ calls[i].server = "committed"
                                                  /\ StoredAs[calls[i].row.key] = m.key}'
                          IN  \/ m \in Existing["warm_medians"] /\ upserts = {}
                              \/ \E i \in upserts :
                                    /\ m = Stored(calls'[i].row, Now(i))
                                    /\ \A j \in upserts : ~After(i, j)'
        BY DEF LastUpsertWhole
      <3>1. CASE m = new
        <4>1. \A j \in DOMAIN calls : ~After(d, j)'
          <5>1. \A j \in DOMAIN calls : calls[j].order \in 0 .. Executed
            BY DEF Told, CallInv
          <5>2. ASSUME NEW j \in DOMAIN calls PROVE ~After(d, j)'
            <6>1. CASE j = d
              BY <2>1, <6>1 DEF After
            <6>2. CASE j # d
              BY <2>1, <5>1, <6>2 DEF After
            <6> QED BY <6>1, <6>2
          <5> QED BY <5>2
        <4> QED BY <2>1, <2>3, <2>7, <3>1, <4>1 DEF new
      <3>2. CASE m \in table["warm_medians"] /\ m.key # new.key
        BY <2>1, <2>3, <2>7, <3>2, MediansStay DEF Told
      <3> QED BY <2>5, <3>1, <3>2
    <2>10. OwnersKnown'
      <3>1. \A t \in {"endpoints", "providers"} : table'[t] = table[t]
        BY <2>5 DEF Tables, ParentTable
      <3> QED BY <2>1, <3>1, OwnersStay DEF Told
    <2> QED BY <2>1, <2>8, <2>9, <2>10 DEF Told
  <1> QED BY <1>1, <1>2 DEF UpsertWarmMedian

LEMMA DeleteTold ==
    ASSUME Inv, Told, NEW d \in DOMAIN calls, Delete(d)
    PROVE  Told'
  <1>1. /\ Remembers /\ DOMAIN calls' = DOMAIN calls
        /\ \A j \in DOMAIN calls \ {d} : calls'[j] = calls[j]
        /\ calls[d].server = "running" /\ CallInv'
        /\ calls[d].op \in {"delete", "softDelete"}
    BY CommitCalls DEF Delete, Inv, Told
  <1>2. calls'[d].op \in {"delete", "softDelete"}
    BY <1>1 DEF Remembers
  <1>3. InsertsKept'
    <2> SUFFICES ASSUME NEW i \in DOMAIN calls,
                        calls'[i].op = "insert", calls'[i].server = "committed"
                 PROVE  (KeptAsSent(i) \/ \E j \in DOMAIN calls : Removes(j, i))'
      BY <1>1 DEF InsertsKept
    <2>1. calls'[i] = calls[i]
      BY <1>1, <1>2
    <2>2. KeptAsSent(i) \/ \E j \in DOMAIN calls : Removes(j, i)
      BY <2>1 DEF Told, InsertsKept
    <2> QED BY <2>1, <2>2, KeptOrGone DEF Told
  <1>6. Narrows(table', table)
    <2>1. CASE table' = Deleted(calls[d].table, calls[d].row.key)
      BY <2>1, CallFields, DeletedSound DEF Inv, TypeOK
    <2>2. CASE table' = SoftDeleted(calls[d].row.key)
      BY <2>2, SoftDeletedSound DEF Inv, TypeOK, NoDangling
    <2> QED BY <2>1, <2>2 DEF Delete
  <1>7. OwnersKnown'
    <2>1. \A r \in table'["endpoints"] : \E o \in table["endpoints"] :
              o.key = r.key /\ o.parent = r.parent
      BY <1>6 DEF Narrows
    <2>2. table'["providers"] \subseteq table["providers"]
      BY <1>6 DEF Narrows, Tables, ParentTable
    <2> QED BY <1>1, <2>1, <2>2, OwnersStay DEF Told
  <1>4. table'["warm_medians"] \subseteq table["warm_medians"]
    BY <1>6 DEF Narrows, Tables, ParentTable
  <1>5. LastUpsertWhole'
    BY <1>1, <1>2, <1>4, MediansStay DEF Told, LastUpsertWhole
  <1> QED BY <1>1, <1>3, <1>5, <1>7 DEF Told

LEMMA InitTold == Init => Told
  <1> SUFFICES ASSUME Init PROVE Told
    OBVIOUS
  <1>1. CallInv /\ InsertsKept /\ LastUpsertWhole
    BY DEF Init, CallInv, InsertsKept, LastUpsertWhole
  <1>2. OwnersKnown
    BY DEF Init, OwnersKnown, Owned
  <1> QED BY <1>1, <1>2 DEF Told

LEMMA NextTold == Inv /\ Told /\ [Next]_vars => Told'
  BY QuietSteps, QuietTold, InsertTold, UpsertTold, DeleteTold

-----------------------------------------------------------------------------
(* Retries.                                                                 *)

\* What InsertedOnce says of two inserts that took effect.
Took(i) == calls[i].op = "insert" /\ calls[i].server = "committed"
SameKey(i, k) == /\ calls[i].table = calls[k].table
                 /\ StoredAs[calls[i].row.key] = StoredAs[calls[k].row.key]
Between(i, k) == \E j \in DOMAIN calls : \/ Removes(j, i) /\ After(j, k)
                                         \/ Removes(j, k) /\ After(j, i)

\* A deletion between two commits stays there.
LEMMA BetweenStays ==
    ASSUME Remembers, NEW i \in DOMAIN calls, NEW k \in DOMAIN calls,
           calls'[i].order = calls[i].order, calls'[k].order = calls[k].order,
           Between(i, k)
    PROVE  Between(i, k)'
  <1>1. PICK j \in DOMAIN calls : \/ Removes(j, i) /\ After(j, k)
                                  \/ Removes(j, k) /\ After(j, i)
    BY DEF Between
  <1>2. j \in DOMAIN calls' /\ calls[j].order # 0
    <2>1. \A x \in DOMAIN calls : calls[x].order \in Nat
      BY DEF Remembers
    <2>2. After(i, j) \/ After(k, j)
      BY <1>1 DEF Removes, DeletesAfter, DeletesOwner
    <2> QED BY <2>1, <2>2 DEF After, Remembers
  <1>3. calls'[j].order = calls[j].order
    BY <1>2 DEF Remembers
  <1>4. (Removes(j, i) => Removes(j, i)') /\ (Removes(j, k) => Removes(j, k)')
    BY ExcusesStay
  <1>5. (After(j, i) => After(j, i)') /\ (After(j, k) => After(j, k)')
    BY <1>3 DEF After
  <1> QED BY <1>1, <1>2, <1>4, <1>5 DEF Between

\* Steps after which no other inserts have taken effect than before.
LEMMA NoneTook ==
    ASSUME InsertedOnce, Remembers,
           \A i \in DOMAIN calls' : Took(i)'
               => i \in DOMAIN calls /\ Took(i) /\ calls'[i].order = calls[i].order
    PROVE  InsertedOnce'
  <1> SUFFICES ASSUME NEW i \in DOMAIN calls', NEW k \in DOMAIN calls',
                      i # k, Took(i)', Took(k)', SameKey(i, k)'
               PROVE  Between(i, k)'
    BY DEF InsertedOnce, Took, SameKey, Between
  <1>1. /\ i \in DOMAIN calls /\ Took(i) /\ calls'[i].order = calls[i].order
        /\ k \in DOMAIN calls /\ Took(k) /\ calls'[k].order = calls[k].order
    OBVIOUS
  <1>2. SameKey(i, k)
    BY <1>1 DEF SameKey, Remembers
  <1>3. Between(i, k)
    BY <1>1, <1>2 DEF InsertedOnce, Took, SameKey, Between
  <1> QED BY <1>1, <1>3, BetweenStays

LEMMA QuietOnce ==
    ASSUME InsertedOnce, Quiet
    PROVE  InsertedOnce'
  <1>1. \A i \in DOMAIN calls' : Took(i)'
            => i \in DOMAIN calls /\ Took(i) /\ calls'[i].order = calls[i].order
    BY DEF Quiet, Remembers, Took
  <1> QED BY <1>1, NoneTook DEF Quiet

\* The primary key lets an insert in only where no row has its key: what an
\* earlier insert had put there has been removed.
LEMMA InsertOnce ==
    ASSUME Inv, Told, InsertedOnce, NEW d \in DOMAIN calls,
           calls[d].server = "running", KeyFree(calls[d].table, calls[d].row), Commit(d)
    PROVE  InsertedOnce'
  <1>1. /\ Remembers /\ DOMAIN calls' = DOMAIN calls
        /\ calls'[d].order = Executed + 1 /\ Executed \in Nat
        /\ \A j \in DOMAIN calls \ {d} : calls'[j] = calls[j]
    BY CommitCalls DEF Inv, Told
  <1>2. ASSUME NEW i \in DOMAIN calls \ {d}, Took(i)', SameKey(i, d)'
        PROVE  \E j \in DOMAIN calls : Removes(j, i)' /\ After(j, d)'
    <2>1. Took(i) /\ SameKey(i, d)
      BY <1>1, <1>2 DEF Took, SameKey, Remembers
    <2>2. ~KeptAsSent(i)
      BY <2>1 DEF SameKey, KeyFree, KeptAsSent, Get
    <2>3. PICK j \in DOMAIN calls : Removes(j, i)
      BY <2>1, <2>2 DEF Told, InsertsKept, Took
    <2>4. calls[j].order \in 0 .. Executed /\ calls[i].order \in Nat
      BY <1>1 DEF Told, CallInv, Remembers
    <2>5. calls[j].order > calls[i].order
      BY <2>3 DEF Removes, DeletesAfter, DeletesOwner, After
    <2>6. calls[d].order = 0
      BY DEF Told, CallInv
    <2>7. j # d
      BY <2>4, <2>5, <2>6
    <2>8. After(j, d)'
      BY <1>1, <2>4, <2>7 DEF After
    <2>9. Removes(j, i)'
      BY <1>1, <2>3, ExcusesStay
    <2> QED BY <2>8, <2>9
  <1> SUFFICES ASSUME NEW i \in DOMAIN calls, NEW k \in DOMAIN calls,
                      i # k, Took(i)', Took(k)', SameKey(i, k)'
               PROVE  Between(i, k)'
    BY <1>1 DEF InsertedOnce, Took, SameKey, Between
  <1>3. CASE k = d
    BY <1>1, <1>2, <1>3 DEF Between
  <1>4. CASE i = d
    <2>1. SameKey(k, d)'
      BY <1>4 DEF SameKey
    <2> QED BY <1>1, <1>2, <1>4, <2>1 DEF Between
  <1>5. CASE i # d /\ k # d
    <2>1. /\ calls'[i] = calls[i] /\ calls'[k] = calls[k]
          /\ Took(i) /\ Took(k) /\ SameKey(i, k)
      BY <1>1, <1>5 DEF Took, SameKey
    <2>2. Between(i, k)
      BY <2>1 DEF InsertedOnce, Took, SameKey, Between
    <2> QED BY <1>1, <2>1, <2>2, BetweenStays
  <1> QED BY <1>3, <1>4, <1>5

LEMMA NextOnce ==
    ASSUME Inv, Told, InsertedOnce, [Next]_vars
    PROVE  InsertedOnce'
  <1>1. ASSUME NEW d \in DOMAIN calls, Insert(d), Commit(d)
        PROVE  InsertedOnce'
    <2>1. calls[d].server = "running"
      BY <1>1 DEF Insert
    <2>2. calls'[d].server = "committed"
      BY <1>1, <2>1, CommitCalls DEF Inv, Told
    <2>3. ~Fail(d)
      <3> SUFFICES ASSUME Fail(d) PROVE FALSE
        OBVIOUS
      <3>1. calls \in Seq(Call) /\ calls[d] \in Call
        BY DEF Inv, TypeOK
      <3>2. calls'[d].server = "failed"
        BY <3>1 DEF Fail, Call
      <3> QED BY <2>2, <3>2
    <2>4. KeyFree(calls[d].table, calls[d].row)
      BY <1>1, <2>3 DEF Insert, Accepts
    <2> QED BY <1>1, <2>1, <2>4, InsertOnce
  <1>2. ASSUME NEW d \in DOMAIN calls, UpsertWarmMedian(d) \/ Delete(d), Commit(d)
        PROVE  InsertedOnce'
    <2>1. /\ Remembers /\ DOMAIN calls' = DOMAIN calls
          /\ \A j \in DOMAIN calls \ {d} : calls'[j] = calls[j]
          /\ calls[d].op # "insert" /\ calls'[d].op # "insert"
      BY <1>2, CommitCalls DEF UpsertWarmMedian, Delete, Inv, Told, Remembers
    <2>2. \A i \in DOMAIN calls' : Took(i)'
              => i \in DOMAIN calls /\ Took(i) /\ calls'[i].order = calls[i].order
      BY <2>1 DEF Took
    <2> QED BY <2>1, <2>2, NoneTook
  <1>3. CASE ~\E d \in DOMAIN calls :
                (Insert(d) \/ UpsertWarmMedian(d) \/ Delete(d)) /\ Commit(d)
    <2>1. Quiet
      BY <1>3, QuietSteps
    <2> QED BY <2>1, QuietOnce
  <1> QED BY <1>1, <1>2, <1>3

-----------------------------------------------------------------------------
(* The theorems.                                                            *)

\* The conjunction of the three invariants holds in every reachable state.
THEOREM InvHolds == Spec => []Inv
  BY InitInv, NextInv, PTL DEF Spec

\* So does what is known of the calls.
LEMMA ToldHolds == Spec => [](Inv /\ Told)
  BY InitInv, NextInv, InitTold, NextTold, PTL DEF Spec

\* Rows and calls keep their columns and no key is stored twice at the
\* precision of the database, whatever the rows, statements, replies lost and
\* retries (store.go, the PRIMARY KEYs of 000001_init.up.sql).
THEOREM StorageTyped == Spec => []TypeOK
  <1>1. Inv => TypeOK
    BY DEF Inv
  <1> QED BY InvHolds, <1>1, PTL

\* No row ever refers to one that is not there: two levels of cascades and SET
\* NULL close every database a DELETE may leave (REFERENCES of
\* 000001_init.up.sql).
THEOREM ReferencesKept == Spec => []NoDangling
  <1>1. Inv => NoDangling
    BY DEF Inv
  <1> QED BY InvHolds, <1>1, PTL

\* At most one active endpoint of a project has a name, through inserts, soft
\* deletes and reuse of names (endpoints_project_active_name_uniq).
THEOREM ActiveNamesStayUnique == Spec => []ActiveNameUnique
  <1>1. Inv => ActiveNameUnique
    BY DEF Inv
  <1> QED BY InvHolds, <1>1, PTL

\* An insert that returned nil stays with the columns of its statement, at the
\* precision of the database, through retries, lost replies and the cascades of
\* other rows, until the row, its parent or its parent's project is deleted (the
\* Insert and Get methods of store.go).
THEOREM InsertsStayForever == Spec => []AckedStays
  <1>1. Inv /\ Told => AckedStays
    BY DEF Told, CallInv, InsertsKept, AckedStays
  <1> QED BY ToldHolds, <1>1, PTL

\* A stored median is never a mixture: it is the one of the upsert that
\* committed last (UpsertWarmMedian of store.go).
THEOREM MediansAreWhole == Spec => []LastUpsertWhole
  <1>1. Inv /\ Told => LastUpsertWhole
    BY DEF Told
  <1> QED BY ToldHolds, <1>1, PTL

\* A retry takes effect at most once: the second of two inserts of one key is
\* refused unless what the first had inserted was removed in between (the Insert
\* methods of store.go, called again after a lost reply).
THEOREM RetriesInsertOnce == Spec => []InsertedOnce
  <1>1. Init => InsertedOnce
    BY DEF Init, InsertedOnce
  <1>2. Inv /\ Told /\ InsertedOnce /\ [Next]_vars => InsertedOnce'
    BY NextOnce
  <1> QED BY ToldHolds, <1>1, <1>2, PTL DEF Spec
=============================================================================
