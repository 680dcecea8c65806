CONSTANTS
    None = None
    p1 = p1
    p2 = p2
    v1 = v1
    v2 = v2
    e1 = e1
    e2 = e2
    e3 = e3
    q1 = q1
    s1 = s1
    a1 = a1
    priceA = priceA
    priceB = priceB
    tA = tA
    tB = tB
    Keys <- MCKeys
    StoredAs <- MCStoredAs
    Instants <- MCInstants
    Micros <- MCMicros
    Inserts <- MCInserts
    Medians <- MCMedians
    Deletes <- MCDeletes
    Existing <- MCExisting
    MaxSent = 3
SPECIFICATION Spec
INVARIANTS
    TypeOK
    NoDangling
    ActiveNameUnique
    AckedStays
    LastUpsertWhole
