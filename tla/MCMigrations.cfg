CONSTANTS
    r1 = r1
    r2 = r2
    s1 = s1
    s2 = s2
    other = other
    Runners = {r1, r2}
    NoRunner = NoRunner
    Seeds <- MCSeeds
    Prices <- MCPrices
    MaxCalls = 5
SYMMETRY MCSymmetry
SPECIFICATION Spec
INVARIANTS
    TypeOK
    CleanMeansWhole
    DirtyMeansBetween
PROPERTIES
    NilMeansReached
    ErrorMeansDirty
