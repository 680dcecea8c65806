CONSTANTS
    r1 = r1
    Requests = {r1}
    Routes <- MCRoutes
    Codes <- MCCodes
    Keys <- MCKeys
    NameOf <- MCNameOf
    Protected <- MCProtected
    Attrs <- MCAttrs
    Calls <- MCCalls
    MaxRequestAttrs = 2
    MaxCalls = 4
SPECIFICATION Spec
INVARIANTS
    TypeOK
    LineClean
    FirstComeFirstLogged
    FailureLogged
