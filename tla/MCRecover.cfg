SPECIFICATION Spec
CONSTANTS
    t1 = t1
    t2 = t2
    e1 = e1
    e2 = e2
    Threads = {t1, t2}
    Primordial = t1
    Errors = {e1, e2}
    None = None
    Plans <- ThePlans
INVARIANTS
    CatchesMatch
    RecoverRestores
    ScopesNest
    ScopesCounted
CHECK_DEADLOCK FALSE
