\* Two calls, each with one nested, one failure; two engines that know 2 and 3 files.
CONSTANTS
    a = a
    b = b
    c1 = c1
    c2 = c2
    d1 = d1
    d2 = d2
    n1 = n1
    n2 = n2
    None = None
    Invalid = Invalid
    Nobody = Nobody
    Names = {a, b}
    IdText <- MCIdText
    MaxRevision = 2
    Roots = {c1, c2}
    Nested <- MCNested
    Tenants = {"t1", "t2"}
    Nodes = {n1, n2}
    Latest <- MCLatest
    MigratingStores = 2
    Workloads <- MCWorkloads
    MaxTime = 1
    Year10000 = 100
    MaxFailures = 1
SPECIFICATION Spec
INVARIANTS
    
    TenantsAreIsolated
    OutcomesAreTrue
    
    SpawnsAreVerified
PROPERTIES
    
    CallsEnd
CHECK_DEADLOCK FALSE
