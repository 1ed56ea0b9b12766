SPECIFICATION AttributionSpec
CONSTANTS
    None = None
    Clients = {c1, c2}
    Tenants = {t1, t2}
    Visitors = {v1}
    Sessions = {s1, s2}
    Sources = {"ad"}
    Batches <- MCBatches
    Window = 2
    MaxTime = 2
    MaxRequests = 3
SYMMETRY Symmetry
INVARIANTS
    OneViewPerWindow
    FirstAttributionSticks
    ErrorsAreOfSharedIds
