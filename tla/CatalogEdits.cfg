SPECIFICATION CatalogSpec
CONSTANTS
    p1 = p1
    p2 = p2
    v1 = v1
    v2 = v2
    k = k
    n1 = n1
    g = g
    Products = {p1, p2}
    Variants = {v1, v2}
    Orders = {o1, o2}
    Tracked = {p1}
    Codes = {k}
    Names = {n1, n2}
    Categories = {g}
    Clients = {c1, c2}
    MaxRequests = 4
    None = None
    FirstProducts <- MCProducts
    FirstVariants <- MCVariants
    FirstCategories = {g}
INVARIANTS
    LedgerKeepsItsItems
    CodesAreSharedOnlyInARace
    RecordedSalesCanBeCancelled
PROPERTIES
    ConflictsAreReal
SYMMETRY Symmetry
