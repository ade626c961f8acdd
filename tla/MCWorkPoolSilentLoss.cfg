SPECIFICATION Spec
CONSTANTS
    NumThreads = 2
    NumPairs = 2
    Found <- MCFound
    RouteCount <- MCRouteCount
    InitWorkSize = 0
    WorkSizePlus = 1
    WorkSizeMinus = 1
    MaxUsize = 4
INVARIANT
    BreaksOnlyWhenAllDropped
