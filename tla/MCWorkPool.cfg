SPECIFICATION Spec
CONSTANTS
    NumThreads = 3
    NumPairs = 6
    Found <- MCFound
    RouteCount <- MCRouteCount
    InitWorkSize = 0
    WorkSizePlus = 1
    WorkSizeMinus = 1
    MaxUsize = 4
INVARIANTS
    TypeOK
    ExactlyOnce
    OneTokenPerWorker
    MasterNeverFails
    WorkSizeInRange
    SoleOwner
    CompleteUnlessDied
PROPERTIES
    ImplementsWorkBag
    WorkOffReturns
