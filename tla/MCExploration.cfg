SPECIFICATION Spec
CONSTANTS
    Queries <- MCQueries
    Accuracy <- MCAccuracy
INVARIANTS
    ToleratedCornersAreFound
    CellsYieldOnePathEach
