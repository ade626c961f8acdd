SPECIFICATION Spec
CONSTANTS
    Inputs <- MCInputs
    Dim = 5
    Accuracy <- MCAccuracy
INVARIANTS
    ColumnsAgree
    UnitsAreRight
    MeansAreOne
