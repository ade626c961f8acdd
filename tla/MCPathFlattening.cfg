SPECIFICATION Spec
CONSTANT
    Inputs <- MCInputs
INVARIANTS
    TypeOK
    NothingLostOrSwapped
    CostsAgree
    FailsOnlyOnCycles
PROPERTY
    Ends
