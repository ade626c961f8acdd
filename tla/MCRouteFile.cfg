SPECIFICATION Spec
CONSTANTS
    MaxDigits = 2
    Requests <- MCRequests
    Files <- MCFiles
INVARIANTS
    DemandIsServable
    AllOrEnough
