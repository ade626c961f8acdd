SPECIFICATION Spec
CONSTANTS
    Inputs <- MCInputs
    MaxDigits = 2
INVARIANTS
    WrittenIsReadable
    RoundTrip
