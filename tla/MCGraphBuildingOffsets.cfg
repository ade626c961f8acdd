SPECIFICATION Spec
CONSTANT
    Files <- MCStreets
INVARIANT
    EveryNodeHasOffsets
