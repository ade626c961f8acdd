SPECIFICATION Spec
CONSTANT
    Files <- MCFiles
INVARIANTS
    TypeOK
    LeavingIsComplete
    LevelsDescend
    NothingLost
    ShortcutsKeepTheirHalves
    IdsResolve
    FailsForAReason
