SPECIFICATION Spec
CONSTANTS
    Streets <- MCStreets
    Halves <- MCHalves
    Custom <- MCCustom
    Loads <- MCLoads
    Configs <- MCConfigs
    MaxEdits = 1
    Accuracy <- MCAccuracy
INVARIANTS
    AveragesTheLoads
    SearchesOnConsistentShortcuts
    EvaluatesWhatItPublishes
    UpdatedGraphIsReadable
