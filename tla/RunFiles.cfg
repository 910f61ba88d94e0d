CONSTANTS
    Names <- MCNames
    Configs <- MCConfigs
    Actors = {A, B}
    MaxEvents = 3
SYMMETRY Symmetry
SPECIFICATION Spec
CHECK_DEADLOCK FALSE
INVARIANTS
    RunTreeIsSound
PROPERTIES
    RemovalStrandsNothing
    DriftAllClear
    
