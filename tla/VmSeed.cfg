SPECIFICATION FairSpec
CONSTANTS
    Configs <- MCConfigs
    MaxIds = 3
    MaxEvents = 4
CHECK_DEADLOCK FALSE
INVARIANTS
    MarkerIsTrue
    SeedServes
PROPERTIES
    OutcomeIsRecorded
    QuietLaunchKeepsInstance
