SPECIFICATION FairSpec
CONSTANTS
    Procs = {p1}
    BuildUnit = unit
    Keep = 1
    MaxCommands = 3
    MaxFaults = 2
CHECK_DEADLOCK FALSE
INVARIANTS
    DisksInOrder
    DiskOfBeforeIsKept
    RollbackIsReversible
    GuestRunsNewDisk
PROPERTIES
    StartsSettle
    FailureIsUndone
