SPECIFICATION BootedSpec
CONSTANTS
    Procs = {p1}
    BuildUnit = unit
    Keep = 1
    MaxCommands = 1
    MaxFaults = 2
INVARIANT DiskIsNeverLost
CHECK_DEADLOCK FALSE
