SPECIFICATION Spec
CONSTANTS
    c1 = c1
    c2 = c2
    Containers <- MCContainers
    Tomls <- MCSeparate
    Keep = 1
    MaxCommands = 2
    MaxFaults = 0
CHECK_DEADLOCK FALSE
PROPERTIES RollbackRunsSaved
