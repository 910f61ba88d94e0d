SPECIFICATION Spec
CONSTANTS
    c1 = c1
    c2 = c2
    Containers <- MCContainers
    Tomls <- MCTomls
    Keep = 1
    MaxCommands = 2
    MaxFaults = 1
CHECK_DEADLOCK FALSE
INVARIANTS
    ImagesInOrder
    GoodImageKept
PROPERTIES
    RollbackRestores
    RemovedLayerIsSaved
    VerifiedIsHealthy
