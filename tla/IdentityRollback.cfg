SPECIFICATION Spec
CONSTANTS
    Workloads = {a, b}
    Vms = {}
    Procs = {p1}
    Deployments = {d1, d2}
    FirstDeployment = d1
    NoDeployment = NoDeployment
    NoProc = NoProc
    NoWorkload = NoWorkload
    UidMin = 2
    UidMax = 3
    Exclusive = TRUE
    HandEdits = FALSE
    MaxCommands = 3
    MaxBoots = 2
    MaxFaults = 0
SYMMETRY Symmetry
CHECK_DEADLOCK FALSE
INVARIANTS
    UniqueUids
    OwnData
PROPERTIES
    OtherDeploymentsStateIsSpared
