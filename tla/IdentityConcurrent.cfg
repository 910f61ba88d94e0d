SPECIFICATION Spec
CONSTANTS
    Workloads = {a, b}
    Vms = {}
    Procs = {p1, p2}
    Deployments = {d1}
    FirstDeployment = d1
    NoDeployment = NoDeployment
    NoProc = NoProc
    NoWorkload = NoWorkload
    UidMin = 2
    UidMax = 3
    Exclusive = TRUE
    HandEdits = TRUE
    MaxCommands = 4
    MaxBoots = 0
    MaxFaults = 1
SYMMETRY Symmetry
CHECK_DEADLOCK FALSE
INVARIANTS
    OwnData
    SubidRangesDisjoint
    IInv
