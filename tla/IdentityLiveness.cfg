SPECIFICATION FairSpec
CONSTANTS
    Workloads = {a, b}
    Vms = {b}
    Procs = {p1, p2}
    Deployments = {d1}
    FirstDeployment = d1
    NoDeployment = NoDeployment
    NoProc = NoProc
    NoWorkload = NoWorkload
    UidMin = 2
    UidMax = 3
    Exclusive = FALSE
    HandEdits = FALSE
    MaxCommands = 2
    MaxBoots = 0
    MaxFaults = 1
CHECK_DEADLOCK FALSE
PROPERTIES
    CommandsFinish
