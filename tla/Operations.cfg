SPECIFICATION Spec
CONSTANTS
    aVm = aVm
    aCt = aCt
    VMs <- MCVMs
    Containers <- MCContainers
    Agents <- MCVMs
    Budgets <- MCBudgets
CHECK_DEADLOCK FALSE
INVARIANTS
    CapturesCleanUp
    DataIsSafe
PROPERTIES
    CapturesAreContained
    BackupGivesBack
    ClockIsKept
    CommandsEnd
