SPECIFICATION Spec
CONSTANTS
    Configs <- MCConfigs
    Budgets <- MCBudgets
CHECK_DEADLOCK FALSE
INVARIANTS
    UnitsAreSound
PROPERTIES
    Implements
    ReadyBeforePayload
