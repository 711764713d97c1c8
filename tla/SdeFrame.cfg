CONSTANTS
    EventSize = 6
    Configs <- MCConfigs
    MaxFaults = 1
SPECIFICATION Spec
CHECK_DEADLOCK FALSE
INVARIANTS
    PendingExact
    PoolSuffices
    DoneIsDone
    OffIsQuiet
