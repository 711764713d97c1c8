CONSTANTS
    EventSize = 6
    Configs <- MCLiveConfigs
    MaxFaults = 1
SPECIFICATION Spec
CHECK_DEADLOCK FALSE
PROPERTIES
    CommitEnds
    RetireSignalled
