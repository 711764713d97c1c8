\* One failure of any kind.  The display may stay off for ever.
CONSTANTS
    Client <- MCClient
    Configs <- MCConfigs
    Fault <- FaultKinds
    MaxFaults = 1
SPECIFICATION Spec
CHECK_DEADLOCK FALSE
INVARIANTS
    LinkOnCore
    LinkOnReady
    VotesMatch
    InFlight
    HostGoesOff
PROPERTIES
    KeepsProtocol
    DisableEnds
