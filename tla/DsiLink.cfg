\* One failure of an LP link clock.  The display may stay off for ever.
CONSTANTS
    Client <- MCClient
    Configs <- MCConfigs
    Fault = {"lp"}
    MaxFaults = 1
SPECIFICATION Spec
CHECK_DEADLOCK FALSE
INVARIANTS
    CoreUnderLink
