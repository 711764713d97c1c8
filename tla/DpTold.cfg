SPECIFICATION Spec
CONSTANTS
    MaxReports = 3
    MaxFaults = 0
    MaxSuspends = 0
INVARIANT PortsTold
CHECK_DEADLOCK FALSE
