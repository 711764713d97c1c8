SPECIFICATION FairSpec
CONSTANTS
    MaxReports = 3
    MaxFaults = 1
    MaxSuspends = 1
INVARIANTS StreamHasLink LowIsDown QuietTold
PROPERTIES SourceEnds UnpluggedTold
CHECK_DEADLOCK FALSE
