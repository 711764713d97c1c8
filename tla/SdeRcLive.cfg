SPECIFICATION FairSpec
CONSTANTS
    Modes <- Both
    DsiThread = {}
    Status = FALSE
    Wake = TRUE
    Dms = TRUE
    ModesetFails = TRUE
    ClkFails = FALSE
    Primary = TRUE
    MaxFrames = 3
    MaxVotes = 2
INVARIANTS QuietIdle OffHoldsNothing
PROPERTIES PowersDown
