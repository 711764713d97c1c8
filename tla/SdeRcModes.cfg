SPECIFICATION Spec
CONSTANTS
    Modes <- Both
    DsiThread = {d1}
    Status = TRUE
    Wake = TRUE
    Dms = FALSE
    ModesetFails = FALSE
    ClkFails = TRUE
    Primary = FALSE
    MaxFrames = 3
    MaxVotes = 2
INVARIANTS VotesMatchState OffWorkSafe
CHECK_DEADLOCK FALSE
