SPECIFICATION FairSpec
CONSTANTS
    Thread = {t1, t2}
    Crtc <- Crtcs
    Plane <- Planes
    Index <- Indices
    Commit = {c1, c2}
    Request <- Requests
INVARIANTS PendingExact CommitAlive
PROPERTIES OrderSpec CommitsEnd IoctlReturns
