SPECIFICATION FairSpec
CONSTANTS
  f1 = f1
  f2 = f2
  Fence <- MCFence
  ExtraOffset = 0
  HalfRange = 5
  MaxAhead = 2
  MaxCommit = 3

CHECK_DEADLOCK FALSE
INVARIANTS NoEarlySignal NoLostFence References
PROPERTIES ResetReleasesAll TimelineSpec DueReleased
