SPECIFICATION FairSpec
CONSTANTS
  Dangling = Dangling
  NUM_ROWS = 1
  NUM_COLS = 2
  MaxShots = 2
  MaxKeys = 0
  GarbageStamps <- LateStamp
  NextTimes <- LaterOnly
INVARIANTS
  WonBeforeLostLife
  WonInv
PROPERTIES
  FrameCompletes
  PointsArrive
