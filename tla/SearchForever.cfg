SPECIFICATION FairSpec
CONSTANTS
  Dangling = Dangling
  NUM_ROWS = 1
  NUM_COLS = 1
  MaxShots = 1
  MaxKeys = 0
  GarbageStamps <- AnyStamp
  NextTimes <- LaterOnly
PROPERTIES
  SearchFindsEnemy
