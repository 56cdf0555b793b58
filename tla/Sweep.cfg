SPECIFICATION FairSpec
CONSTANTS
  NUM_ROWS = 2
  NUM_COLS = 3
  ENEMY_WIDTH = 40
  LeftBound = 10
  RightBound = 290
  BoundWidth = 1
  Start = 30
  Reach <- FrameReach
  FarAway = 900000
  NaN = NaN
  PlayerPlaces <- Places
INVARIANTS
  NeverPastBounds
  AimsAtNearest
PROPERTIES
  DescendsOnce
  PatrolGoesOn
