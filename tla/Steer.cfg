SPECIFICATION Spec
CONSTANTS
  Files <- EveryKind
  Broken = Broken
  Keep = Keep
  NaN = NaN
  RightEdge = 740
  StartX = 40
  MinVelocity = 1
  MaxVelocity = 50
  DefaultVelocity = 12
  FrameLimit = 1
  Slowest = 2
INVARIANTS
  TypeOK
  StackBalanced
  FollowsScript
  StaysInReach
