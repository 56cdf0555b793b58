SPECIFICATION Spec
CONSTANTS
  Dangling = Dangling
  NUM_ROWS = 2
  NUM_COLS = 1
  MaxShots = 2
  MaxKeys = 1
  GarbageStamps <- AnyStamp
  NextTimes <- EarlierToo
INVARIANTS
  IndInv
  MatchInv
  TypeOK
  EveryShotLands
  WinnerHasFullScore
  AddresseeLive
  HandlersMatchBoard
  ScoreAccounts
  VisibleWhenDrawn
  ShieldHolds
  CountersAgree
  ReqLockstep
PROPERTIES
  ImplementsMatch
