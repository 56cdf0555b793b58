SPECIFICATION FairSpec
CONSTANTS
  Direction <- Up
  Height = 300
  BoundTop = 0
  BoundHeight = 10
  Starts <- AbovePlayer
  FrameLimit = 333
  FrameTimes <- Frames
INVARIANTS
  FlightInv
PROPERTIES
  OnlyJumpsEscape
  FreedOrLost
