------------------------------- MODULE Flight -------------------------------
(***************************************************************************)
(* The flight of one bullet towards the bound that is to destroy it, frame *)
(* by frame: the geometry that Game leaves out.  A bullet moves once per   *)
(* frame, by the length of the frame times its velocity, and is tested     *)
(* against the bound once per frame, where it then stands.                 *)
(*                                                                         *)
(* Lengths are tenths of a pixel, and times are the time a bullet takes    *)
(* for one of them (1/5000 s, BULLET_VELOCITY being 500 pixels a second),  *)
(* so a bullet moves by deltaT, and the limit of 0.0666 s is 333 exactly.  *)
(***************************************************************************)
EXTENDS Integers

CONSTANTS
  Direction,      \* -1 for a player's bullet (up), 1 for an enemy's (down)
  Height,         \* of a bullet
  BoundTop, BoundHeight,
  Starts,         \* the heights a bullet may be fired at
  FrameLimit,     \* THRITY_FPS_FRAME_TIME, the longest frame that counts
  FrameTimes      \* bound: the differences of two clock readings there are

VARIABLES
  phase,          \* the part of the frame that comes next
  bullet,         \* "none" (slot NULL), "flying" or "dead"
  y,              \* the upper edge of the bullet
  fired,          \* a SHOOT event for the free slot is pending
  hit,            \* a collision event of the bullet is pending
  deltaT

vars == <<phase, bullet, y, fired, hit, deltaT>>

\* Mutant: a rectangle only touches another one that contains it.
Within(top) == top >= BoundTop /\ top + Height <= BoundTop + BoundHeight

\* FloatRect::intersects: rectangles that only share an edge do not touch.
Touches(top) == top < BoundTop + BoundHeight /\ top + Height > BoundTop

\* The bullet is behind the bound, where nothing can destroy it any more.
Past(top) ==
  IF Direction = -1 THEN top + Height <= BoundTop ELSE top >= BoundTop + BoundHeight

ASSUME FlightAssumption ==
  /\ Direction \in {-1, 1}
  /\ Height \in Nat \ {0} /\ BoundTop \in Int /\ BoundHeight \in Nat \ {0}
  /\ Starts \subseteq Int /\ Starts # {} /\ \A s \in Starts : ~Past(s)
  /\ FrameLimit \in Nat /\ FrameTimes \subseteq Int

Init ==
  /\ phase = "input"
  /\ bullet = "none"
  /\ y \in Starts
  /\ fired = FALSE
  /\ hit = FALSE
  /\ deltaT = 0

\* Mutant: a clock that went back counts.
BackwardsCounts(time) == IF time > FrameLimit THEN 0 ELSE time

\* A frame that took too long, or a clock that went back, does not count.
Clamped(time) == IF time > FrameLimit \/ time < 0 THEN 0 ELSE time

\* The length of the last frame, and a shot if the slot is free.
BeginFrame ==
  /\ phase = "input"
  /\ \E time \in FrameTimes : deltaT' = Clamped(time)
  /\ fired' \in (IF bullet = "none" THEN BOOLEAN ELSE {FALSE})
  /\ phase' = "collide"
  /\ UNCHANGED <<bullet, y, hit>>

\* checkCollisions: a bullet that touches the bound is hit, and one that is still
\* on the board may be hit by something else.
Collide ==
  /\ phase = "collide"
  /\ hit' \in BOOLEAN
  /\ hit' => bullet = "flying" /\ ~Past(y)
  /\ bullet = "flying" /\ Touches(y) => hit'
  /\ phase' = "drain"
  /\ UNCHANGED <<bullet, y, fired, deltaT>>

\* A bullet behind the bound is not followed any further.
Moved == IF Past(y) THEN y ELSE y + Direction * deltaT

\* handleEvents: MOVE for the bullet that was there, then its collision; or
\* the shot, whose bullet moves from the next frame on.
Drain ==
  /\ phase = "drain"
  /\ IF fired
     THEN /\ bullet' = "flying"
          /\ y' \in Starts
     ELSE /\ bullet' = IF hit THEN "dead" ELSE bullet
          /\ y' = IF bullet = "flying" THEN Moved ELSE y
  /\ fired' = FALSE
  /\ hit' = FALSE
  /\ phase' = "cleanUp"
  /\ UNCHANGED deltaT

\* Mutant: the slot of a bullet that has been cleaned up is not set to NULL.
KeepsSlot ==
  /\ phase = "cleanUp"
  /\ phase' = "input"
  /\ UNCHANGED <<bullet, y, fired, hit, deltaT>>

\* cleanUpObjects
CleanUp ==
  /\ phase = "cleanUp"
  /\ bullet' = IF bullet = "dead" THEN "none" ELSE bullet
  /\ phase' = "input"
  /\ UNCHANGED <<y, fired, hit, deltaT>>

Next == BeginFrame \/ Collide \/ Drain \/ CleanUp

Spec == Init /\ [][Next]_vars

\* The loop runs on, and again and again a frame is short enough to count.
ShortFrame == BeginFrame /\ deltaT' > 0
FairSpec == Spec /\ WF_vars(Next) /\ SF_vars(ShortFrame)

-----------------------------------------------------------------------------
\* Every variable has its type.
TypeOK ==
  /\ phase \in {"input", "collide", "drain", "cleanUp"}
  /\ bullet \in {"none", "flying", "dead"}
  /\ y \in Int
  /\ fired \in BOOLEAN /\ hit \in BOOLEAN
  /\ deltaT \in 0..FrameLimit

\* A bullet behind its bound, in a slot that nothing can free.
Escaped == bullet = "flying" /\ Past(y)

\* EventHandler.cpp:36: "there are bounds at the top of the map that destroy
\* the laser": no bullet ever gets behind its bound.
NeverEscapes == ~Escaped

\* The step in which a bullet gets behind its bound.
Escape == bullet = "flying" /\ ~Past(y) /\ Escaped'

\* A bullet gets behind its bound in one way only: by a single move at least as
\* long as bullet and bound together, from clear of the bound to clear of it.
\* However the frames vary, one that moves less is stopped in time: the test,
\* the event and the kill of a frame never let it slip by in shorter moves.
OnlyJumpsEscape ==
  [][Escape => deltaT >= Height + BoundHeight /\ ~Touches(y)]_vars

\* What becomes of a bullet: its slot is free again in the end, or it has
\* jumped over its bound and keeps the slot for ever, so that its owner never
\* fires again.  None hovers in front of the bound.
FreedOrLost == bullet = "flying" ~> (bullet = "none" \/ []Escaped)

\* What the phases of a frame hand on: a bullet that is about to move and has
\* not been hit does not touch the bound, nothing hits an escaped one, a shot is
\* only pending for a free slot, and a dead bullet waits for the clean-up alone.
FlightInv ==
  /\ TypeOK
  /\ phase = "drain" /\ bullet = "flying" /\ ~hit => ~Touches(y)
  /\ Escaped => ~hit
  /\ fired => bullet = "none"
  /\ bullet = "dead" => phase = "cleanUp"
=============================================================================
