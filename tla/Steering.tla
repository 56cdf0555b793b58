------------------------------ MODULE Steering -------------------------------
(***************************************************************************)
(* Steering the player: main.cpp from the clock to readInput, with the     *)
(* script manager, and the KEYBOARD_INPUT branch of the player's handler.  *)
(* Game leaves out where the player is and what the scripts set; here the  *)
(* x coordinate of the player is kept, and nothing else on the board.      *)
(*                                                                         *)
(* Lengths are in some unit, velocities in units per tick and times in     *)
(* ticks, so that all are integers; NaN is the double that is no number.   *)
(***************************************************************************)
EXTENDS Scripts, FiniteSets

CONSTANTS
  RightEdge,               \* 800 - 60 in the code
  StartX,                  \* 40
  MinVelocity, MaxVelocity, DefaultVelocity,
  FrameLimit,              \* THRITY_FPS_FRAME_TIME, the longest frame that counts
  Slowest,                 \* bound: the longest frame there is
  NaN

ASSUME SteeringAssumption ==
  /\ RightEdge \in Nat /\ StartX \in 0..RightEdge
  /\ MinVelocity \in Nat /\ MaxVelocity \in Nat /\ MinVelocity <= MaxVelocity
  /\ DefaultVelocity \in MinVelocity..MaxVelocity
  /\ FrameLimit \in Nat /\ Slowest \in Nat
  /\ NaN \notin Int

\* The values a script may ask for, and what a call of a function may do.
Velocities == Int \cup {NaN}
Behaviours ==
  [velocity : Velocities \cup {Keep}, shield : BOOLEAN \cup {Keep}, throws : BOOLEAN]

ASSUME FilesAssumption ==
  \A script \in Files : \A name \in DOMAIN script : script[name] \in Behaviours

VARIABLES
  phase,             \* the statement of the loop that comes next
  deltaT,
  playerVelocity,
  invincible,        \* Player::invincible
  pending,           \* the KEYBOARD_INPUT events: -1 for left, 1 for right
  x,                 \* the left edge of the player
  from               \* where the player was when the frame began

motionVars == <<deltaT, pending, x, from>>
settings == <<playerVelocity, invincible>>
vars == <<scriptVars, settings, motionVars, phase>>

Init ==
  /\ ScriptInit
  /\ phase = "clock"
  /\ deltaT = 0
  /\ playerVelocity = DefaultVelocity
  /\ invincible = FALSE
  /\ pending = {}
  /\ x = StartX
  /\ from = StartX

Go(here, there) == phase = here /\ phase' = there

\* Mutant: a clock that went back counts.
BackwardsCounts(time) == IF time > FrameLimit THEN 0 ELSE time

\* A frame that took too long, or a clock that went back, does not count.
Counted(time) == IF time > FrameLimit \/ time < 0 THEN 0 ELSE time

ReadClock ==
  /\ Go("clock", "load")
  /\ \E time \in -1..Slowest : deltaT' = Counted(time)
  /\ UNCHANGED <<scriptVars, settings, pending, x, from>>

\* changePlayerVelocity, which scripts know as setPlayerVelocity.  No
\* comparison with a NaN is true.
Limited(v) ==
  CASE v # NaN /\ v < MinVelocity -> MinVelocity
    [] v # NaN /\ v > MaxVelocity -> MaxVelocity
    [] OTHER -> v

\* What the code of a script sets.  What it set before it threw stays.
Sets(b) ==
  /\ playerVelocity' = IF b.velocity = Keep THEN playerVelocity
                                            ELSE Limited(b.velocity)
  /\ invincible' = IF b.shield = Keep THEN invincible ELSE b.shield

Effect(name) == Sets(Behaviour(name))

\* The code outside of the functions of the file takes effect at once.
LoadScript ==
  /\ Go("load", "behavior")
  /\ Load
  /\ Sets(OutsideFunctions(file))
  /\ UNCHANGED motionVars

\* A script that does not evaluate is exit(1).
ScriptFails ==
  /\ Go("load", "exited")
  /\ file = Broken
  /\ UNCHANGED <<scriptVars, settings, motionVars>>

RunPlayerBehavior ==
  /\ Go("behavior", "shield")
  /\ Run("playerBehavior", "velocityChange", 0)
  /\ Effect("playerBehavior")
  /\ UNCHANGED motionVars

RunSetInvincible ==
  /\ Go("shield", "input")
  /\ Run("setInvincible", "invincible", 1)
  /\ Effect("setInvincible")
  /\ UNCHANGED motionVars

\* readInput: left, right, both or none of the movement keys are down, none
\* when the window has no focus.  Each raises an event with the velocity of
\* the script and the length of the frame, which stay as they are until the
\* event is handled.
ReadInput ==
  /\ Go("input", "drain")
  /\ pending' \in SUBSET {-1, 1}
  /\ UNCHANGED <<scriptVars, settings, deltaT, x, from>>

\* GameObject::move
Moved(direction) ==
  IF x = NaN \/ playerVelocity = NaN THEN NaN
  ELSE x + direction * (playerVelocity * deltaT)

\* Mutant: a player that leaves at the left is put back at the right.
WrapAround(position) ==
  CASE position # NaN /\ position < 0 -> RightEdge
    [] position # NaN /\ position > RightEdge -> 0
    [] OTHER -> position

\* The player does not leave the window.
PutBack(position) ==
  CASE position # NaN /\ position < 0 -> 0
    [] position # NaN /\ position > RightEdge -> RightEdge
    [] OTHER -> position

\* PlayerHandler, KEYBOARD_INPUT.  The two events have the same timestamp and
\* may come off the queue in either order.
HandleKey(direction) ==
  /\ phase = "drain"
  /\ direction \in pending
  /\ x' = PutBack(Moved(direction))
  /\ pending' = pending \ {direction}
  /\ UNCHANGED <<scriptVars, settings, deltaT, from, phase>>

\* The rest of the frame does not move the player.
EndFrame ==
  /\ Go("drain", "clock")
  /\ pending = {}
  /\ from' = x
  /\ UNCHANGED <<scriptVars, settings, deltaT, pending, x>>

Edit ==
  /\ phase # "exited"
  /\ EditFile
  /\ UNCHANGED <<settings, motionVars, phase>>

\* The process has ended.
Ended == phase = "exited" /\ UNCHANGED vars

Next ==
  \/ ReadClock \/ LoadScript \/ ScriptFails
  \/ RunPlayerBehavior \/ RunSetInvincible
  \/ ReadInput \/ (\E direction \in {-1, 1} : HandleKey(direction)) \/ EndFrame
  \/ Edit \/ Ended

Spec == Init /\ [][Next]_vars

-----------------------------------------------------------------------------
Phases == {"clock", "load", "behavior", "shield", "input", "drain", "exited"}

\* Every variable has its type.
TypeOK ==
  /\ file \in Files \cup {Broken} /\ loaded \in Files \cup {Missing}
  /\ \A name \in DOMAIN globals : globals[name] \in Behaviours
  /\ scriptLoaded \in BOOLEAN
  /\ phase \in Phases
  /\ deltaT \in 0..FrameLimit
  /\ playerVelocity \in Velocities /\ x \in Velocities /\ from \in Velocities
  /\ invincible \in BOOLEAN
  /\ pending \subseteq {-1, 1}

\* Whatever scripts do or fail to do, the stack of the interpreter neither
\* grows nor shrinks from frame to frame: loadScript pops the global object
\* that it has pushed itself, and runScript looks its functions up there.
StackBalanced == stack = IF scriptLoaded THEN <<"global">> ELSE <<>>

\* After the frame's scripts have run, the velocity and the shield are what the
\* file says that was loaded in this frame, even if an earlier file said
\* something else, one of its functions threw, or the file was edited since.
FollowsScript ==
  LET Says(name) == phase = "input" /\ name \in DOMAIN loaded
  IN  /\ Says("playerBehavior") /\ loaded["playerBehavior"].velocity # Keep
           => playerVelocity = Limited(loaded["playerBehavior"].velocity)
      /\ Says("setInvincible") /\ loaded["setInvincible"].shield # Keep
           => invincible = loaded["setInvincible"].shield

\* EventHandler.cpp:119: "don't let the player go out of bounds", and no further
\* in a frame than the velocity allows for the time that counts: neither two
\* keys at once, in either order, nor being put back at an edge moves the player
\* out of the window or further than one key does.
InReach ==
  /\ x \in 0..RightEdge
  /\ x - from <= playerVelocity * deltaT
  /\ from - x <= playerVelocity * deltaT

StaysInReach == phase = "drain" => InReach

-----------------------------------------------------------------------------
\* ScriptManager.cpp:48, "to get rid of the previous script contents": only
\* functions of the script that is loaded can be called.
OnlyThisScript == DOMAIN globals \subseteq DOMAIN loaded

\* script.js:3-5: the velocity is "any value between 20 and 1000"; beyond that
\* range it is "set to the closest limit", whatever scripts ask for.
VelocityWithinLimits == playerVelocity \in MinVelocity..MaxVelocity
=============================================================================
