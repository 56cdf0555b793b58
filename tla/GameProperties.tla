--------------------------- MODULE GameProperties ---------------------------
(***************************************************************************)
(* What the client must do and must never do: the invariants, the liveness *)
(* properties with the fairness they need, the match it implements, and    *)
(* statements of the code's own comments that the runs refute.             *)
(***************************************************************************)
EXTENDS Game

GUIDs == {Player} \cup Enemies \cup Bullets

Stamps == {0} \cup {BaseTime} \cup NextTimes \cup GarbageStamps

EventSet ==
  [eventType : AddressedTypes \cup BroadcastTypes,
   associatedGUID : GUIDs \cup {Broadcast},
   timestamp : Stamps,
   intendedGUID : GUIDs \cup {NoTarget}]

\* Every variable has its type.
TypeOK ==
  /\ Pending \subseteq EventSet /\ \A e \in Pending : queue[e] \in Nat \ {0}
  /\ scrambled \in BOOLEAN
  /\ DOMAIN handlers \subseteq GUIDs
  /\ \A g \in DOMAIN handlers : handlers[g] \in Slots \cup {Dangling}
  /\ obj \in [Slots -> {"null", "alive", "dead"}]
  /\ guid \in [Slots -> GUIDs]
  /\ numEnemies \in Int /\ enemyBulletsSize \in Int /\ playerBulletsSize \in Int
  /\ socket \in {"idle", "sent", "answered"}
  /\ request \in Requests \cup {"none"}
  /\ reply \in LifeReplies \cup {"ok", "none"}
  /\ points \in Nat
  /\ visible \in BOOLEAN /\ invincible \in BOOLEAN
  /\ pc \in Control
  /\ outcome \in Outcomes
  /\ currentTime \in {BaseTime} \cup NextTimes

-----------------------------------------------------------------------------
\* The handler registered for g belongs to an object that is on the board.
Reaches(g) ==
  /\ g \in DOMAIN handlers
  /\ handlers[g] \in Slots
  /\ obj[handlers[g]] # "null"

\* No pending event is addressed to an object that has been deleted or was
\* never registered, nor carries the guid of one as its target: the main loop
\* calls handlers[guid] without a check, and it keeps stale pointers.
AddresseeLive ==
  \A e \in Pending :
    /\ e.eventType \in AddressedTypes => Reaches(e.associatedGUID)
    /\ e.eventType = "COLLISION_ENEMY" => Reaches(e.intendedGUID)

\* Every object on the board is reached by its own guid and by no other's: a
\* new bullet is registered under its guid before anything is sent to it.
HandlersMatchBoard ==
  \A s \in OnBoard(Slots) :
    guid[s] \in DOMAIN handlers /\ handlers[guid[s]] = s

\* A shot that was decided on in a frame finds its slot free when the drain
\* comes to it: no bullet is made only to be deleted, and no enemy or player
\* loses a shot to another one decided on in the same frame.
ShotSlot(type) ==
  CASE type = "SHOOT" -> PlayerBullet
    [] type = "SHOOT_LANE" -> LaneBullet
    [] type = "SHOOT_RANDOM" -> RandomBullet

EveryShotLands ==
  \A e \in Pending : e.eventType \in {"SHOOT", "SHOOT_LANE", "SHOOT_RANDOM"} =>
    /\ FreeForBullet(ShotSlot(e.eventType))
    /\ queue[e] = 1
    /\ PendingOf(e.eventType) = {e}

\* The copies of the events of one type that are pending, and their number.
CopySet(type) == UNION {{e} \X (1..queue[e]) : e \in PendingOf(type)}

Copies(type) == Cardinality(CopySet(type))

Destroyed == {e \in Enemies : obj[e] # "alive"}

\* Every enemy destroyed is worth exactly one point, which is an UPDATE_SCORE
\* in the queue, a request under way or counted by the server: none is lost
\* between frames and no enemy is counted twice.
ScoreAccounts ==
  Cardinality(Destroyed) =
    points + Copies("UPDATE_SCORE")
      + (IF socket = "sent" /\ request = ADD_POINTS THEN 1 ELSE 0)

\* A hit hides the player only until the server has said that lives are left:
\* the player is never missing from a frame that is drawn, however many hits
\* one drain handles and whatever the order.
VisibleWhenDrawn == pc = "draw" => visible

\* No life is lost while the script holds the shield up, though the events of
\* a frame are raised and handled after the script has run.
ShieldHolds ==
  invincible => PendingOf("PLAYER_LOST_LIFE") = {} /\ request # PLAYER_DEAD

\* The counts the code keeps agree with the arrays they count, in every state
\* (checkWinConditions decides on numEnemies alone).
CountersAgree ==
  /\ numEnemies = Cardinality(OnBoard(Enemies))
  /\ enemyBulletsSize = Cardinality(OnBoard(EnemyBullets))

\* A REQ socket must receive between two sends: when a handler can run, no
\* request is under way, and while one is, it is the thread that waits.
ReqLockstep == (socket = "idle") <=> (pc # "await")

\* Once the last enemy is gone the win is certain: no life is lost to a hit of
\* the frame that handles the WON, as the WON is the older event (if the clock
\* has gone on since it was raised).
WonBeforeLostLife ==
  ~(PendingOf("WON") # {} /\ request = PLAYER_DEAD)

\* The process only ends as the winner with every enemy counted.
WinnerHasFullScore == outcome = "winner" => points = ENEMY_MAX

-----------------------------------------------------------------------------
(***************************************************************************)
(* The inductive invariant behind AddresseeLive and HandlersMatchBoard.    *)
(* Guids and slots have the same names here, so an object that is on the   *)
(* board is reached by its own slot's name; every addressed event names a  *)
(* slot with an object of a kind that may get it; and objects leave the    *)
(* board only after the drain, when nothing is pending.                    *)
(***************************************************************************)
BoardInv ==
  /\ obj[Player] = "alive"
  /\ \A s \in Slots : obj[s] # "null" =>
        guid[s] = s /\ s \in DOMAIN handlers /\ handlers[s] = s

\* The slots an event of type t may be addressed to.
MayGet(t) ==
  CASE t \in {"KEYBOARD_INPUT", "SHOOT"} -> {Player}
    [] t \in {"COLLISION_ENEMY", "COLLISION_BOUND", "MOVE"} -> Bullets
    [] t = "COLLISION_PLAYER" -> Enemies \cup Bullets
    [] OTHER -> Enemies

WellAddressed(e) ==
  /\ e.eventType \in AddressedTypes =>
        e.associatedGUID \in MayGet(e.eventType) /\ obj[e.associatedGUID] # "null"
  /\ e.eventType = "COLLISION_ENEMY" =>
        e.intendedGUID \in Enemies /\ obj[e.intendedGUID] # "null"

QueueInv == \A e \in Pending : WellAddressed(e)

DrainedInv == pc \in {"draw", "cleanUp", "checkWin"} => Pending = {}

\* Objects, handlers and pending events fit together in every state.
IndInv == TypeOK /\ BoardInv /\ QueueInv /\ DrainedInv /\ ReqLockstep

-----------------------------------------------------------------------------
(***************************************************************************)
(* The order of a frame, which the other invariants rest on: what may be   *)
(* pending at each point of it, and what has been cleared by then.         *)
(***************************************************************************)
InputTypes == {"KEYBOARD_INPUT", "SHOOT"}
CollisionTypes == {"COLLISION_ENEMY", "COLLISION_PLAYER", "COLLISION_BOUND"}
MovementTypes == {"MOVE", "MOVE_DOWN", "MOVE_LAT"}

MayBePending(at) ==
  CASE at \in {"draw", "cleanUp", "checkWin"} -> {}
    [] at \in {"poll", "script", "input"} -> {"WON"}
    [] at \in {"clock", "collide"} -> {"WON"} \cup InputTypes
    [] at = "move" -> {"WON"} \cup InputTypes \cup CollisionTypes
    [] at = "shootLane" ->
         {"WON"} \cup InputTypes \cup CollisionTypes \cup MovementTypes
    [] at \in {"shootRandom", "search"} ->
         {"WON", "SHOOT_LANE"} \cup InputTypes \cup CollisionTypes \cup MovementTypes
    [] OTHER -> AddressedTypes \cup BroadcastTypes

PhaseInv == \A e \in Pending : e.eventType \in MayBePending(pc)

\* Where an object may be dead and the queue out of order: from the drain on.
Drain == {"dispatch", "await", "exited"}

CleanInv ==
  /\ pc \notin Drain \cup {"draw", "cleanUp"} => \A s \in Slots : obj[s] # "dead"
  /\ scrambled => pc \in Drain
  /\ pc = "search" => FreeForBullet(RandomBullet)

\* A request is under way from the send to the receive, and the process runs
\* until it exits.
LinkInv ==
  /\ (socket = "idle") <=> (request = "none")
  /\ pc # "exited" => outcome = "running"

FrameInv == PhaseInv /\ CleanInv /\ LinkInv

\* A hidden player has a lost life on the way to the server.
PlayerInv ==
  /\ ShieldHolds
  /\ pc # "exited" =>
        visible \/ PendingOf("PLAYER_LOST_LIFE") # {} \/ request = PLAYER_DEAD

(***************************************************************************)
(* A hit on its way to a point: the enemy named by a COLLISION_ENEMY or an *)
(* ENEMY_DIED is alive until the latter is handled, and no other pending   *)
(* event names it.                                                         *)
(***************************************************************************)
DeathEvents == PendingOf("COLLISION_ENEMY") \cup PendingOf("ENEMY_DIED")

Victim(e) ==
  IF e.eventType = "COLLISION_ENEMY" THEN e.intendedGUID ELSE e.associatedGUID

DeathInv ==
  /\ \A e \in DeathEvents : queue[e] = 1 /\ obj[Victim(e)] = "alive"
  /\ \A e, f \in DeathEvents : Victim(e) = Victim(f) => e = f

\* From the WON on every enemy is counted.
WinDecided == PendingOf("WON") # {} \/ request = WINNER \/ outcome = "winner"

WinInv == WinDecided => points = ENEMY_MAX

ScoreInv ==
  /\ CountersAgree
  /\ DeathInv
  /\ IsFiniteSet(CopySet("UPDATE_SCORE")) /\ ScoreAccounts
  /\ WinInv

\* The frame, the player and the score fit together in every state.
MatchInv == FrameInv /\ PlayerInv /\ ScoreInv

(***************************************************************************)
(* While a WON is pending it is older than any hit on the player in the    *)
(* queue, and the queue is in order: for a clock that has gone on since    *)
(* the WON was raised.                                                     *)
(***************************************************************************)
ClockGoesOn == \A time \in NextTimes : time > BaseTime

WonInv ==
  /\ PendingOf("WON") # {} =>
       /\ ~scrambled
       /\ \A won \in PendingOf("WON") : won.timestamp = BaseTime
       /\ PendingOf("PLAYER_DIED") = {} /\ PendingOf("PLAYER_LOST_LIFE") = {}
       /\ \A hit \in PendingOf("COLLISION_PLAYER") : hit.timestamp > BaseTime
       /\ request # PLAYER_DEAD
       /\ pc \in {"poll", "script", "input", "clock", "exited"} \/ currentTime > BaseTime
  /\ \/ currentTime = BaseTime
     \/ PendingOf("WON") # {} \/ request = WINNER \/ pc = "exited"

-----------------------------------------------------------------------------
(***************************************************************************)
(* Fairness.  The one thread of the client goes on running: whenever it    *)
(* can take a step that changes something, it takes one.  In the search    *)
(* for a column this means that rand() sooner or later draws a column with *)
(* an enemy, if there is one.  The server answers every request.           *)
(***************************************************************************)
ClientFairness == WF_vars(ClientStep)
ServerFairness == WF_vars(ServerStep)

FairSpec == Spec /\ ClientFairness /\ ServerFairness

\* While an enemy is left, every frame comes to its end: the drain handles
\* every event although handlers raise more, no search for a shooter and no
\* wait for the server goes on for ever.
FrameCompletes ==
  (pc = "script" /\ numEnemies > 0) ~> pc \in {"poll", "exited"}

\* The match as the player and the server see it.
PlayedMatch == INSTANCE Match WITH
  Formation <- ENEMY_MAX,
  OtherEnds <- Outcomes \ {"running", "winner"},
  destroyed <- Cardinality(Destroyed),
  scored <- points,
  outcome <- outcome

\* The client implements the match: points follow the enemies destroyed, one
\* by one, nothing happens after the end, and only a complete score wins.
ImplementsMatch == PlayedMatch!Safety

\* With the fairness above it implements the liveness of the match as well:
\* every destroyed enemy is counted in the end, unless the process ends first.
PointsArrive == PlayedMatch!Spec

-----------------------------------------------------------------------------
\* GameStateManager.cpp:400: "now we should've found a valid index": the
\* search for the enemy to shoot a random bullet comes to an end.
SearchFindsEnemy == (pc = "search") ~> (pc # "search")

\* Event.h:107: "The timestamp when the event was raised/created": no event
\* carries a time that has not come yet or is before the start.
StampsAreTimes ==
  \A e \in Pending : e.timestamp \in 0..currentTime
=============================================================================
