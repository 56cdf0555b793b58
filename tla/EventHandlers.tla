--------------------------- MODULE EventHandlers ----------------------------
(***************************************************************************)
(* What handling one event does: BulletHandler, EnemyHandler,              *)
(* PlayerHandler and ConnectionHandler of EventHandler.cpp, one operator   *)
(* per branch of their onEvent functions.  A handler runs while the main   *)
(* loop drains the queue (pc = "dispatch"); one that talks to the server   *)
(* blocks the only thread in recv (pc = "await") until the answer is there.*)
(***************************************************************************)
EXTENDS GameStateManager, ServerLink

CONSTANT
  GarbageStamps      \* what an uninitialised timestamp may turn out to be

ASSUME StampAssumption == GarbageStamps \subseteq Int

VARIABLES
  pc,                \* where the main loop is, see Game
  outcome,           \* "running", or how the process ended
  visible,           \* Player::visible
  invincible         \* Player::invincible

playerVars == <<visible, invincible>>
controlVars == <<pc, outcome>>

\* The slot whose handler an addressed event goes to: handlers[guid].
Target(e) == handlers[e.associatedGUID]

\* Event e of one of these types comes off the queue and its handler runs.
Handle(e, types) ==
  /\ pc = "dispatch"
  /\ e.eventType \in types
  /\ Top(e)

\* The handler returns to the drain with the queue as it leaves it.
Done(e, raised) ==
  /\ queue' = PopAndRaise(e, raised)
  /\ UNCHANGED controlVars

\* Mutant: a killed object leaves the board at once.
DeleteNow(slot) == obj' = [obj EXCEPT ![slot] = "null"]

\* GameObject::kill
Kill(slot) == obj' = [obj EXCEPT ![slot] = "dead"]

BoardButObjUnchanged == UNCHANGED
  <<guid, numEnemies, enemyBulletsSize, playerBulletsSize, handlers>>

Exit(how) == pc' = "exited" /\ outcome' = how

-----------------------------------------------------------------------------
\* BulletHandler.  A bullet that hits an enemy dies and passes the hit on.
\* (EnemyHandler would only kill the enemy: nothing raises that event.)
BulletHitEnemy(e) ==
  /\ Handle(e, {"COLLISION_ENEMY"})
  /\ Kill(Target(e))
  /\ Done(e, IF Target(e) \in Bullets
             THEN {Event("ENEMY_DIED", e.intendedGUID, e.timestamp)} ELSE {})
  /\ BoardButObjUnchanged
  /\ UNCHANGED <<scrambled, playerVars, linkVars>>

BulletHitPlayer(e) ==
  /\ Handle(e, {"COLLISION_PLAYER"})
  /\ Target(e) \in Bullets
  /\ Kill(Target(e))
  /\ Done(e, {Event("PLAYER_DIED", Broadcast, e.timestamp)})
  /\ BoardButObjUnchanged
  /\ UNCHANGED <<scrambled, playerVars, linkVars>>

BulletHitBound(e) ==
  /\ Handle(e, {"COLLISION_BOUND"})
  /\ Kill(Target(e))
  /\ Done(e, {})
  /\ BoardButObjUnchanged
  /\ UNCHANGED <<scrambled, playerVars, linkVars>>

\* MOVE, MOVE_DOWN, MOVE_LAT and KEYBOARD_INPUT change positions only.
Reposition(e) ==
  /\ Handle(e, {"MOVE", "MOVE_DOWN", "MOVE_LAT", "KEYBOARD_INPUT"})
  /\ Done(e, {})
  /\ UNCHANGED <<boardVars, handlers, scrambled, playerVars, linkVars>>

-----------------------------------------------------------------------------
\* EnemyHandler.  An enemy that touches the player lives on.
EnemyTouchesPlayer(e) ==
  /\ Handle(e, {"COLLISION_PLAYER"})
  /\ Target(e) \in Enemies
  /\ Done(e, {Event("PLAYER_DIED", Broadcast, e.timestamp)})
  /\ UNCHANGED <<boardVars, handlers, scrambled, playerVars, linkVars>>

\* Mutant: the point is raised and the enemy stays alive.
EnemySurvives(e) ==
  /\ Handle(e, {"ENEMY_DIED"})
  /\ Done(e, {Event("UPDATE_SCORE", Broadcast, e.timestamp)})
  /\ UNCHANGED <<boardVars, handlers, scrambled, playerVars, linkVars>>

\* Mutant: the enemy is killed and no point is raised.
NoPoint(e) ==
  /\ Handle(e, {"ENEMY_DIED"})
  /\ Kill(Target(e))
  /\ Done(e, {})
  /\ BoardButObjUnchanged
  /\ UNCHANGED <<scrambled, playerVars, linkVars>>

EnemyDied(e) ==
  /\ Handle(e, {"ENEMY_DIED"})
  /\ Kill(Target(e))
  /\ Done(e, {Event("UPDATE_SCORE", Broadcast, e.timestamp)})
  /\ BoardButObjUnchanged
  /\ UNCHANGED <<scrambled, playerVars, linkVars>>

\* SHOOT_LANE and SHOOT_RANDOM put a bullet in the slot they are named after.
EnemyShoots(e) ==
  LET lane == e.eventType = "SHOOT_LANE"
      slot == IF lane THEN LaneBullet ELSE RandomBullet
      newGUID == IF lane THEN ENEMY_BULLET_LANE_GUID ELSE ENEMY_BULLET_RAND_GUID
  IN  /\ Handle(e, {"SHOOT_LANE", "SHOOT_RANDOM"})
      /\ AddBullet(slot, EnemyBullets, newGUID)
      /\ enemyBulletsSize' = enemyBulletsSize + (IF FreeForBullet(slot) THEN 1 ELSE 0)
      /\ Done(e, {})
      /\ UNCHANGED <<numEnemies, playerBulletsSize, scrambled, playerVars, linkVars>>

-----------------------------------------------------------------------------
\* PlayerHandler.  addPlayerBullet does not count the bullet it stores.
PlayerShoots(e) ==
  /\ Handle(e, {"SHOOT"})
  /\ AddBullet(PlayerBullet, {PlayerBullet}, PLAYER_BULLET_GUID)
  /\ Done(e, {})
  /\ UNCHANGED <<numEnemies, enemyBulletsSize, playerBulletsSize, scrambled,
                 playerVars, linkVars>>

\* Mutant: the shield is not asked for.
Unshielded == TRUE

Vulnerable == ~invincible

\* The PLAYER_LOST_LIFE event reads its own timestamp before it has one: any
\* value may come out, a NaN too, which no comparison puts in its place.
PlayerDied(e) ==
  /\ Handle(e, {"PLAYER_DIED"})
  /\ Vulnerable
  /\ visible' = FALSE
  /\ \E time \in GarbageStamps :
        Done(e, {Event("PLAYER_LOST_LIFE", Broadcast, time)})
  /\ \E isNaN \in BOOLEAN : scrambled' = (scrambled \/ isNaN)
  /\ UNCHANGED <<boardVars, handlers, invincible, linkVars>>

\* Mutant: the hit is put off until the shield is down.
HitPutOff(e) ==
  /\ Handle(e, {"PLAYER_DIED"})
  /\ invincible
  /\ Done(e, {e})
  /\ UNCHANGED <<boardVars, handlers, scrambled, playerVars, linkVars>>

PlayerShielded(e) ==
  /\ Handle(e, {"PLAYER_DIED"})
  /\ invincible
  /\ Done(e, {})
  /\ UNCHANGED <<boardVars, handlers, scrambled, playerVars, linkVars>>

-----------------------------------------------------------------------------
\* ConnectionHandler: every branch sends its request and waits in recv.
RequestFor(type) ==
  CASE type = "UPDATE_SCORE"     -> ADD_POINTS
    [] type = "PLAYER_LOST_LIFE" -> PLAYER_DEAD
    [] type = "WON"              -> WINNER

\* Mutant: an addPoints does not wait for its reply.
SendWithoutReply(e) ==
  /\ Handle(e, {"UPDATE_SCORE", "PLAYER_LOST_LIFE", "WON"})
  /\ queue' = PopAndRaise(e, {})
  /\ Send(RequestFor(e.eventType))
  /\ pc' = IF e.eventType = "UPDATE_SCORE" THEN "dispatch" ELSE "await"
  /\ UNCHANGED <<outcome, boardVars, handlers, scrambled, playerVars>>

SendRequest(e) ==
  /\ Handle(e, {"UPDATE_SCORE", "PLAYER_LOST_LIFE", "WON"})
  /\ queue' = PopAndRaise(e, {})
  /\ Send(RequestFor(e.eventType))
  /\ pc' = "await"
  /\ UNCHANGED <<outcome, boardVars, handlers, scrambled, playerVars>>

ScoreAcknowledged ==
  /\ pc = "await"
  /\ Receive(ADD_POINTS)
  /\ pc' = "dispatch"
  /\ UNCHANGED <<outcome, boardVars, managerVars, playerVars>>

\* Mutant: nobody shows the player again.
StaysHidden ==
  /\ pc = "await"
  /\ reply = "lives"
  /\ Receive(PLAYER_DEAD)
  /\ pc' = "dispatch"
  /\ UNCHANGED <<outcome, boardVars, managerVars, playerVars>>

\* With lives left the player is shown again and the drain goes on.
LivesLeft ==
  /\ pc = "await"
  /\ reply = "lives"
  /\ Receive(PLAYER_DEAD)
  /\ visible' = TRUE
  /\ pc' = "dispatch"
  /\ UNCHANGED <<outcome, boardVars, managerVars, invincible>>

\* exit(0) in the middle of the drain; a reply stoi rejects ends it as well.
NoLivesLeft ==
  /\ pc = "await"
  /\ reply # "lives"
  /\ Exit(IF reply = "zero" THEN "gameOver" ELSE "badReply")
  /\ Receive(PLAYER_DEAD)
  /\ UNCHANGED <<boardVars, managerVars, playerVars>>

WinnerAcknowledged ==
  /\ pc = "await"
  /\ Receive(WINNER)
  /\ Exit("winner")
  /\ UNCHANGED <<boardVars, managerVars, playerVars>>
=============================================================================
