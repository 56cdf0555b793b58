-------------------------- MODULE GameStateManager --------------------------
(***************************************************************************)
(* The game board: GameStateManager.{h,cpp}, with the life of the game     *)
(* objects on it (GameObject.cpp).  Positions are not kept: which objects  *)
(* touch, which column is nearest to the player and whether the formation  *)
(* is at an edge are choices, held to what the sizes and distances of the  *)
(* objects allow.  Every object is known by its slot on the board; a slot  *)
(* of a bullet has the name of the guid that bullet is meant to get.       *)
(***************************************************************************)
EXTENDS EventManager

CONSTANTS NUM_ROWS, NUM_COLS     \* 5 and 10 in the code

ASSUME BoardAssumption == NUM_ROWS \in Nat \ {0} /\ NUM_COLS \in Nat \ {0}

VARIABLES
  obj,                \* slot -> "null" (no object), "alive" or "dead"
  guid,               \* slot -> GameObject::guid, 0 where there is no object
  numEnemies, enemyBulletsSize, playerBulletsSize

boardVars == <<obj, guid, numEnemies, enemyBulletsSize, playerBulletsSize>>

PLAYER_BULLET_GUID == -696969
ENEMY_BULLET_LANE_GUID == -214215
ENEMY_BULLET_RAND_GUID == -12512856

ENEMY_MAX == NUM_ROWS * NUM_COLS

\* main() gives the player guid 0 and the enemy at index i guid i + 1.
Player == 0
Enemies == 1..ENEMY_MAX
Row(e) == (e - 1) \div NUM_COLS
Col(e) == (e - 1) % NUM_COLS

PlayerBullet == PLAYER_BULLET_GUID
LaneBullet == ENEMY_BULLET_LANE_GUID
RandomBullet == ENEMY_BULLET_RAND_GUID
EnemyBullets == {LaneBullet, RandomBullet}
Bullets == {PlayerBullet} \cup EnemyBullets
Slots == {Player} \cup Enemies \cup Bullets

ASSUME DanglingAssumption == Dangling \notin Slots

\* The objects that are on the board: a slot that is not NULL.
OnBoard(slots) == {s \in slots : obj[s] # "null"}

\* Mutant: the guids of the enemies are counted from 2.
CountedFromTwo ==
  /\ obj = [s \in Slots |-> IF s \in Bullets THEN "null" ELSE "alive"]
  /\ guid = [s \in Slots |-> IF s \in Bullets THEN 0
                             ELSE IF s = Player THEN Player ELSE s + 1]
  /\ numEnemies = ENEMY_MAX
  /\ enemyBulletsSize = 0
  /\ playerBulletsSize = 0
  /\ handlers = [g \in {Player} \cup Enemies |-> g]

BoardInit ==
  /\ obj = [s \in Slots |-> IF s \in Bullets THEN "null" ELSE "alive"]
  /\ guid = [s \in Slots |-> IF s \in Bullets THEN 0 ELSE s]
  /\ numEnemies = ENEMY_MAX
  /\ enemyBulletsSize = 0
  /\ playerBulletsSize = 0
  /\ handlers = [g \in {Player} \cup Enemies |-> g]

(***************************************************************************)
(* checkCollisions.  A player bullet (10 x 30) can touch two enemies of    *)
(* one column (rows are 25 apart) but never two columns (10 apart), and    *)
(* the upper bound as well; the player (60 x 30) can touch two columns and *)
(* two rows.  A bullet that touches the player is far from the lower bound.*)
(***************************************************************************)
Adjacent(e, f) == Row(e) - Row(f) \in {-1, 0, 1} /\ Col(e) - Col(f) \in {-1, 0, 1}

\* What the player bullet hits: enemies of one column, in rows that touch.
ShotHits ==
  IF OnBoard({PlayerBullet}) = {} THEN {{}}
  ELSE {hit \in SUBSET OnBoard(Enemies) :
          \A e, f \in hit : Adjacent(e, f) /\ Col(e) = Col(f)}

\* The enemies that touch the player.
Contacts ==
  {touching \in SUBSET OnBoard(Enemies) : \A e, f \in touching : Adjacent(e, f)}

\* Every set of events that one call may raise.
Collisions(currentTime) ==
  LET Hit(e) == EventAt("COLLISION_ENEMY", guid[PlayerBullet], currentTime, guid[e])
      OnPlayer(s) == Event("COLLISION_PLAYER", guid[s], currentTime)
      OnBound(b) == Event("COLLISION_BOUND", guid[b], currentTime)
  IN  {{Hit(e) : e \in hit} \cup {OnPlayer(s) : s \in striking \cup touching}
         \cup {OnBound(b) : b \in bound \ striking} :
         hit \in ShotHits, touching \in Contacts,
         striking \in SUBSET OnBoard(EnemyBullets),
         bound \in SUBSET OnBoard(Bullets)}

\* doMovement: the whole formation goes sideways, or down at an edge, and
\* every bullet flies on.
Movements ==
  {{Event(step, guid[e], 0) : e \in OnBoard(Enemies)}
     \cup {Event("MOVE", guid[b], 0) : b \in OnBoard(Bullets)} :
     step \in {"MOVE_DOWN", "MOVE_LAT"}}

(***************************************************************************)
(* makeEnemiesShoot, in the parts the main loop runs one after the other.  *)
(***************************************************************************)
\* The first enemy met from the bottom row up in its column.
Lowest(e) ==
  \A f \in OnBoard(Enemies) : Col(f) = Col(e) => Row(f) <= Row(e)

Shooters(cols) == {e \in OnBoard(Enemies) : Col(e) \in cols /\ Lowest(e)}

Columns == 0..(NUM_COLS - 1)

(***************************************************************************)
(* addPlayerBullet and addEnemyBullet store a new object, which has guid 0,*)
(* in a free slot.  registerPlayerBullets and registerEnemyBullets then    *)
(* give the guid to every bullet of their array that still has 0, and      *)
(* register its handler.                                                   *)
(***************************************************************************)
FreeForBullet(slot) == obj[slot] = "null"

\* Mutant: the test for the default guid is missing.
EveryBullet(slot, array) == {slot} \cup OnBoard(array)

Unregistered(slot, array) == {slot} \cup {s \in OnBoard(array) : guid[s] = 0}

AddAndRegister(slot, array, newGUID) ==
  LET new == Unregistered(slot, array)
  IN  /\ obj' = [obj EXCEPT ![slot] = "alive"]
      /\ guid' = [s \in Slots |-> IF s \in new THEN newGUID ELSE guid[s]]
      /\ \E last \in new : handlers' = AddToHandlers(newGUID, last)

\* A shot that finds its slot taken: the new object is deleted again.
AddBullet(slot, array, newGUID) ==
  IF FreeForBullet(slot)
  THEN AddAndRegister(slot, array, newGUID)
  ELSE UNCHANGED <<obj, guid, handlers>>

\* Mutant: the player may always shoot.
AlwaysShoot == TRUE

\* canPlayerShoot
CanPlayerShoot == obj[PlayerBullet] = "null"

\* Mutant: one decrement for an array, however many of its objects died.
OneLess(count, dead) == IF dead = {} THEN count ELSE count - 1

\* A count after the objects in dead were cleaned up.
Less(count, dead) == count - Cardinality(dead)

\* cleanUpObjects: the slots of the dead become NULL and the counts go down;
\* GameObject::cleanUp deletes their handlers.
CleanUpObjects ==
  LET dead == {s \in Slots : obj[s] = "dead"}
  IN  /\ obj' = [s \in Slots |-> IF s \in dead THEN "null" ELSE obj[s]]
      /\ guid' = [s \in Slots |-> IF s \in dead THEN 0 ELSE guid[s]]
      /\ numEnemies' = Less(numEnemies, dead \cap Enemies)
      /\ enemyBulletsSize' = Less(enemyBulletsSize, dead \cap EnemyBullets)
      /\ playerBulletsSize' = Less(playerBulletsSize, dead \cap {PlayerBullet})
      /\ handlers' = DanglingHandlers(dead)

\* Mutant: the match is won with one enemy left.
OneLeft == numEnemies <= 1

\* The condition of checkWinConditions, and what it raises.
NobodyLeft == numEnemies = 0

\* Mutant: the WON is stamped with a time that has not come yet.
Postdated(currentTime) ==
  IF NobodyLeft THEN {Event("WON", Broadcast, currentTime + 2)} ELSE {}

WinEvents(currentTime) ==
  IF NobodyLeft THEN {Event("WON", Broadcast, currentTime)} ELSE {}
=============================================================================
