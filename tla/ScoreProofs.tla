----------------------------- MODULE ScoreProofs -----------------------------
(***************************************************************************)
(* Proofs about the score: the counts agree with the arrays, no enemy dies *)
(* twice, every destroyed enemy is one point and a win has all of them;    *)
(* and from these, that the client implements the match.                   *)
(***************************************************************************)
EXTENDS FrameProofs

-----------------------------------------------------------------------------
\* The formation is finite, and the arrays of the board are parts of it.
LEMMA FormationFinite ==
  /\ IsFiniteSet(Enemies) /\ Cardinality(Enemies) = ENEMY_MAX /\ ENEMY_MAX \in Nat
  /\ IsFiniteSet(EnemyBullets)
  <1>1. ENEMY_MAX \in Nat
    BY CountsAreNatural
  <1>2. IsFiniteSet(Enemies) /\ Cardinality(Enemies) = ENEMY_MAX
    BY <1>1, FS_Interval DEF Enemies
  <1>3. EnemyBullets = {LaneBullet} \cup {RandomBullet}
    BY DEF EnemyBullets
  <1>4. IsFiniteSet(EnemyBullets)
    <2>1. IsFiniteSet({LaneBullet}) /\ IsFiniteSet({RandomBullet})
      BY FS_Singleton
    <2> QED BY <1>3, <2>1, FS_Union
  <1> QED BY <1>1, <1>2, <1>4

\* What a handler does to the objects on the board.
LEMMA ObjectsHandled ==
  ASSUME IndInv, NEW e \in Pending,
         \/ BulletHitEnemy(e) \/ BulletHitPlayer(e) \/ BulletHitBound(e)
         \/ Reposition(e) \/ EnemyTouchesPlayer(e) \/ EnemyDied(e)
         \/ PlayerDied(e) \/ PlayerShielded(e) \/ SendRequest(e)
  PROVE  /\ UNCHANGED <<numEnemies, enemyBulletsSize>>
         /\ \/ UNCHANGED obj
            \/ /\ e.eventType \in CollisionTypes \cup {"ENEMY_DIED"}
               /\ Target(e) \in MayGet(e.eventType) /\ Target(e) \in Slots
               /\ Target(e) = e.associatedGUID /\ obj[Target(e)] # "null"
               /\ obj' = [obj EXCEPT ![Target(e)] = "dead"]
  <1>1. CASE BulletHitEnemy(e) \/ BulletHitPlayer(e) \/ BulletHitBound(e) \/ EnemyDied(e)
    <2>1. /\ e.eventType \in CollisionTypes \cup {"ENEMY_DIED"} /\ Kill(Target(e))
          /\ BoardButObjUnchanged
      BY <1>1 DEF BulletHitEnemy, BulletHitPlayer, BulletHitBound, EnemyDied, Handle,
         CollisionTypes
    <2>2. e.eventType \in AddressedTypes
      BY <2>1 DEF CollisionTypes, AddressedTypes
    <2>3. /\ Target(e) \in MayGet(e.eventType) /\ Target(e) \in Slots
          /\ Target(e) = e.associatedGUID /\ obj[Target(e)] # "null"
      BY <2>2, TargetIsAddressee DEF IndInv, QueueInv
    <2> QED BY <2>1, <2>3 DEF Kill, BoardButObjUnchanged
  <1>2. CASE \/ Reposition(e) \/ EnemyTouchesPlayer(e) \/ PlayerDied(e)
             \/ PlayerShielded(e) \/ SendRequest(e)
    BY <1>2 DEF Reposition, EnemyTouchesPlayer, PlayerDied, PlayerShielded,
       SendRequest, boardVars
  <1> QED BY <1>1, <1>2

-----------------------------------------------------------------------------
(***************************************************************************)
(* The counts.                                                             *)
(***************************************************************************)
\* A step that takes nothing off the board and puts nothing on it.
LEMMA CountersKept ==
  ASSUME CountersAgree, UNCHANGED <<numEnemies, enemyBulletsSize>>,
         \A s \in Slots : obj'[s] = "null" <=> obj[s] = "null"
  PROVE  CountersAgree'
  <1>1. OnBoard(Enemies)' = OnBoard(Enemies) /\ OnBoard(EnemyBullets)' = OnBoard(EnemyBullets)
    BY SlotFacts DEF OnBoard
  <1> QED BY <1>1 DEF CountersAgree

\* The array of the enemies' bullets grows by the one slot that is filled.
LEMMA CountersEnemyShoots ==
  ASSUME IndInv, CountersAgree, NEW e \in Pending, EnemyShoots(e)
  PROVE  CountersAgree'
  <1> DEFINE slot == IF e.eventType = "SHOOT_LANE" THEN LaneBullet ELSE RandomBullet
  <1>1. slot \in EnemyBullets /\ slot \notin Enemies /\ slot \in Slots
    <2>1. slot \in EnemyBullets
      BY DEF EnemyBullets
    <2>2. \A s \in EnemyBullets : s \notin Enemies /\ s \in Slots
      BY SlotFacts DEF EnemyBullets, Enemies, Bullets, LaneBullet, RandomBullet,
         ENEMY_BULLET_LANE_GUID, ENEMY_BULLET_RAND_GUID
    <2> QED BY <2>1, <2>2
  <1>2. /\ \E newGUID : AddBullet(slot, EnemyBullets, newGUID)
        /\ enemyBulletsSize' = enemyBulletsSize + (IF FreeForBullet(slot) THEN 1 ELSE 0)
        /\ UNCHANGED numEnemies
    BY DEF EnemyShoots
  <1> HIDE DEF slot
  <1>3. CASE ~FreeForBullet(slot)
    <2>1. UNCHANGED <<obj, numEnemies, enemyBulletsSize>>
      BY <1>2, <1>3 DEF AddBullet, IndInv, TypeOK
    <2> QED BY <2>1, CountersKept
  <1>4. CASE FreeForBullet(slot)
    <2>1. obj' = [obj EXCEPT ![slot] = "alive"]
      BY <1>2, <1>4 DEF AddBullet, AddAndRegister
    <2>2. OnBoard(Enemies)' = OnBoard(Enemies)
      BY <1>1, <2>1, SlotFacts DEF OnBoard, IndInv, TypeOK
    <2>3. /\ OnBoard(EnemyBullets)' = OnBoard(EnemyBullets) \cup {slot}
          /\ slot \notin OnBoard(EnemyBullets)
      BY <1>1, <1>4, <2>1, SlotFacts DEF OnBoard, IndInv, TypeOK, FreeForBullet
    <2>4. IsFiniteSet(OnBoard(EnemyBullets))
      BY FormationFinite, FS_Subset DEF OnBoard
    <2>5. Cardinality(OnBoard(EnemyBullets)') = Cardinality(OnBoard(EnemyBullets)) + 1
      BY <2>3, <2>4, FS_AddElement
    <2> QED BY <1>2, <1>4, <2>2, <2>5 DEF CountersAgree
  <1> QED BY <1>3, <1>4

LEMMA CountersPlayerShoots ==
  ASSUME IndInv, CountersAgree, NEW e \in Pending, PlayerShoots(e)
  PROVE  CountersAgree'
  <1>1. PlayerBullet \notin Enemies /\ PlayerBullet \notin EnemyBullets
          /\ PlayerBullet \in Slots
    BY SlotFacts DEF EnemyBullets, Enemies, PlayerBullet, LaneBullet, RandomBullet,
       PLAYER_BULLET_GUID, ENEMY_BULLET_LANE_GUID, ENEMY_BULLET_RAND_GUID
  <1>2. obj' = obj \/ obj' = [obj EXCEPT ![PlayerBullet] = "alive"]
    BY DEF PlayerShoots, AddBullet, AddAndRegister
  <1>3. /\ OnBoard(Enemies)' = OnBoard(Enemies)
        /\ OnBoard(EnemyBullets)' = OnBoard(EnemyBullets)
    BY <1>1, <1>2, SlotFacts DEF OnBoard, IndInv, TypeOK
  <1> QED BY <1>3 DEF CountersAgree, PlayerShoots

\* Of a finite array the dead are taken off, and subtracted from its count.
LEMMA LessIsCount ==
  ASSUME TypeOK, NEW array \in SUBSET Slots, IsFiniteSet(array), CleanUpObjects,
         NEW count, count = Cardinality(OnBoard(array))
  PROVE  Less(count, {s \in Slots : obj[s] = "dead"} \cap array)
           = Cardinality(OnBoard(array)')
  <1> DEFINE dead == {s \in Slots : obj[s] = "dead"}
  <1>1. OnBoard(array)' = OnBoard(array) \ dead
    BY DEF OnBoard, CleanUpObjects, TypeOK
  <1>2. OnBoard(array) \cap dead = dead \cap array
    BY DEF OnBoard
  <1>3. IsFiniteSet(OnBoard(array))
    BY FS_Subset DEF OnBoard
  <1> HIDE DEF dead
  <1>4. Cardinality(OnBoard(array) \ dead)
          = Cardinality(OnBoard(array)) - Cardinality(dead \cap array)
    BY <1>2, <1>3, FS_Difference
  <1> QED BY <1>1, <1>4 DEF Less, dead

LEMMA CountersCleanUp ==
  ASSUME IndInv, CountersAgree, CleanUp
  PROVE  CountersAgree'
  <1>1. CleanUpObjects /\ Enemies \in SUBSET Slots /\ EnemyBullets \in SUBSET Slots
    BY SlotFacts DEF CleanUp
  <1> DEFINE dead == {s \in Slots : obj[s] = "dead"}
  <1>2. /\ numEnemies' = Less(numEnemies, dead \cap Enemies)
        /\ enemyBulletsSize' = Less(enemyBulletsSize, dead \cap EnemyBullets)
    BY <1>1 DEF CleanUpObjects
  <1>3. /\ Less(numEnemies, dead \cap Enemies) = Cardinality(OnBoard(Enemies)')
        /\ Less(enemyBulletsSize, dead \cap EnemyBullets)
             = Cardinality(OnBoard(EnemyBullets)')
    BY <1>1, FormationFinite, LessIsCount DEF IndInv, CountersAgree
  <1> QED BY <1>2, <1>3 DEF CountersAgree

LEMMA CountersHandled ==
  ASSUME IndInv, CountersAgree, HandleEvent
  PROVE  CountersAgree'
  <1>1. PICK e \in Pending :
          \/ BulletHitEnemy(e) \/ BulletHitPlayer(e) \/ BulletHitBound(e)
          \/ Reposition(e) \/ EnemyTouchesPlayer(e) \/ EnemyDied(e)
          \/ EnemyShoots(e) \/ PlayerShoots(e) \/ PlayerDied(e)
          \/ PlayerShielded(e) \/ SendRequest(e)
    BY DEF HandleEvent
  <1>2. CASE ~(EnemyShoots(e) \/ PlayerShoots(e))
    <2>1. /\ UNCHANGED <<numEnemies, enemyBulletsSize>>
          /\ \/ UNCHANGED obj
             \/ /\ obj[Target(e)] # "null"
                /\ obj' = [obj EXCEPT ![Target(e)] = "dead"]
      BY <1>1, <1>2, ObjectsHandled
    <2>2. \A s \in Slots : obj'[s] = "null" <=> obj[s] = "null"
      BY <2>1 DEF IndInv, TypeOK
    <2> QED BY <2>1, <2>2, CountersKept
  <1> QED BY <1>1, <1>2, CountersEnemyShoots, CountersPlayerShoots

\* No other step of the main loop touches the board or its counts.
LEMMA BoardKept ==
  ASSUME [Next]_vars, ~HandleEvent, ~CleanUp
  PROVE  UNCHANGED boardVars
  <1>1. CASE \/ RunScripts \/ ScriptFails \/ ReadInput \/ ReadClock
             \/ CheckCollisions \/ DoMovement \/ ShootLane \/ NobodyToShoot
             \/ LaneTaken \/ DrawRandomShot \/ NoRandomShot
    BY <1>1 DEF RunScripts, ScriptFails, ReadInput, ReadClock, CheckCollisions,
       DoMovement, ShootLane, NobodyToShoot, LaneTaken, DrawRandomShot, NoRandomShot
  <1>2. CASE \/ (\E col \in Columns : SearchHits(col) \/ SearchMisses(col))
             \/ EndOfDrain \/ ReplyArrives \/ DrawGameBoard \/ CheckWinConditions
             \/ NextFrame \/ CloseWindow
    BY <1>2 DEF SearchHits, SearchMisses, EndOfDrain, ReplyArrives,
       ScoreAcknowledged, LivesLeft, NoLivesLeft, WinnerAcknowledged, DrawGameBoard,
       CheckWinConditions, NextFrame, CloseWindow
  <1>3. CASE ServerStep \/ UNCHANGED vars
    BY <1>3 DEF ServerStep, vars
  <1> QED BY <1>1, <1>2, <1>3 DEF Next, ClientStep, Ended

LEMMA CountersNext == IndInv /\ CountersAgree /\ [Next]_vars => CountersAgree'
  <1> SUFFICES ASSUME IndInv, CountersAgree, [Next]_vars PROVE CountersAgree'
    OBVIOUS
  <1>1. CASE ~HandleEvent /\ ~CleanUp
    BY <1>1, BoardKept, CountersKept DEF boardVars
  <1> QED BY <1>1, CountersHandled, CountersCleanUp

LEMMA CountersInit == Init => CountersAgree
  <1> SUFFICES ASSUME Init PROVE CountersAgree
    OBVIOUS
  <1>1. numEnemies = ENEMY_MAX /\ enemyBulletsSize = 0
    BY DEF Init, BoardInit
  <1>2. OnBoard(Enemies) = Enemies
    <2>1. \A s \in Enemies : s \in Slots /\ s \notin Bullets
      BY SlotFacts DEF Enemies, Bullets, EnemyBullets, PlayerBullet, LaneBullet,
         RandomBullet, PLAYER_BULLET_GUID, ENEMY_BULLET_LANE_GUID,
         ENEMY_BULLET_RAND_GUID
    <2> QED BY <2>1 DEF Init, BoardInit, OnBoard
  <1>3. OnBoard(EnemyBullets) = {}
    BY SlotFacts DEF Init, BoardInit, OnBoard
  <1> QED BY <1>1, <1>2, <1>3, FormationFinite, FS_EmptySet DEF CountersAgree

\* numEnemies and enemyBulletsSize always are the numbers of enemies and of
\* enemy bullets on the board.
THEOREM CountsCorrect == Spec => []CountersAgree
  <1> QED BY CountersInit, CountersNext, Inductive, PTL DEF Spec

-----------------------------------------------------------------------------
(***************************************************************************)
(* Deaths.  Each pending hit on an enemy, or its death, names an enemy     *)
(* that is still alive and that no other one names.                        *)
(***************************************************************************)
LEMMA BulletsAreNoEnemies ==
  ASSUME NEW s \in Bullets
  PROVE  s \notin Enemies
  BY SlotFacts DEF Enemies, Bullets, EnemyBullets, PlayerBullet, LaneBullet,
     RandomBullet, PLAYER_BULLET_GUID, ENEMY_BULLET_LANE_GUID,
     ENEMY_BULLET_RAND_GUID

LEMMA VictimIsEnemy ==
  ASSUME IndInv, NEW e \in DeathEvents
  PROVE  Victim(e) \in Enemies /\ Victim(e) \in Slots /\ e \in Pending
  <1>1. e \in Pending /\ e.eventType \in {"COLLISION_ENEMY", "ENEMY_DIED"}
    BY DEF DeathEvents, PendingOf
  <1>2. WellAddressed(e)
    BY <1>1 DEF IndInv, QueueInv
  <1>3. Victim(e) \in Enemies
    BY <1>1, <1>2 DEF WellAddressed, Victim, AddressedTypes, MayGet
  <1> QED BY <1>1, <1>3, SlotFacts

\* A step after which no death is pending that was not pending before.
LEMMA DeathsKept ==
  ASSUME DeathInv,
         \A e \in DeathEvents' :
           e \in DeathEvents /\ queue'[e] = queue[e] /\ obj'[Victim(e)] = obj[Victim(e)]
  PROVE  DeathInv'
  BY DEF DeathInv, Victim

\* Events of other types raised or handled leave the deaths alone.
LEMMA DeathTypesKept ==
  ASSUME DeathInv, \A e \in DeathEvents : obj'[Victim(e)] = obj[Victim(e)],
         \A t \in {"COLLISION_ENEMY", "ENEMY_DIED"} :
           /\ PendingOf(t)' = PendingOf(t)
           /\ \A f \in PendingOf(t) : queue'[f] = queue[f]
  PROVE  DeathInv'
  BY DeathsKept DEF DeathEvents

\* checkCollisions: one COLLISION_ENEMY for each enemy hit, all of them alive.
LEMMA DeathsOfHits ==
  ASSUME IndInv, FrameInv, CheckCollisions
  PROVE  DeathInv'
  <1> USE DEF Advance
  <1>1. PICK S \in Collisions(currentTime) : queue' = Raise(S)
    BY DEF CheckCollisions
  <1>2. pc = "collide" /\ UNCHANGED obj
    BY DEF CheckCollisions, boardVars
  <1>3. PICK hit \in ShotHits :
          \A e \in S :
            \/ \E f \in hit :
                 e = EventAt("COLLISION_ENEMY", guid[PlayerBullet], currentTime, guid[f])
            \/ e.eventType \in {"COLLISION_PLAYER", "COLLISION_BOUND"}
    BY DEF Collisions, Event, EventAt
  <1>4. DeathEvents = {}
    <2>1. \A e \in Pending : e.eventType \in {"WON", "KEYBOARD_INPUT", "SHOOT"}
      BY <1>2 DEF FrameInv, PhaseInv, MayBePending, InputTypes
    <2> QED BY <2>1 DEF DeathEvents, PendingOf
  <1>5. /\ Pending' = Pending \cup S
        /\ \A f \in Pending' :
             queue'[f] = (IF f \in Pending THEN queue[f] ELSE 0)
                           + (IF f \in S THEN 1 ELSE 0)
    BY <1>1, AfterRaise DEF IndInv
  <1>6. ASSUME NEW e \in DeathEvents'
        PROVE  \E f \in hit :
                 /\ e = EventAt("COLLISION_ENEMY", guid[PlayerBullet], currentTime, guid[f])
                 /\ e \in S /\ e \notin Pending
    <2>1. e \in Pending' /\ e.eventType \in {"COLLISION_ENEMY", "ENEMY_DIED"}
      BY DEF DeathEvents, PendingOf
    <2>2. e \notin Pending
      BY <1>4, <2>1 DEF DeathEvents, PendingOf
    <2>3. e \in S
      BY <1>5, <2>1, <2>2
    <2> QED BY <1>3, <2>1, <2>2, <2>3
  <1>7. ASSUME NEW f \in hit
        PROVE  guid[f] = f /\ obj[f] = "alive"
    <2>1. f \in OnBoard(Enemies)
      BY DEF ShotHits
    <2>2. guid[f] = f /\ f \in Slots /\ obj[f] # "null"
      BY <2>1, GuidOnBoard, SlotFacts DEF IndInv
    <2>3. obj[f] # "dead"
      BY <1>2, <2>2 DEF FrameInv, CleanInv, Drain
    <2> QED BY <2>2, <2>3 DEF IndInv, TypeOK
  <1>8. ASSUME NEW e \in DeathEvents'
        PROVE  /\ queue'[e] = 1 /\ obj'[Victim(e)] = "alive"
               /\ e = EventAt("COLLISION_ENEMY", guid[PlayerBullet], currentTime, Victim(e))
    <2>1. PICK f \in hit :
             /\ e = EventAt("COLLISION_ENEMY", guid[PlayerBullet], currentTime, guid[f])
             /\ e \in S /\ e \notin Pending
      BY <1>6
    <2>2. Victim(e) = f /\ obj[f] = "alive" /\ guid[f] = f
      BY <1>7, <2>1 DEF EventAt, Victim
    <2>3. e \in Pending' /\ queue'[e] = 1
      BY <1>5, <2>1
    <2> QED BY <1>2, <2>1, <2>2, <2>3
  <1>9. \A e, f \in DeathEvents' : Victim(e) = Victim(f) => e = f
    BY <1>8
  <1> QED BY <1>8, <1>9 DEF DeathInv, Victim

\* A bullet passes its hit on: the death names the same enemy.
LEMMA DeathPassedOn ==
  ASSUME IndInv, DeathInv, NEW e \in Pending, BulletHitEnemy(e)
  PROVE  DeathInv'
  <1> DEFINE died == Event("ENEMY_DIED", e.intendedGUID, e.timestamp)
  <1>1. e.eventType = "COLLISION_ENEMY" /\ e \in DeathEvents /\ Victim(e) = e.intendedGUID
    BY DEF BulletHitEnemy, Handle, DeathEvents, PendingOf, Victim
  <1>2. queue[e] = 1 /\ obj[Victim(e)] = "alive"
    BY <1>1 DEF DeathInv
  <1>3. Target(e) \in Bullets
    BY <1>1, TargetIsAddressee DEF IndInv, QueueInv, AddressedTypes, MayGet
  <1>4. queue' = PopAndRaise(e, {died}) /\ Kill(Target(e))
    BY <1>3 DEF BulletHitEnemy, Done
  <1>5. died.eventType = "ENEMY_DIED" /\ Victim(died) = Victim(e)
    BY <1>1 DEF Event, EventAt, Victim
  <1> HIDE DEF died
  <1>6. died \notin Pending
    <2> SUFFICES ASSUME died \in Pending PROVE FALSE
      OBVIOUS
    <2>1. died \in DeathEvents
      BY <1>5 DEF DeathEvents, PendingOf
    <2>2. died = e
      BY <1>1, <1>5, <2>1 DEF DeathInv
    <2> QED BY <1>1, <1>5, <2>2
  <1>7. /\ Pending' = (Pending \ {e}) \cup {died}
        /\ \A f \in Pending' :
             queue'[f] = (IF f \in Pending THEN queue[f] ELSE 0)
                           - (IF f = e THEN 1 ELSE 0) + (IF f \in {died} THEN 1 ELSE 0)
    BY <1>2, <1>4, AfterHandling DEF IndInv
  <1>8. queue'[died] = 1 /\ \A f \in Pending \ {e} : queue'[f] = queue[f]
    <2>1. \A f \in Pending : queue[f] \in Nat /\ f # died
      BY <1>6 DEF IndInv, TypeOK
    <2>2. died # e
      BY <1>1, <1>5
    <2>3. queue'[died] = 0 - 0 + 1
      BY <1>6, <1>7, <2>2
    <2>4. ASSUME NEW f \in Pending \ {e}
          PROVE  queue'[f] = queue[f]
      <3>1. queue'[f] = queue[f] - 0 + 0
        BY <1>7, <2>1
      <3> QED BY <2>1, <3>1
    <2> QED BY <2>3, <2>4
  <1>9. \A s \in Enemies : obj'[s] = obj[s]
    BY <1>3, <1>4, BulletsAreNoEnemies, SlotFacts DEF Kill, IndInv, TypeOK
  <1>10. ASSUME NEW f \in DeathEvents'
         PROVE  f = died \/ (f \in DeathEvents /\ f # e)
    BY <1>7 DEF DeathEvents, PendingOf
  <1>11. ASSUME NEW f \in DeathEvents'
         PROVE  queue'[f] = 1 /\ obj'[Victim(f)] = "alive"
    <2>1. CASE f = died
      BY <1>1, <1>2, <1>5, <1>8, <1>9, <2>1, VictimIsEnemy
    <2>2. CASE f \in DeathEvents /\ f # e
      BY <1>8, <1>9, <2>2, VictimIsEnemy DEF DeathInv
    <2> QED BY <1>10, <2>1, <2>2
  <1>12. \A f, g \in DeathEvents' : Victim(f) = Victim(g) => f = g
    BY <1>1, <1>5, <1>10 DEF DeathInv
  <1> QED BY <1>11, <1>12 DEF DeathInv, Victim

\* An enemy that dies was alive, and its death is the only event to name it.
LEMMA DeathHandled ==
  ASSUME IndInv, DeathInv, NEW e \in Pending, EnemyDied(e)
  PROVE  /\ DeathInv'
         /\ Victim(e) \in Enemies /\ obj[Victim(e)] = "alive"
         /\ obj' = [obj EXCEPT ![Victim(e)] = "dead"]
  <1> DEFINE score == Event("UPDATE_SCORE", Broadcast, e.timestamp)
  <1>1. e.eventType = "ENEMY_DIED" /\ e \in DeathEvents /\ Victim(e) = e.associatedGUID
    BY DEF EnemyDied, Handle, DeathEvents, PendingOf, Victim
  <1>2. queue[e] = 1 /\ obj[Victim(e)] = "alive" /\ Victim(e) \in Enemies
    BY <1>1, VictimIsEnemy DEF DeathInv
  <1>3. Target(e) = Victim(e)
    BY <1>1, TargetIsAddressee DEF IndInv, QueueInv, AddressedTypes
  <1>4. queue' = PopAndRaise(e, {score}) /\ obj' = [obj EXCEPT ![Victim(e)] = "dead"]
    BY <1>3 DEF EnemyDied, Done, Kill
  <1>5. score.eventType = "UPDATE_SCORE"
    BY DEF Event, EventAt
  <1> HIDE DEF score
  <1>6. Pending' = (Pending \ {e}) \cup {score}
    BY <1>2, <1>4, AfterHandling DEF IndInv
  <1>7. ASSUME NEW f \in DeathEvents'
        PROVE  f \in DeathEvents /\ queue'[f] = queue[f] /\ obj'[Victim(f)] = obj[Victim(f)]
    <2>1. f \in Pending' /\ f.eventType \in {"COLLISION_ENEMY", "ENEMY_DIED"}
      BY DEF DeathEvents, PendingOf
    <2>2. f \in DeathEvents /\ f # e
      BY <1>5, <1>6, <2>1 DEF DeathEvents, PendingOf
    <2>3. Victim(f) # Victim(e) /\ Victim(f) \in Slots
      BY <1>1, <2>2, VictimIsEnemy DEF DeathInv
    <2>4. queue'[f] = queue[f]
      <3>1. queue'[f] = queue[f] - 0 + 0
        <4>1. f \in Pending /\ f # e /\ f \notin {score}
          BY <1>5, <2>1, <2>2 DEF DeathEvents, PendingOf
        <4> QED BY <1>4, <2>1, <4>1, AfterHandling DEF IndInv
      <3>2. queue[f] = 1
        BY <2>2 DEF DeathInv
      <3> QED BY <3>1, <3>2
    <2> QED BY <1>4, <2>2, <2>3, <2>4 DEF IndInv, TypeOK
  <1>8. DeathInv'
    BY <1>7, DeathsKept
  <1> QED BY <1>2, <1>4, <1>8

LEMMA DeathsHandled ==
  ASSUME IndInv, DeathInv, HandleEvent
  PROVE  DeathInv'
  <1>1. PICK e \in Pending :
          \/ BulletHitEnemy(e) \/ BulletHitPlayer(e) \/ BulletHitBound(e)
          \/ Reposition(e) \/ EnemyTouchesPlayer(e) \/ EnemyDied(e)
          \/ EnemyShoots(e) \/ PlayerShoots(e) \/ PlayerDied(e)
          \/ PlayerShielded(e) \/ SendRequest(e)
    BY DEF HandleEvent
  <1>2. CASE BulletHitEnemy(e) \/ EnemyDied(e)
    BY <1>2, DeathPassedOn, DeathHandled
  <1>3. CASE ~(BulletHitEnemy(e) \/ EnemyDied(e))
    <2>1. e.eventType \notin {"COLLISION_ENEMY", "ENEMY_DIED"}
      BY <1>1, <1>3 DEF BulletHitPlayer, BulletHitBound, Reposition,
         EnemyTouchesPlayer, EnemyShoots, PlayerShoots, PlayerDied, PlayerShielded,
         SendRequest, Handle
    <2>2. PICK S : /\ queue' = PopAndRaise(e, S)
                   /\ \A f \in S : <<e.eventType, f.eventType>> \in Causes
      BY <1>1, HandlerCauses
    <2>3. \A t \in {"COLLISION_ENEMY", "ENEMY_DIED"} :
            /\ PendingOf(t)' = PendingOf(t)
            /\ \A f \in PendingOf(t) : queue'[f] = queue[f]
      BY <2>1, <2>2, HandlingKeepsType DEF Causes, IndInv
    <2>4. \A f \in DeathEvents : obj'[Victim(f)] = obj[Victim(f)]
      <3> SUFFICES ASSUME NEW f \in DeathEvents PROVE obj'[Victim(f)] = obj[Victim(f)]
        OBVIOUS
      <3>1. Victim(f) \in Enemies /\ Victim(f) \in Slots
        BY VictimIsEnemy
      <3>2. \/ UNCHANGED obj
            \/ \E b \in Bullets : \E state : obj' = [obj EXCEPT ![b] = state]
        <4>1. CASE EnemyShoots(e) \/ PlayerShoots(e)
          BY <4>1 DEF EnemyShoots, PlayerShoots, AddBullet, AddAndRegister, Bullets,
             EnemyBullets
        <4>2. CASE EnemyTouchesPlayer(e) \/ ~(BulletHitPlayer(e) \/ BulletHitBound(e))
          BY <1>1, <1>3, <4>1, <4>2 DEF Reposition, EnemyTouchesPlayer, PlayerDied,
             PlayerShielded, SendRequest, boardVars
        <4>3. CASE BulletHitPlayer(e)
          BY <4>3 DEF BulletHitPlayer, Kill
        <4>4. CASE BulletHitBound(e)
          <5>1. Target(e) \in Bullets
            BY <4>4, TargetIsAddressee
            DEF BulletHitBound, Handle, IndInv, QueueInv, AddressedTypes, MayGet
          <5> QED BY <4>4, <5>1 DEF BulletHitBound, Kill
        <4> QED BY <4>2, <4>3, <4>4
      <3> QED BY <3>1, <3>2, BulletsAreNoEnemies DEF IndInv, TypeOK
    <2> QED BY <2>3, <2>4, DeathTypesKept
  <1> QED BY <1>2, <1>3

\* Outside the drain no pending event of another type changes.
LEMMA MainLoopKeepsType ==
  ASSUME IndInv, [Next]_vars, ~HandleEvent,
         NEW t, t \notin {"SHOOT_LANE", "SHOOT_RANDOM"} \cup InputTypes \cup MovementTypes,
         CheckCollisions => t \notin CollisionTypes, CheckWinConditions => t # "WON"
  PROVE  /\ PendingOf(t)' = PendingOf(t)
         /\ \A f \in PendingOf(t) : queue'[f] = queue[f]
  <1>1. CASE ReadInput
    <2> DEFINE move == Event("KEYBOARD_INPUT", guid[Player], 0)
               shoot == Event("SHOOT", guid[Player], 0)
    <2>1. /\ Pending' \subseteq Pending \cup {move, shoot} /\ Pending \subseteq Pending'
          /\ \A f \in Pending \ {move, shoot} : queue'[f] = queue[f]
      BY <1>1, InputRaised DEF IndInv
    <2>2. move.eventType # t /\ shoot.eventType # t
      BY DEF Event, EventAt, InputTypes
    <2> HIDE DEF move, shoot
    <2> QED BY <2>1, <2>2 DEF PendingOf
  <1>2. CASE \/ CheckCollisions \/ DoMovement \/ ShootLane \/ CheckWinConditions
             \/ (\E col \in Columns : SearchHits(col))
    <2>1. PICK S : queue' = Raise(S) /\ \A f \in S : f.eventType # t
      <3>1. CASE CheckCollisions
        BY <3>1, CollisionTypesRaised DEF CheckCollisions
      <3>2. CASE DoMovement
        BY <3>2, MovementTypesRaised DEF DoMovement
      <3>3. CASE ShootLane
        BY <3>3 DEF ShootLane, Event, EventAt
      <3>4. CASE CheckWinConditions
        BY <3>4 DEF CheckWinConditions, WinEvents, Event, EventAt
      <3>5. CASE \E col \in Columns : SearchHits(col)
        BY <3>5 DEF SearchHits, Event, EventAt
      <3> QED BY <1>2, <3>1, <3>2, <3>3, <3>4, <3>5
    <2> QED BY <2>1, RaisingKeepsType DEF IndInv
  <1>3. ASSUME UNCHANGED queue
        PROVE  /\ PendingOf(t)' = PendingOf(t)
               /\ \A f \in PendingOf(t) : queue'[f] = queue[f]
    BY <1>3 DEF PendingOf, Pending
  <1>4. CASE \/ RunScripts \/ ScriptFails \/ ReadClock \/ NobodyToShoot
             \/ LaneTaken \/ DrawRandomShot \/ NoRandomShot
             \/ (\E col \in Columns : SearchMisses(col))
    BY <1>3, <1>4 DEF RunScripts, ScriptFails, ReadClock, NobodyToShoot,
       LaneTaken, DrawRandomShot, NoRandomShot, SearchMisses, managerVars
  <1>5. CASE EndOfDrain \/ ReplyArrives \/ DrawGameBoard \/ CleanUp \/ NextFrame \/ CloseWindow
    BY <1>3, <1>5 DEF EndOfDrain, ReplyArrives, ScoreAcknowledged, LivesLeft,
       NoLivesLeft, WinnerAcknowledged, DrawGameBoard, CleanUp, NextFrame,
       CloseWindow, managerVars
  <1>6. CASE ServerStep \/ UNCHANGED vars
    BY <1>3, <1>6 DEF ServerStep, vars, managerVars
  <1> QED BY <1>1, <1>2, <1>4, <1>5, <1>6 DEF Next, ClientStep, Ended

LEMMA DeathsNext == IndInv /\ FrameInv /\ DeathInv /\ [Next]_vars => DeathInv'
  <1> SUFFICES ASSUME IndInv, FrameInv, DeathInv, [Next]_vars PROVE DeathInv'
    OBVIOUS
  <1>1. CASE CleanUp
    <2>1. Pending' = {}
      BY <1>1 DEF CleanUp, Advance, IndInv, DrainedInv, Pending
    <2> QED BY <2>1 DEF DeathInv, DeathEvents, PendingOf
  <1>2. CASE ~(HandleEvent \/ CheckCollisions \/ CleanUp)
    <2>1. UNCHANGED obj
      BY <1>2, BoardKept DEF boardVars
    <2>2. \A t \in {"COLLISION_ENEMY", "ENEMY_DIED"} :
            /\ PendingOf(t)' = PendingOf(t)
            /\ \A f \in PendingOf(t) : queue'[f] = queue[f]
      BY <1>2, MainLoopKeepsType DEF InputTypes, MovementTypes
    <2> QED BY <2>1, <2>2, DeathTypesKept
  <1> QED BY <1>1, <1>2, DeathsHandled, DeathsOfHits

-----------------------------------------------------------------------------
(***************************************************************************)
(* The points.  CopySet is the set of the pending copies of an event type: *)
(* raising one adds a member, and taking one off the queue removes one.    *)
(***************************************************************************)
LEMMA CopyIn ==
  ASSUME NEW t, NEW c
  PROVE  c \in CopySet(t) <=> \E e \in PendingOf(t) : \E k \in 1..queue[e] : c = <<e, k>>
  BY DEF CopySet

LEMMA CopiesKept ==
  ASSUME NEW t, PendingOf(t)' = PendingOf(t),
         \A f \in PendingOf(t) : queue'[f] = queue[f]
  PROVE  CopySet(t)' = CopySet(t)
  BY DEF CopySet

LEMMA CopyRaised ==
  ASSUME TypeOK, NEW e \in Pending, NEW f, NEW t, e.eventType # t, f.eventType = t,
         queue' = PopAndRaise(e, {f}), IsFiniteSet(CopySet(t))
  PROVE  IsFiniteSet(CopySet(t)') /\ Cardinality(CopySet(t)') = Cardinality(CopySet(t)) + 1
  <1> DEFINE n == IF f \in Pending THEN queue[f] ELSE 0
             new == <<f, n + 1>>
  <1>1. /\ Pending' = (IF queue[e] = 1 THEN Pending \ {e} ELSE Pending) \cup {f}
        /\ \A g \in Pending' :
             queue'[g] = (IF g \in Pending THEN queue[g] ELSE 0)
                           - (IF g = e THEN 1 ELSE 0) + (IF g \in {f} THEN 1 ELSE 0)
    BY AfterHandling
  <1>2. \A g \in Pending : queue[g] \in Nat \ {0}
    BY DEF TypeOK
  <1>3. n \in Nat
    BY <1>2
  <1>4. PendingOf(t)' = PendingOf(t) \cup {f}
    BY <1>1 DEF PendingOf
  <1>5. queue'[f] = n + 1
    <2>1. f \in Pending' /\ f # e
      BY <1>1
    <2>2. queue'[f] = n - 0 + 1
      BY <1>1, <2>1
    <2> QED BY <1>3, <2>2
  <1>6. ASSUME NEW g \in PendingOf(t), g # f
        PROVE  queue'[g] = queue[g]
    <2>1. g \in Pending /\ g # e /\ g \in Pending' /\ g \notin {f}
      BY <1>1, <1>6 DEF PendingOf
    <2>2. queue'[g] = queue[g] - 0 + 0
      BY <1>1, <2>1
    <2> QED BY <1>2, <2>1, <2>2
  <1>7. \A k : f \in PendingOf(t) => (k \in 1..queue[f] <=> k \in 1..n)
    BY DEF PendingOf
  <1>8. f \notin PendingOf(t) => n = 0
    BY DEF PendingOf
  <1> HIDE DEF n
  <1>9. ASSUME NEW c
        PROVE  c \in CopySet(t)' <=> c \in CopySet(t) \cup {new}
    <2>1. c \in CopySet(t)' <=> \E g \in PendingOf(t)' : \E k \in 1..queue'[g] : c = <<g, k>>
      BY DEF CopySet
    <2>2. \A k : k \in 1..(n + 1) <=> k \in 1..n \/ k = n + 1
      BY <1>3
    <2>3. \A k : k \in 1..n => f \in PendingOf(t)
      BY <1>8
    <2>4. c \in CopySet(t) <=>
            \/ \E g \in PendingOf(t) \ {f} : \E k \in 1..queue[g] : c = <<g, k>>
            \/ \E k \in 1..n : c = <<f, k>>
      BY <1>7, <2>3, CopyIn
    <2>5. c \in CopySet(t)' <=>
            \/ \E g \in PendingOf(t) \ {f} : \E k \in 1..queue[g] : c = <<g, k>>
            \/ \E k \in 1..(n + 1) : c = <<f, k>>
      BY <1>4, <1>5, <1>6, <2>1
    <2> QED BY <2>2, <2>4, <2>5
  <1>10. new \notin CopySet(t)
    <2> SUFFICES ASSUME new \in CopySet(t) PROVE FALSE
      OBVIOUS
    <2>1. PICK g \in PendingOf(t) : \E k \in 1..queue[g] : new = <<g, k>>
      BY CopyIn
    <2>2. g = f /\ n + 1 \in 1..queue[g]
      BY <2>1
    <2>3. n + 1 \in 1..n
      BY <1>7, <2>2
    <2> QED BY <1>3, <2>3
  <1>11. CopySet(t)' = CopySet(t) \cup {new}
    BY <1>9
  <1> HIDE DEF new
  <1> QED BY <1>10, <1>11, FS_AddElement

LEMMA CopyPopped ==
  ASSUME TypeOK, NEW t, NEW e \in PendingOf(t), queue' = PopAndRaise(e, {}),
         IsFiniteSet(CopySet(t))
  PROVE  IsFiniteSet(CopySet(t)') /\ Cardinality(CopySet(t)') = Cardinality(CopySet(t)) - 1
  <1> DEFINE n == queue[e]
             old == <<e, n>>
  <1>1. e \in Pending /\ \A g \in Pending : queue[g] \in Nat \ {0}
    BY DEF TypeOK, PendingOf
  <1>2. /\ Pending' = (IF n = 1 THEN Pending \ {e} ELSE Pending)
        /\ \A g \in Pending' :
             queue'[g] = (IF g \in Pending THEN queue[g] ELSE 0)
                           - (IF g = e THEN 1 ELSE 0) + (IF g \in {} THEN 1 ELSE 0)
    BY <1>1, AfterHandling
  <1>3. n \in Nat \ {0}
    BY <1>1
  <1>4. PendingOf(t)' = (IF n = 1 THEN PendingOf(t) \ {e} ELSE PendingOf(t))
    BY <1>2 DEF PendingOf
  <1>5. n # 1 => queue'[e] = n - 1
    <2> SUFFICES ASSUME n # 1 PROVE queue'[e] = n - 1
      OBVIOUS
    <2>1. queue'[e] = n - 1 + 0
      BY <1>1, <1>2
    <2> QED BY <1>3, <2>1
  <1>6. ASSUME NEW g \in PendingOf(t), g # e
        PROVE  queue'[g] = queue[g]
    <2>1. g \in Pending /\ g \in Pending'
      BY <1>2, <1>6 DEF PendingOf
    <2>2. queue'[g] = queue[g] - 0 + 0
      BY <1>2, <1>6, <2>1
    <2> QED BY <1>1, <2>1, <2>2
  <1>7. old \in CopySet(t)
    <2>1. n \in 1..queue[e]
      BY <1>3
    <2> HIDE DEF n
    <2> QED BY <2>1, CopyIn
  <1>8. \A c : c \in CopySet(t) <=>
                 \/ \E g \in PendingOf(t) \ {e} : \E k \in 1..queue[g] : c = <<g, k>>
                 \/ \E k \in 1..n : c = <<e, k>>
    BY CopyIn
  <1> HIDE DEF n
  <1>9. ASSUME NEW c
        PROVE  c \in CopySet(t)' <=> c \in CopySet(t) \ {old}
    <2>1. c \in CopySet(t)' <=> \E g \in PendingOf(t)' : \E k \in 1..queue'[g] : c = <<g, k>>
      BY DEF CopySet
    <2>2. \A k : k \in 1..(n - 1) <=> k \in 1..n /\ k # n
      BY <1>3
    <2>3. n = 1 => 1..(n - 1) = {}
      OBVIOUS
    <2>4. c \in CopySet(t)' <=>
            \/ \E g \in PendingOf(t) \ {e} : \E k \in 1..queue[g] : c = <<g, k>>
            \/ \E k \in 1..(n - 1) : c = <<e, k>>
      <3>1. CASE n = 1
        BY <1>4, <1>6, <2>1, <2>3, <3>1
      <3>2. CASE n # 1
        BY <1>4, <1>5, <1>6, <2>1, <3>2
      <3> QED BY <3>1, <3>2
    <2> QED BY <1>8, <2>2, <2>4
  <1>10. CopySet(t)' = CopySet(t) \ {old}
    BY <1>9
  <1> HIDE DEF old
  <1> QED BY <1>7, <1>10, FS_RemoveElement

-----------------------------------------------------------------------------
(***************************************************************************)
(* The account: enemies destroyed, points counted, points on their way.    *)
(***************************************************************************)
InFlight == IF socket = "sent" /\ request = ADD_POINTS THEN 1 ELSE 0

AccountInv == IsFiniteSet(CopySet("UPDATE_SCORE")) /\ ScoreAccounts

\* Only the death of an enemy changes which enemies are destroyed.
LEMMA DestroyedKept ==
  ASSUME IndInv, [Next]_vars, ~\E e \in Pending : EnemyDied(e)
  PROVE  Destroyed' = Destroyed
  <1>1. CASE ~HandleEvent /\ ~CleanUp
    BY <1>1, BoardKept DEF boardVars, Destroyed
  <1>2. CASE CleanUp
    <2>1. obj' = [s \in Slots |-> IF obj[s] = "dead" THEN "null" ELSE obj[s]]
      BY <1>2 DEF CleanUp, CleanUpObjects
    <2> QED BY <2>1, SlotFacts DEF Destroyed, IndInv, TypeOK
  <1>3. CASE HandleEvent
    <2>1. PICK e \in Pending :
            \/ BulletHitEnemy(e) \/ BulletHitPlayer(e) \/ BulletHitBound(e)
            \/ Reposition(e) \/ EnemyTouchesPlayer(e)
            \/ EnemyShoots(e) \/ PlayerShoots(e) \/ PlayerDied(e)
            \/ PlayerShielded(e) \/ SendRequest(e)
      BY <1>3 DEF HandleEvent
    <2>2. \/ UNCHANGED obj
          \/ \E b \in Bullets : \E state : obj' = [obj EXCEPT ![b] = state]
      <3>1. CASE EnemyShoots(e) \/ PlayerShoots(e)
        BY <3>1 DEF EnemyShoots, PlayerShoots, AddBullet, AddAndRegister, Bullets,
           EnemyBullets
      <3>2. CASE BulletHitPlayer(e)
        BY <3>2 DEF BulletHitPlayer, Kill
      <3>3. CASE BulletHitEnemy(e) \/ BulletHitBound(e)
        <4>1. Target(e) \in Bullets
          BY <3>3, TargetIsAddressee
          DEF BulletHitEnemy, BulletHitBound, Handle, IndInv, QueueInv, AddressedTypes,
              MayGet
        <4> QED BY <3>3, <4>1 DEF BulletHitEnemy, BulletHitBound, Kill
      <3>4. CASE \/ Reposition(e) \/ EnemyTouchesPlayer(e) \/ PlayerDied(e)
                 \/ PlayerShielded(e) \/ SendRequest(e)
        BY <3>4 DEF Reposition, EnemyTouchesPlayer, PlayerDied, PlayerShielded,
           SendRequest, boardVars
      <3> QED BY <2>1, <3>1, <3>2, <3>3, <3>4
    <2>3. \A s \in Enemies : obj'[s] = obj[s]
      BY <2>2, BulletsAreNoEnemies, SlotFacts DEF IndInv, TypeOK
    <2> QED BY <2>3 DEF Destroyed
  <1> QED BY <1>1, <1>2, <1>3

LEMMA DestroyedFinite ==
  /\ IsFiniteSet(Destroyed) /\ Cardinality(Destroyed) \in Nat
  /\ Cardinality(Destroyed) <= ENEMY_MAX
  /\ Cardinality(Destroyed) = ENEMY_MAX => Destroyed = Enemies
  <1>1. Destroyed \in SUBSET Enemies
    BY DEF Destroyed
  <1> QED BY <1>1, FormationFinite, FS_Subset, FS_CardinalityType

\* A step that changes no term of the account.
LEMMA AccountKept ==
  ASSUME AccountInv, Destroyed' = Destroyed, UNCHANGED points, InFlight' = InFlight,
         CopySet("UPDATE_SCORE")' = CopySet("UPDATE_SCORE")
  PROVE  AccountInv'
  BY DEF AccountInv, ScoreAccounts, Copies, InFlight

\* An enemy that dies is one more destroyed and one more point on its way.
LEMMA EnemyDiedAccount ==
  ASSUME IndInv, DeathInv, AccountInv, NEW e \in Pending, EnemyDied(e)
  PROVE  /\ AccountInv'
         /\ Cardinality(Destroyed)' = Cardinality(Destroyed) + 1
         /\ UNCHANGED <<points, outcome, socket, request>> /\ pc = "dispatch"
  <1>1. /\ Victim(e) \in Enemies /\ obj[Victim(e)] = "alive"
        /\ obj' = [obj EXCEPT ![Victim(e)] = "dead"]
    BY DeathHandled
  <1>2. Destroyed' = Destroyed \cup {Victim(e)} /\ Victim(e) \notin Destroyed
    BY <1>1, SlotFacts DEF Destroyed, IndInv, TypeOK
  <1>3. Cardinality(Destroyed') = Cardinality(Destroyed) + 1
    BY <1>2, DestroyedFinite, FS_AddElement
  <1> DEFINE score == Event("UPDATE_SCORE", Broadcast, e.timestamp)
  <1>4. queue' = PopAndRaise(e, {score}) /\ e.eventType # "UPDATE_SCORE"
    BY DEF EnemyDied, Handle, Done
  <1>5. score.eventType = "UPDATE_SCORE"
    BY DEF Event, EventAt
  <1> HIDE DEF score
  <1>6. /\ IsFiniteSet(CopySet("UPDATE_SCORE")')
        /\ Cardinality(CopySet("UPDATE_SCORE")') = Cardinality(CopySet("UPDATE_SCORE")) + 1
    BY <1>4, <1>5, CopyRaised DEF AccountInv, IndInv
  <1>7. UNCHANGED <<points, outcome, socket, request>> /\ pc = "dispatch"
    BY DEF EnemyDied, Handle, Done, linkVars, controlVars
  <1>8. /\ Cardinality(Destroyed) \in Nat /\ points \in Nat
        /\ Cardinality(CopySet("UPDATE_SCORE")) \in Nat
    BY DestroyedFinite, FS_CardinalityType DEF AccountInv, IndInv, TypeOK
  <1> QED BY <1>3, <1>6, <1>7, <1>8 DEF AccountInv, ScoreAccounts, Copies

\* The request takes a point from the queue onto the wire.
LEMMA SendRequestAccount ==
  ASSUME IndInv, FrameInv, AccountInv, NEW e \in Pending, SendRequest(e),
         Destroyed' = Destroyed
  PROVE  AccountInv'
  <1>1. /\ pc = "dispatch" /\ UNCHANGED points /\ queue' = PopAndRaise(e, {})
        /\ e.eventType \in {"UPDATE_SCORE", "PLAYER_LOST_LIFE", "WON"}
        /\ socket' = "sent" /\ request' = RequestFor(e.eventType)
    BY DEF SendRequest, Handle, Send
  <1>2. InFlight = 0
    BY <1>1 DEF IndInv, ReqLockstep, InFlight
  <1>3. CASE e.eventType = "UPDATE_SCORE"
    <2>1. InFlight' = 1
      BY <1>1, <1>3 DEF InFlight, RequestFor
    <2>2. /\ IsFiniteSet(CopySet("UPDATE_SCORE")')
          /\ Cardinality(CopySet("UPDATE_SCORE")') = Cardinality(CopySet("UPDATE_SCORE")) - 1
      BY <1>1, <1>3, CopyPopped DEF AccountInv, IndInv, PendingOf
    <2>3. /\ Cardinality(Destroyed) \in Nat /\ points \in Nat
          /\ Cardinality(CopySet("UPDATE_SCORE")) \in Nat
      BY DestroyedFinite, FS_CardinalityType DEF AccountInv, IndInv, TypeOK
    <2> QED BY <1>1, <1>2, <2>1, <2>2, <2>3 DEF AccountInv, ScoreAccounts, Copies, InFlight
  <1>4. CASE e.eventType # "UPDATE_SCORE"
    <2>1. InFlight' = 0
      BY <1>1, <1>4 DEF InFlight, RequestFor, ADD_POINTS, PLAYER_DEAD, WINNER
    <2>2. CopySet("UPDATE_SCORE")' = CopySet("UPDATE_SCORE")
      BY <1>1, <1>4, HandlingKeepsType, CopiesKept DEF IndInv
    <2> QED BY <1>1, <1>2, <2>1, <2>2, AccountKept
  <1> QED BY <1>3, <1>4

LEMMA AccountHandled ==
  ASSUME IndInv, FrameInv, DeathInv, AccountInv, HandleEvent
  PROVE  AccountInv'
  <1>1. PICK e \in Pending :
          \/ BulletHitEnemy(e) \/ BulletHitPlayer(e) \/ BulletHitBound(e)
          \/ Reposition(e) \/ EnemyTouchesPlayer(e) \/ EnemyDied(e)
          \/ EnemyShoots(e) \/ PlayerShoots(e) \/ PlayerDied(e)
          \/ PlayerShielded(e) \/ SendRequest(e)
    BY DEF HandleEvent
  <1>2. CASE \E f \in Pending : EnemyDied(f)
    BY <1>2, EnemyDiedAccount
  <1>3. CASE ~\E f \in Pending : EnemyDied(f)
    <2>1. Destroyed' = Destroyed
      BY <1>3, DestroyedKept DEF Next, ClientStep
    <2>2. CASE SendRequest(e)
      BY <2>1, <2>2, SendRequestAccount
    <2>3. CASE ~SendRequest(e)
      <3>1. UNCHANGED linkVars /\ e.eventType \notin {"UPDATE_SCORE", "ENEMY_DIED"}
        BY <1>1, <1>3, <2>3 DEF BulletHitEnemy, BulletHitPlayer, BulletHitBound,
           Reposition, EnemyTouchesPlayer, EnemyShoots, PlayerShoots, PlayerDied,
           PlayerShielded, Handle
      <3>2. PICK S : /\ queue' = PopAndRaise(e, S)
                     /\ \A f \in S : <<e.eventType, f.eventType>> \in Causes
        BY <1>1, HandlerCauses
      <3>3. CopySet("UPDATE_SCORE")' = CopySet("UPDATE_SCORE")
        BY <3>1, <3>2, HandlingKeepsType, CopiesKept DEF Causes, IndInv
      <3> QED BY <2>1, <3>1, <3>3, AccountKept DEF linkVars, InFlight
    <2> QED BY <2>2, <2>3
  <1> QED BY <1>2, <1>3

\* The server counts the point that is on the wire.
LEMMA ServerAccount ==
  ASSUME IndInv, AccountInv, ServerStep, Destroyed' = Destroyed
  PROVE  AccountInv'
  <1>1. /\ UNCHANGED <<queue, request>> /\ socket = "sent" /\ socket' = "answered"
        /\ points' = points + (IF request = ADD_POINTS THEN 1 ELSE 0)
    BY DEF ServerStep, ServerReply, managerVars
  <1>2. InFlight' = 0 /\ points' = points + InFlight
    BY <1>1 DEF InFlight
  <1>3. CopySet("UPDATE_SCORE")' = CopySet("UPDATE_SCORE")
    BY <1>1, CopiesKept DEF PendingOf, Pending
  <1>4. /\ points \in Nat /\ Cardinality(CopySet("UPDATE_SCORE")) \in Nat
        /\ InFlight \in Nat
    BY FS_CardinalityType DEF AccountInv, IndInv, TypeOK, InFlight
  <1>5. Cardinality(Destroyed) = points + Cardinality(CopySet("UPDATE_SCORE")) + InFlight
    BY DEF AccountInv, ScoreAccounts, Copies, InFlight
  <1>6. Cardinality(Destroyed') = points' + Cardinality(CopySet("UPDATE_SCORE")') + InFlight'
    BY <1>2, <1>3, <1>4, <1>5
  <1> QED BY <1>3, <1>6 DEF AccountInv, ScoreAccounts, Copies, InFlight

LEMMA AccountNext ==
  IndInv /\ FrameInv /\ DeathInv /\ AccountInv /\ [Next]_vars => AccountInv'
  <1> SUFFICES ASSUME IndInv, FrameInv, DeathInv, AccountInv, [Next]_vars
               PROVE  AccountInv'
    OBVIOUS
  <1>1. CASE ~HandleEvent /\ ~ServerStep
    <2>1. CopySet("UPDATE_SCORE")' = CopySet("UPDATE_SCORE")
      BY <1>1, MainLoopKeepsType, CopiesKept
      DEF InputTypes, MovementTypes, CollisionTypes
    <2>2. (~\E e \in Pending : EnemyDied(e)) => Destroyed' = Destroyed
      BY DestroyedKept
    <2>3. UNCHANGED points /\ InFlight' = InFlight
      <3>1. CASE ReplyArrives
        BY <3>1 DEF ReplyArrives, ScoreAcknowledged, LivesLeft, NoLivesLeft,
           WinnerAcknowledged, Receive, InFlight
      <3>2. CASE \/ RunScripts \/ ScriptFails \/ ReadInput \/ ReadClock
                 \/ CheckCollisions \/ DoMovement \/ ShootLane \/ NobodyToShoot
                 \/ LaneTaken \/ DrawRandomShot \/ NoRandomShot
        <4>1. UNCHANGED linkVars
          BY <3>2 DEF RunScripts, ScriptFails, ReadInput, ReadClock, CheckCollisions,
             DoMovement, ShootLane, NobodyToShoot, LaneTaken, DrawRandomShot, NoRandomShot
        <4> QED BY <4>1 DEF linkVars, InFlight
      <3>3. CASE \/ (\E col \in Columns : SearchHits(col) \/ SearchMisses(col))
                 \/ EndOfDrain \/ DrawGameBoard \/ CheckWinConditions \/ CleanUp
                 \/ NextFrame \/ CloseWindow \/ UNCHANGED vars
        <4>1. UNCHANGED linkVars
          BY <3>3 DEF SearchHits, SearchMisses, EndOfDrain, DrawGameBoard,
             CheckWinConditions, CleanUp, NextFrame, CloseWindow, vars
        <4> QED BY <4>1 DEF linkVars, InFlight
      <3> QED BY <1>1, <3>1, <3>2, <3>3 DEF Next, ClientStep, Ended
    <2>4. CASE \E e \in Pending : EnemyDied(e)
      BY <2>4, EnemyDiedAccount
    <2> QED BY <2>1, <2>2, <2>3, <2>4, AccountKept
  <1>2. CASE ServerStep /\ ~HandleEvent
    <2>1. CASE \E e \in Pending : EnemyDied(e)
      BY <2>1, EnemyDiedAccount
    <2>2. CASE ~\E e \in Pending : EnemyDied(e)
      BY <1>2, <2>2, DestroyedKept, ServerAccount
    <2> QED BY <2>1, <2>2
  <1> QED BY <1>1, <1>2, AccountHandled

LEMMA AccountInit == Init => AccountInv
  <1> SUFFICES ASSUME Init PROVE AccountInv
    OBVIOUS
  <1>1. Pending = {} /\ points = 0 /\ socket = "idle"
    BY DEF Init, Pending, EmptyBag, SetToBag, LinkInit
  <1>2. CopySet("UPDATE_SCORE") = {}
    BY <1>1 DEF CopySet, PendingOf
  <1>3. Destroyed = {}
    BY BulletsAreNoEnemies, SlotFacts DEF Init, BoardInit, Destroyed
  <1> QED BY <1>1, <1>2, <1>3, FS_EmptySet DEF AccountInv, ScoreAccounts, Copies

-----------------------------------------------------------------------------
(***************************************************************************)
(* The win.  WON is raised when the board has no enemy left, when nothing  *)
(* is pending or under way: so every enemy is destroyed and counted.       *)
(***************************************************************************)
LEMMA WinRaised ==
  ASSUME IndInv, FrameInv, CountersAgree, AccountInv, WinInv, CheckWinConditions
  PROVE  WinInv'
  <1>1. /\ pc = "checkWin" /\ UNCHANGED <<points, request, outcome>>
        /\ queue' = Raise(WinEvents(currentTime))
    BY DEF CheckWinConditions, Advance, linkVars
  <1>2. CASE NobodyLeft
    <2>1. Pending = {} /\ socket = "idle"
      BY <1>1 DEF IndInv, DrainedInv, ReqLockstep
    <2>2. CopySet("UPDATE_SCORE") = {}
      BY <2>1 DEF CopySet, PendingOf
    <2>3. Cardinality(Destroyed) = points
      BY <2>1, <2>2, FS_EmptySet DEF AccountInv, ScoreAccounts, Copies, IndInv, TypeOK
    <2>4. OnBoard(Enemies) = {}
      <3>1. IsFiniteSet(OnBoard(Enemies)) /\ Cardinality(OnBoard(Enemies)) = 0
        BY <1>2, FormationFinite, FS_Subset DEF OnBoard, CountersAgree, NobodyLeft
      <3> QED BY <3>1, FS_EmptySet
    <2>5. Destroyed = Enemies
      BY <2>4 DEF OnBoard, Destroyed
    <2> QED BY <1>1, <2>3, <2>5, FormationFinite DEF WinInv
  <1>3. CASE ~NobodyLeft
    <2>1. Pending' = Pending
      BY <1>1, <1>3, AfterRaise DEF WinEvents, IndInv
    <2> QED BY <1>1, <2>1 DEF WinInv, WinDecided, PendingOf
  <1> QED BY <1>2, <1>3

\* A complete score leaves no point for the server to count.
LEMMA WinCounted ==
  ASSUME IndInv, AccountInv, WinInv, ServerStep
  PROVE  WinInv'
  <1>1. /\ UNCHANGED <<queue, request, outcome>> /\ socket = "sent"
        /\ points' = points + (IF request = ADD_POINTS THEN 1 ELSE 0)
    BY DEF ServerStep, ServerReply, managerVars, controlVars
  <1>2. WinDecided' => WinDecided
    BY <1>1 DEF WinDecided, PendingOf, Pending
  <1>3. request = ADD_POINTS => points < ENEMY_MAX
    <2>1. /\ points \in Nat /\ Cardinality(Destroyed) \in Nat
          /\ Cardinality(CopySet("UPDATE_SCORE")) \in Nat /\ ENEMY_MAX \in Nat
      BY DestroyedFinite, FormationFinite, FS_CardinalityType
      DEF AccountInv, IndInv, TypeOK
    <2> QED BY <1>1, <2>1, DestroyedFinite DEF AccountInv, ScoreAccounts, Copies
  <1>4. request # ADD_POINTS => points' = points
    BY <1>1 DEF IndInv, TypeOK
  <1>5. ENEMY_MAX \in Nat
    BY FormationFinite
  <1> QED BY <1>2, <1>3, <1>4, <1>5 DEF WinInv

\* No other step decides the match or counts a point.
LEMMA WinKept ==
  ASSUME IndInv, [Next]_vars, ~CheckWinConditions, ~ServerStep
  PROVE  UNCHANGED points /\ (WinDecided' => WinDecided)
  <1>1. CASE HandleEvent
    <2>1. PICK e \in Pending :
            \/ BulletHitEnemy(e) \/ BulletHitPlayer(e) \/ BulletHitBound(e)
            \/ Reposition(e) \/ EnemyTouchesPlayer(e) \/ EnemyDied(e)
            \/ EnemyShoots(e) \/ PlayerShoots(e) \/ PlayerDied(e)
            \/ PlayerShielded(e) \/ SendRequest(e)
      BY <1>1 DEF HandleEvent
    <2>2. PICK S : /\ queue' = PopAndRaise(e, S)
                   /\ \A f \in S : <<e.eventType, f.eventType>> \in Causes
      BY <2>1, HandlerCauses
    <2>3. PendingOf("WON")' \subseteq PendingOf("WON")
      <3>1. Pending' \subseteq Pending \cup S
        BY <2>2, AfterHandling DEF IndInv
      <3> QED BY <2>2, <3>1 DEF PendingOf, Causes
    <2>4. UNCHANGED <<points, outcome>>
      <3>1. CASE SendRequest(e)
        BY <3>1 DEF SendRequest, Send
      <3>2. CASE ~SendRequest(e)
        BY <2>1, <3>2 DEF BulletHitEnemy, BulletHitPlayer, BulletHitBound, Reposition,
           EnemyTouchesPlayer, EnemyDied, EnemyShoots, PlayerShoots, PlayerDied,
           PlayerShielded, Done, linkVars, controlVars
      <3> QED BY <3>1, <3>2
    <2>5. request' = WINNER => request = WINNER \/ PendingOf("WON") # {}
      <3>1. CASE SendRequest(e)
        <4>1. request' = RequestFor(e.eventType)
                /\ e.eventType \in {"UPDATE_SCORE", "PLAYER_LOST_LIFE", "WON"}
          BY <3>1 DEF SendRequest, Send, Handle
        <4>2. request' = WINNER => e.eventType = "WON"
          BY <4>1 DEF RequestFor, ADD_POINTS, PLAYER_DEAD, WINNER
        <4> QED BY <4>2 DEF PendingOf
      <3>2. CASE ~SendRequest(e)
        BY <2>1, <3>2 DEF BulletHitEnemy, BulletHitPlayer, BulletHitBound, Reposition,
           EnemyTouchesPlayer, EnemyDied, EnemyShoots, PlayerShoots, PlayerDied,
           PlayerShielded, linkVars
      <3> QED BY <3>1, <3>2
    <2> QED BY <2>3, <2>4, <2>5 DEF WinDecided
  <1>2. CASE ~HandleEvent
    <2>1. PendingOf("WON")' = PendingOf("WON")
      BY <1>2, MainLoopKeepsType DEF InputTypes, MovementTypes, CollisionTypes
    <2>2. CASE \/ RunScripts \/ ReadInput \/ ReadClock \/ CheckCollisions \/ DoMovement
               \/ ShootLane \/ NobodyToShoot \/ LaneTaken \/ DrawRandomShot
               \/ NoRandomShot
      <3>1. UNCHANGED <<linkVars, outcome>>
        BY <2>2 DEF RunScripts, ReadInput, ReadClock, CheckCollisions, DoMovement,
           ShootLane, NobodyToShoot, LaneTaken, DrawRandomShot, NoRandomShot, Advance
      <3> QED BY <2>1, <3>1 DEF linkVars, WinDecided
    <2>3. CASE \/ (\E col \in Columns : SearchHits(col) \/ SearchMisses(col))
               \/ EndOfDrain \/ DrawGameBoard \/ CleanUp \/ NextFrame \/ UNCHANGED vars
      <3>1. UNCHANGED <<linkVars, outcome>>
        BY <2>3 DEF SearchHits, SearchMisses, EndOfDrain, DrawGameBoard, CleanUp,
           NextFrame, Advance, vars, controlVars
      <3> QED BY <2>1, <3>1 DEF linkVars, WinDecided
    <2>4. CASE ScriptFails \/ CloseWindow
      <3>1. UNCHANGED linkVars /\ outcome' # "winner"
        BY <2>4 DEF ScriptFails, CloseWindow, Exit
      <3> QED BY <2>1, <3>1 DEF linkVars, WinDecided
    <2>5. CASE ReplyArrives
      <3>1. /\ request' = "none" /\ UNCHANGED points
            /\ \/ UNCHANGED outcome \/ outcome' \in {"gameOver", "badReply"}
               \/ request = WINNER
        BY <2>5 DEF ReplyArrives, ScoreAcknowledged, LivesLeft, NoLivesLeft,
           WinnerAcknowledged, Receive, Exit
      <3> QED BY <2>1, <3>1 DEF WinDecided, WINNER
    <2> QED BY <1>2, <2>2, <2>3, <2>4, <2>5 DEF Next, ClientStep, Ended
  <1> QED BY <1>1, <1>2

LEMMA WinNext ==
  IndInv /\ FrameInv /\ CountersAgree /\ AccountInv /\ WinInv /\ [Next]_vars => WinInv'
  <1> SUFFICES ASSUME IndInv, FrameInv, CountersAgree, AccountInv, WinInv, [Next]_vars
               PROVE  WinInv'
    OBVIOUS
  <1>1. CASE ~CheckWinConditions /\ ~ServerStep
    <2>1. UNCHANGED points /\ (WinDecided' => WinDecided)
      BY <1>1, WinKept
    <2> QED BY <2>1 DEF WinInv
  <1> QED BY <1>1, WinRaised, WinCounted

-----------------------------------------------------------------------------
\* The counts, the deaths, the account and the win together are inductive on
\* top of IndInv and FrameInv.
LEMMA ScoreInit == Init => ScoreInv
  <1> SUFFICES ASSUME Init PROVE ScoreInv
    OBVIOUS
  <1>1. Pending = {} /\ request = "none" /\ outcome = "running"
    BY DEF Init, Pending, EmptyBag, SetToBag, LinkInit
  <1>2. DeathInv
    BY <1>1 DEF DeathInv, DeathEvents, PendingOf
  <1>3. WinInv
    BY <1>1 DEF WinInv, WinDecided, PendingOf, WINNER
  <1> QED BY <1>2, <1>3, CountersInit, AccountInit DEF ScoreInv, AccountInv

LEMMA ScoreNext == IndInv /\ FrameInv /\ ScoreInv /\ [Next]_vars => ScoreInv'
  BY CountersNext, DeathsNext, AccountNext, WinNext DEF ScoreInv, AccountInv

\* Counts, hits on their way and points fit together in every state.
THEOREM ScoreInductive == Spec => []ScoreInv
  <1> QED BY ScoreInit, ScoreNext, Inductive, FramesInOrder, PTL DEF Spec

\* Frame, player and score fit together in every state of every run.
THEOREM MatchInductive == Spec => []MatchInv
  <1>1. FrameInv /\ PlayerInv /\ ScoreInv => MatchInv
    BY DEF MatchInv
  <1> QED BY <1>1, FramesInOrder, PlayerAndShield, ScoreInductive, PTL

\* Every enemy destroyed is worth one point, in the queue, on the wire or
\* counted: none is lost between frames and none is counted twice.
THEOREM NoPointLost == Spec => []ScoreAccounts
  <1>1. ScoreInv => ScoreAccounts
    BY DEF ScoreInv
  <1> QED BY <1>1, ScoreInductive, PTL

\* The process only ends as the winner when the server has every point.
THEOREM WinnersComplete == Spec => []WinnerHasFullScore
  <1>1. ScoreInv => WinnerHasFullScore
    BY DEF ScoreInv, WinInv, WinDecided, WinnerHasFullScore
  <1> QED BY <1>1, ScoreInductive, PTL

-----------------------------------------------------------------------------
(***************************************************************************)
(* The refinement.  Each step of the client and of the server is a step of *)
(* the abstract match or leaves what the match shows alone.                *)
(***************************************************************************)
\* The match as the refinement mapping shows it: destroyed, scored, outcome.
SameMatch == UNCHANGED <<Cardinality(Destroyed), points, outcome>>

LEMMA DestroyStep ==
  ASSUME IndInv, FrameInv, ScoreInv, NEW e \in Pending, EnemyDied(e)
  PROVE  PlayedMatch!Destroy
  <1>1. /\ Cardinality(Destroyed)' = Cardinality(Destroyed) + 1
        /\ UNCHANGED <<points, outcome>> /\ pc = "dispatch"
    BY EnemyDiedAccount DEF ScoreInv, AccountInv
  <1>2. outcome = "running"
    BY <1>1 DEF FrameInv, LinkInv
  <1>3. Cardinality(Destroyed) < ENEMY_MAX
    <2>1. /\ Victim(e) \in Enemies /\ obj[Victim(e)] = "alive"
      BY DeathHandled DEF ScoreInv
    <2>2. Victim(e) \notin Destroyed
      BY <2>1 DEF Destroyed
    <2>3. Cardinality(Destroyed) # ENEMY_MAX
      BY <2>1, <2>2, DestroyedFinite
    <2> QED BY <2>3, DestroyedFinite, FormationFinite
  <1> QED BY <1>1, <1>2, <1>3 DEF PlayedMatch!Destroy

LEMMA ScoreStep ==
  ASSUME IndInv, FrameInv, ScoreInv, ServerStep, Destroyed' = Destroyed
  PROVE  PlayedMatch!Score \/ SameMatch
  <1>1. /\ socket = "sent" /\ UNCHANGED outcome
        /\ points' = points + (IF request = ADD_POINTS THEN 1 ELSE 0)
    BY DEF ServerStep, ServerReply, controlVars
  <1>2. CASE request = ADD_POINTS
    <2>1. pc = "await" /\ outcome = "running"
      BY <1>1 DEF IndInv, ReqLockstep, FrameInv, LinkInv
    <2>2. Cardinality(Destroyed) = points + Cardinality(CopySet("UPDATE_SCORE")) + 1
      BY <1>1, <1>2 DEF ScoreInv, ScoreAccounts, Copies
    <2>3. /\ points \in Nat /\ Cardinality(CopySet("UPDATE_SCORE")) \in Nat
      BY FS_CardinalityType DEF ScoreInv, IndInv, TypeOK
    <2>4. points < Cardinality(Destroyed)
      BY <2>2, <2>3
    <2> QED BY <1>1, <1>2, <2>1, <2>4 DEF PlayedMatch!Score
  <1>3. CASE request # ADD_POINTS
    <2>1. points' = points
      BY <1>1, <1>3 DEF IndInv, TypeOK
    <2> QED BY <1>1, <2>1 DEF SameMatch
  <1> QED BY <1>2, <1>3

\* Every end of the process is an end of the match.
LEMMA EndStep ==
  ASSUME IndInv, FrameInv, ScoreInv, [Next]_vars, Destroyed' = Destroyed, UNCHANGED points
  PROVE  PlayedMatch!Win \/ PlayedMatch!Stop \/ SameMatch
  <1>1. CASE ScriptFails \/ CloseWindow
    <2>1. outcome = "running" /\ outcome' \in {"scriptError", "closed"}
      BY <1>1 DEF ScriptFails, CloseWindow, Exit, FrameInv, LinkInv
    <2> QED BY <2>1 DEF PlayedMatch!Stop, Outcomes
  <1>2. CASE ReplyArrives
    <2>1. outcome = "running"
      BY <1>2 DEF ReplyArrives, ScoreAcknowledged, LivesLeft, NoLivesLeft,
         WinnerAcknowledged, FrameInv, LinkInv
    <2>2. CASE WinnerAcknowledged
      <3>1. request = WINNER /\ outcome' = "winner"
        BY <2>2 DEF WinnerAcknowledged, Receive, Exit
      <3>2. points = ENEMY_MAX
        BY <3>1 DEF ScoreInv, WinInv, WinDecided
      <3> QED BY <2>1, <3>1, <3>2 DEF PlayedMatch!Win
    <2>3. CASE NoLivesLeft
      <3>1. outcome' \in {"gameOver", "badReply"}
        BY <2>3 DEF NoLivesLeft, Exit
      <3> QED BY <2>1, <3>1 DEF PlayedMatch!Stop, Outcomes
    <2>4. CASE ScoreAcknowledged \/ LivesLeft
      BY <2>4 DEF ScoreAcknowledged, LivesLeft, SameMatch
    <2> QED BY <1>2, <2>2, <2>3, <2>4 DEF ReplyArrives
  <1>3. CASE \/ RunScripts \/ ReadInput \/ ReadClock \/ CheckCollisions \/ DoMovement
             \/ ShootLane \/ NobodyToShoot \/ LaneTaken \/ DrawRandomShot
             \/ NoRandomShot
    <2>1. UNCHANGED outcome
      BY <1>3 DEF RunScripts, ReadInput, ReadClock, CheckCollisions, DoMovement,
         ShootLane, NobodyToShoot, LaneTaken, DrawRandomShot, NoRandomShot, Advance
    <2> QED BY <2>1 DEF SameMatch
  <1>4. CASE \/ (\E col \in Columns : SearchHits(col) \/ SearchMisses(col))
             \/ EndOfDrain \/ DrawGameBoard \/ CleanUp \/ CheckWinConditions
             \/ NextFrame \/ ServerStep \/ UNCHANGED vars
    <2>1. UNCHANGED outcome
      BY <1>4 DEF SearchHits, SearchMisses, EndOfDrain, DrawGameBoard, CleanUp,
         CheckWinConditions, NextFrame, Advance, ServerStep, vars, controlVars
    <2> QED BY <2>1 DEF SameMatch
  <1>5. CASE HandleEvent
    <2>1. UNCHANGED outcome
      BY <1>5 DEF HandleEvent, BulletHitEnemy, BulletHitPlayer, BulletHitBound, Reposition,
         EnemyTouchesPlayer, EnemyDied, EnemyShoots, PlayerShoots, PlayerDied,
         PlayerShielded, SendRequest, Done, controlVars
    <2> QED BY <2>1 DEF SameMatch
  <1> QED BY <1>1, <1>2, <1>3, <1>4, <1>5 DEF Next, ClientStep, Ended

LEMMA MatchStep ==
  IndInv /\ FrameInv /\ ScoreInv /\ [Next]_vars => [PlayedMatch!Next]_(PlayedMatch!matchVars)
  <1> SUFFICES ASSUME IndInv, FrameInv, ScoreInv, [Next]_vars
               PROVE  PlayedMatch!Next \/ SameMatch
    BY DEF PlayedMatch!matchVars, SameMatch
  <1>1. CASE \E e \in Pending : EnemyDied(e)
    BY <1>1, DestroyStep DEF PlayedMatch!Next
  <1>2. CASE ~\E e \in Pending : EnemyDied(e)
    <2>1. Destroyed' = Destroyed
      BY <1>2, DestroyedKept
    <2>2. CASE ServerStep
      BY <2>1, <2>2, ScoreStep DEF PlayedMatch!Next
    <2>3. CASE ~ServerStep
      <3>1. UNCHANGED points
        <4>1. CASE CheckWinConditions
          BY <4>1 DEF CheckWinConditions, linkVars
        <4>2. CASE ~CheckWinConditions
          BY <2>3, <4>2, WinKept
        <4> QED BY <4>1, <4>2
      <3> QED BY <2>1, <3>1, EndStep DEF PlayedMatch!Next
    <2> QED BY <2>2, <2>3
  <1> QED BY <1>1, <1>2

\* The client implements the match: points follow the enemies destroyed, one
\* by one, nothing happens after the end, and only a complete score wins.
THEOREM Implements == Spec => ImplementsMatch
  <1>1. Init => PlayedMatch!Init
    <2> SUFFICES ASSUME Init PROVE PlayedMatch!Init
      OBVIOUS
    <2>1. points = 0 /\ outcome = "running"
      BY DEF Init, LinkInit
    <2>2. Destroyed = {}
      BY BulletsAreNoEnemies, SlotFacts DEF Init, BoardInit, Destroyed
    <2> QED BY <2>1, <2>2, FS_EmptySet DEF PlayedMatch!Init
  <1> QED
    BY <1>1, MatchStep, Inductive, FramesInOrder, ScoreInductive, PTL
    DEF Spec, ImplementsMatch, PlayedMatch!Safety
=============================================================================
