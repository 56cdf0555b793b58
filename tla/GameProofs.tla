----------------------------- MODULE GameProofs -----------------------------
(***************************************************************************)
(* Proofs about the game, for every size of the formation and every value  *)
(* of the other constants.  IndInv is inductive; the properties it implies *)
(* follow.  Its four parts are preserved one lemma each, with one step per *)
(* action.                                                                 *)
(***************************************************************************)
EXTENDS GameProperties, FiniteSetTheorems, TLAPS

-----------------------------------------------------------------------------
\* Raising adds the events, and leaves each with a positive count.
LEMMA RaiseBag ==
  ASSUME NEW Q, NEW S, \A e \in DOMAIN Q : Q[e] \in Nat \ {0}
  PROVE  /\ DOMAIN (Q (+) SetToBag(S)) = DOMAIN Q \cup S
         /\ \A e \in DOMAIN Q \cup S : (Q (+) SetToBag(S))[e] \in Nat \ {0}
  BY DEF (+), SetToBag

\* Taking an event off the queue adds none.
LEMMA PopBag ==
  ASSUME NEW Q, NEW S, \A e \in DOMAIN Q : Q[e] \in Nat \ {0}
  PROVE  /\ DOMAIN (Q (-) SetToBag(S)) \subseteq DOMAIN Q
         /\ \A e \in DOMAIN (Q (-) SetToBag(S)) :
              (Q (-) SetToBag(S))[e] \in Nat \ {0}
  BY DEF (-), SetToBag

\* What is pending after an event was handled was pending before or was
\* raised by its handler.
LEMMA PopAndRaiseBag ==
  ASSUME TypeOK, NEW e, NEW S
  PROVE  /\ DOMAIN PopAndRaise(e, S) \subseteq Pending \cup S
         /\ \A f \in DOMAIN PopAndRaise(e, S) :
              PopAndRaise(e, S)[f] \in Nat \ {0}
  <1> DEFINE Q == queue (-) SetToBag({e})
  <1>1. \A f \in DOMAIN queue : queue[f] \in Nat \ {0}
    BY DEF TypeOK, Pending
  <1>2. /\ DOMAIN Q \subseteq DOMAIN queue
        /\ \A f \in DOMAIN Q : Q[f] \in Nat \ {0}
    BY <1>1, PopBag
  <1>3. /\ DOMAIN (Q (+) SetToBag(S)) = DOMAIN Q \cup S
        /\ \A f \in DOMAIN Q \cup S : (Q (+) SetToBag(S))[f] \in Nat \ {0}
    <2> HIDE DEF Q
    <2> QED BY <1>2, RaiseBag
  <1> QED BY <1>2, <1>3 DEF PopAndRaise, Pending

-----------------------------------------------------------------------------
\* The kinds of slots are different, and every guid is the name of a slot.
LEMMA SlotFacts ==
  /\ Player \in Slots /\ Enemies \subseteq Slots /\ Bullets \subseteq Slots
  /\ Player \notin Enemies /\ Player \notin Bullets
  /\ EnemyBullets \subseteq Bullets /\ PlayerBullet \in Bullets
  /\ \A s \in Bullets : s \in Int /\ s # 0
  /\ 0 \in GUIDs /\ GUIDs = Slots
  BY DEF Player, Enemies, Bullets, EnemyBullets, PlayerBullet, LaneBullet,
         RandomBullet, Slots, GUIDs, PLAYER_BULLET_GUID,
         ENEMY_BULLET_LANE_GUID, ENEMY_BULLET_RAND_GUID

LEMMA CountsAreNatural ==
  ASSUME NEW S
  PROVE  /\ Cardinality(S \cap Enemies) \in Nat
         /\ Cardinality(S \cap EnemyBullets) \in Nat
         /\ Cardinality(S \cap {PlayerBullet}) \in Nat
         /\ ENEMY_MAX \in Nat
  <1>1. ENEMY_MAX \in Nat
    BY BoardAssumption DEF ENEMY_MAX
  <1>2. IsFiniteSet(Enemies)
    BY <1>1, FS_Interval DEF Enemies
  <1>3. IsFiniteSet({PlayerBullet}) /\ IsFiniteSet({LaneBullet})
          /\ IsFiniteSet({RandomBullet})
    BY FS_Singleton
  <1>4. IsFiniteSet(EnemyBullets)
    <2>1. EnemyBullets = {LaneBullet} \cup {RandomBullet}
      BY DEF EnemyBullets
    <2> QED BY <2>1, <1>3, FS_Union
  <1>5. \A T : IsFiniteSet(T) => Cardinality(S \cap T) \in Nat
    <2> SUFFICES ASSUME NEW T, IsFiniteSet(T)
                 PROVE  Cardinality(S \cap T) \in Nat
      OBVIOUS
    <2>1. IsFiniteSet(S \cap T)
      BY FS_Subset, S \cap T \subseteq T
    <2> QED BY <2>1, FS_CardinalityType
  <1> QED BY <1>1, <1>2, <1>3, <1>4, <1>5

\* Any of these times may stamp an event.
LEMMA StampFacts ==
  ASSUME TypeOK
  PROVE  /\ 0 \in Stamps /\ currentTime \in Stamps
         /\ \A time \in GarbageStamps : time \in Stamps
         /\ \A e \in Pending : e.timestamp \in Stamps
  BY DEF TypeOK, Stamps, EventSet

-----------------------------------------------------------------------------
\* An event stays well addressed as long as no object leaves the board.
ObjectsStay == \A s \in Slots : obj[s] # "null" => obj'[s] # "null"

LEMMA StillAddressed ==
  ASSUME NEW e, WellAddressed(e), ObjectsStay
  PROVE  WellAddressed(e)'
  <1>1. ASSUME e.eventType \in AddressedTypes
        PROVE  /\ e.associatedGUID \in MayGet(e.eventType)
               /\ obj'[e.associatedGUID] # "null"
    <2>1. e.associatedGUID \in MayGet(e.eventType) /\ obj[e.associatedGUID] # "null"
      BY <1>1 DEF WellAddressed
    <2>2. MayGet(e.eventType) \subseteq Slots
      BY SlotFacts DEF MayGet
    <2> QED BY <2>1, <2>2 DEF ObjectsStay
  <1>2. ASSUME e.eventType = "COLLISION_ENEMY"
        PROVE  e.intendedGUID \in Enemies /\ obj'[e.intendedGUID] # "null"
    BY <1>2, SlotFacts DEF WellAddressed, ObjectsStay
  <1> QED BY <1>1, <1>2 DEF WellAddressed, MayGet

\* The handler of an addressed event is the one of the object it names.
LEMMA TargetIsAddressee ==
  ASSUME BoardInv, NEW e, WellAddressed(e), e.eventType \in AddressedTypes
  PROVE  /\ Target(e) = e.associatedGUID
         /\ Target(e) \in MayGet(e.eventType) /\ Target(e) \in Slots
         /\ obj[Target(e)] # "null"
  <1>1. e.associatedGUID \in MayGet(e.eventType) /\ obj[e.associatedGUID] # "null"
    BY DEF WellAddressed
  <1>2. MayGet(e.eventType) \subseteq Slots
    BY SlotFacts DEF MayGet
  <1> QED BY <1>1, <1>2 DEF BoardInv, Target

\* Killing an object leaves it on the board.
LEMMA KillKeepsBoard ==
  ASSUME TypeOK, BoardInv, NEW s \in Slots \ {Player}, obj[s] # "null",
         Kill(s), UNCHANGED <<guid, handlers>>
  PROVE  BoardInv' /\ ObjectsStay /\ obj' \in [Slots -> {"null", "alive", "dead"}]
  BY SlotFacts DEF TypeOK, BoardInv, Kill, ObjectsStay

\* A bullet gets its guid and its handler with the slot, and no other bullet
\* loses its own.
LEMMA AddBulletKeepsBoard ==
  ASSUME TypeOK, BoardInv, NEW slot \in Bullets, NEW array \in SUBSET Bullets,
         AddBullet(slot, array, slot)
  PROVE  /\ BoardInv' /\ ObjectsStay
         /\ obj' \in [Slots -> {"null", "alive", "dead"}]
         /\ guid' \in [Slots -> GUIDs]
         /\ DOMAIN handlers' \subseteq GUIDs
         /\ \A g \in DOMAIN handlers' : handlers'[g] \in Slots \cup {Dangling}
  <1>1. CASE ~FreeForBullet(slot)
    <2>1. UNCHANGED <<obj, guid, handlers>>
      BY <1>1 DEF AddBullet
    <2> QED BY <2>1 DEF TypeOK, BoardInv, ObjectsStay
  <1>2. CASE FreeForBullet(slot)
    <2>1. AddAndRegister(slot, array, slot)
      BY <1>2 DEF AddBullet
    <2>2. Unregistered(slot, array) = {slot}
      BY SlotFacts DEF Unregistered, OnBoard, BoardInv
    <2>3. /\ obj' = [obj EXCEPT ![slot] = "alive"]
          /\ guid' = [s \in Slots |-> IF s = slot THEN slot ELSE guid[s]]
          /\ handlers' = [g \in DOMAIN handlers \cup {slot} |->
                            IF g = slot THEN slot ELSE handlers[g]]
      BY <2>1, <2>2 DEF AddAndRegister, AddToHandlers
    <2>4. slot \in Slots /\ slot # Player /\ slot \in GUIDs
      BY SlotFacts
    <2>5. BoardInv'
      BY <2>3, <2>4 DEF TypeOK, BoardInv
    <2> QED BY <2>3, <2>4, <2>5 DEF TypeOK, ObjectsStay
  <1> QED BY <1>1, <1>2

\* Cleaning up takes the dead off the board; the others keep their handlers.
LEMMA CleanUpKeepsBoard ==
  ASSUME TypeOK, BoardInv, CleanUpObjects
  PROVE  /\ BoardInv'
         /\ obj' \in [Slots -> {"null", "alive", "dead"}]
         /\ guid' \in [Slots -> GUIDs]
         /\ DOMAIN handlers' \subseteq GUIDs
         /\ \A g \in DOMAIN handlers' : handlers'[g] \in Slots \cup {Dangling}
         /\ numEnemies' \in Int /\ enemyBulletsSize' \in Int
         /\ playerBulletsSize' \in Int
  <1> DEFINE dead == {s \in Slots : obj[s] = "dead"}
  <1>1. /\ obj' = [s \in Slots |-> IF s \in dead THEN "null" ELSE obj[s]]
        /\ guid' = [s \in Slots |-> IF s \in dead THEN 0 ELSE guid[s]]
        /\ handlers' = [g \in DOMAIN handlers |->
                          IF handlers[g] \in dead THEN Dangling ELSE handlers[g]]
    BY DEF CleanUpObjects, DanglingHandlers
  <1>2. /\ numEnemies' = numEnemies - Cardinality(dead \cap Enemies)
        /\ enemyBulletsSize' = enemyBulletsSize - Cardinality(dead \cap EnemyBullets)
        /\ playerBulletsSize' = playerBulletsSize - Cardinality(dead \cap {PlayerBullet})
    BY DEF CleanUpObjects, Less
  <1>3. numEnemies' \in Int /\ enemyBulletsSize' \in Int /\ playerBulletsSize' \in Int
    <2> HIDE DEF dead
    <2> QED BY <1>2, CountsAreNatural DEF TypeOK
  <1>4. BoardInv'
    BY <1>1, SlotFacts DEF TypeOK, BoardInv
  <1> QED BY <1>1, <1>3, <1>4, SlotFacts DEF TypeOK

-----------------------------------------------------------------------------
\* What the phases of a frame raise is well typed and well addressed.
LEMMA GuidOnBoard ==
  ASSUME BoardInv, NEW S \in SUBSET Slots, NEW s \in OnBoard(S)
  PROVE  s \in S /\ guid[s] = s /\ guid[s] \in GUIDs /\ obj[s] # "null"
  BY SlotFacts DEF BoardInv, OnBoard

LEMMA CollisionEvents ==
  ASSUME TypeOK, BoardInv, NEW S \in Collisions(currentTime), NEW e \in S
  PROVE  e \in EventSet /\ WellAddressed(e)
  <1>1. PICK hit \in ShotHits, touching \in Contacts,
             striking \in SUBSET OnBoard(EnemyBullets),
             bound \in SUBSET OnBoard(Bullets) :
          \/ \E f \in hit :
               e = EventAt("COLLISION_ENEMY", guid[PlayerBullet], currentTime, guid[f])
          \/ \E s \in striking \cup touching :
               e = Event("COLLISION_PLAYER", guid[s], currentTime)
          \/ \E b \in bound \ striking :
               e = Event("COLLISION_BOUND", guid[b], currentTime)
    BY DEF Collisions
  <1>2. currentTime \in Stamps
    BY StampFacts
  <1>3. ASSUME NEW f \in hit,
               e = EventAt("COLLISION_ENEMY", guid[PlayerBullet], currentTime, guid[f])
        PROVE  e \in EventSet /\ WellAddressed(e)
    <2>1. f \in OnBoard(Enemies) /\ PlayerBullet \in OnBoard({PlayerBullet})
      BY <1>3 DEF ShotHits, OnBoard
    <2>2. /\ guid[f] = f /\ f \in Enemies /\ f \in GUIDs /\ obj[f] # "null"
          /\ guid[PlayerBullet] = PlayerBullet /\ PlayerBullet \in GUIDs
          /\ obj[PlayerBullet] # "null"
      BY <2>1, GuidOnBoard, SlotFacts
    <2>3. /\ e \in EventSet /\ e.eventType = "COLLISION_ENEMY"
          /\ e.associatedGUID = PlayerBullet /\ e.intendedGUID = f
      <3>1. e = EventAt("COLLISION_ENEMY", PlayerBullet, currentTime, f)
        BY <1>3, <2>2
      <3>2. "COLLISION_ENEMY" \in AddressedTypes \cup BroadcastTypes
        BY DEF AddressedTypes
      <3>3. PlayerBullet \in GUIDs \cup {Broadcast} /\ f \in GUIDs
        BY <2>2
      <3> QED BY <1>2, <3>1, <3>2, <3>3 DEF EventAt, EventSet
    <2> QED BY <2>2, <2>3, SlotFacts DEF WellAddressed, MayGet
  <1>4. ASSUME NEW s \in striking \cup touching,
               e = Event("COLLISION_PLAYER", guid[s], currentTime)
        PROVE  e \in EventSet /\ WellAddressed(e)
    <2>1. s \in OnBoard(EnemyBullets) \cup OnBoard(Enemies)
      BY <1>4 DEF Contacts
    <2>2. guid[s] = s /\ s \in Enemies \cup Bullets /\ s \in GUIDs /\ obj[s] # "null"
      BY <2>1, GuidOnBoard, SlotFacts
    <2>3. e \in EventSet /\ e.eventType = "COLLISION_PLAYER" /\ e.associatedGUID = s
      BY <1>2, <1>4, <2>2 DEF Event, EventAt, EventSet, AddressedTypes
    <2> QED BY <2>2, <2>3 DEF WellAddressed, MayGet
  <1>5. ASSUME NEW b \in bound \ striking,
               e = Event("COLLISION_BOUND", guid[b], currentTime)
        PROVE  e \in EventSet /\ WellAddressed(e)
    <2>1. guid[b] = b /\ b \in Bullets /\ b \in GUIDs /\ obj[b] # "null"
      BY GuidOnBoard, SlotFacts
    <2>2. e \in EventSet /\ e.eventType = "COLLISION_BOUND" /\ e.associatedGUID = b
      BY <1>2, <1>5, <2>1 DEF Event, EventAt, EventSet, AddressedTypes
    <2> QED BY <2>1, <2>2 DEF WellAddressed, MayGet
  <1> QED BY <1>1, <1>3, <1>4, <1>5

LEMMA MovementEvents ==
  ASSUME TypeOK, BoardInv, NEW S \in Movements, NEW e \in S
  PROVE  e \in EventSet /\ WellAddressed(e)
  <1>1. PICK step \in {"MOVE_DOWN", "MOVE_LAT"} :
          \/ \E f \in OnBoard(Enemies) : e = Event(step, guid[f], 0)
          \/ \E b \in OnBoard(Bullets) : e = Event("MOVE", guid[b], 0)
    BY DEF Movements
  <1>2. 0 \in Stamps
    BY StampFacts
  <1>3. ASSUME NEW f \in OnBoard(Enemies), e = Event(step, guid[f], 0)
        PROVE  e \in EventSet /\ WellAddressed(e)
    <2>1. guid[f] = f /\ f \in Enemies /\ f \in GUIDs /\ obj[f] # "null"
      BY GuidOnBoard, SlotFacts
    <2>2. step \in AddressedTypes \cup BroadcastTypes
      BY DEF AddressedTypes
    <2>3. e \in EventSet /\ e.eventType = step /\ e.associatedGUID = f
      BY <1>2, <1>3, <2>1, <2>2 DEF Event, EventAt, EventSet
    <2> QED BY <2>1, <2>3 DEF WellAddressed, MayGet
  <1>4. ASSUME NEW b \in OnBoard(Bullets), e = Event("MOVE", guid[b], 0)
        PROVE  e \in EventSet /\ WellAddressed(e)
    <2>1. guid[b] = b /\ b \in Bullets /\ b \in GUIDs /\ obj[b] # "null"
      BY GuidOnBoard, SlotFacts
    <2>2. e \in EventSet /\ e.eventType = "MOVE" /\ e.associatedGUID = b
      BY <1>2, <1>4, <2>1 DEF Event, EventAt, EventSet, AddressedTypes
    <2> QED BY <2>1, <2>2 DEF WellAddressed, MayGet
  <1> QED BY <1>1, <1>3, <1>4

LEMMA ShotEvent ==
  ASSUME TypeOK, BoardInv, NEW type \in {"SHOOT_LANE", "SHOOT_RANDOM"},
         NEW cols, NEW f \in Shooters(cols)
  PROVE  /\ Event(type, guid[f], currentTime) \in EventSet
         /\ WellAddressed(Event(type, guid[f], currentTime))
  <1> DEFINE e == Event(type, guid[f], currentTime)
  <1>1. f \in OnBoard(Enemies)
    BY DEF Shooters
  <1>2. guid[f] = f /\ f \in Enemies /\ f \in GUIDs /\ obj[f] # "null"
    BY <1>1, GuidOnBoard, SlotFacts
  <1>3. type \in AddressedTypes \cup BroadcastTypes /\ currentTime \in Stamps
    BY StampFacts DEF AddressedTypes
  <1>4. e \in EventSet /\ e.eventType = type /\ e.associatedGUID = f
    BY <1>2, <1>3 DEF Event, EventAt, EventSet
  <1> HIDE DEF e
  <1>5. WellAddressed(e)
    BY <1>2, <1>4 DEF WellAddressed, MayGet
  <1> QED BY <1>4, <1>5 DEF e

\* An event for the watchers of its type is addressed to nobody.
LEMMA BroadcastEvent ==
  ASSUME NEW type \in BroadcastTypes, NEW time \in Stamps
  PROVE  /\ Event(type, Broadcast, time) \in EventSet
         /\ WellAddressed(Event(type, Broadcast, time))
         /\ WellAddressed(Event(type, Broadcast, time))'
  <1> DEFINE e == Event(type, Broadcast, time)
  <1>1. e \in EventSet /\ e.eventType = type
    BY DEF Event, EventAt, EventSet
  <1> HIDE DEF e
  <1>2. e.eventType \notin AddressedTypes /\ e.eventType # "COLLISION_ENEMY"
    BY <1>1 DEF AddressedTypes, BroadcastTypes
  <1>3. WellAddressed(e) /\ WellAddressed(e)'
    BY <1>2 DEF WellAddressed
  <1> QED BY <1>1, <1>3 DEF e

-----------------------------------------------------------------------------
\* The queue after a raise, and after an event was handled.
QueueType ==
  Pending \subseteq EventSet /\ \A e \in Pending : queue[e] \in Nat \ {0}

LEMMA RaiseKeepsQueue ==
  ASSUME TypeOK, QueueInv, NEW S, \A e \in S : e \in EventSet /\ WellAddressed(e),
         queue' = Raise(S), UNCHANGED obj
  PROVE  QueueType' /\ QueueInv'
  <1>1. \A e \in DOMAIN queue : queue[e] \in Nat \ {0}
    BY DEF TypeOK, Pending
  <1>2. DOMAIN queue' = Pending \cup S /\ \A e \in DOMAIN queue' : queue'[e] \in Nat \ {0}
    BY <1>1, RaiseBag DEF Raise, Pending
  <1>3. \A e \in Pending \cup S : e \in EventSet /\ WellAddressed(e)
    BY DEF TypeOK, QueueInv
  <1>4. \A e : WellAddressed(e) => WellAddressed(e)'
    BY StillAddressed DEF ObjectsStay
  <1> QED BY <1>2, <1>3, <1>4 DEF QueueType, QueueInv, Pending

LEMMA HandlingKeepsQueue ==
  ASSUME TypeOK, QueueInv, ObjectsStay, NEW e, NEW S,
         \A f \in S : f \in EventSet /\ WellAddressed(f)',
         queue' = PopAndRaise(e, S)
  PROVE  QueueType' /\ QueueInv'
  <1>1. /\ DOMAIN queue' \subseteq Pending \cup S
        /\ \A f \in DOMAIN queue' : queue'[f] \in Nat \ {0}
    BY PopAndRaiseBag
  <1>2. \A f \in Pending : f \in EventSet /\ WellAddressed(f)'
    BY StillAddressed DEF TypeOK, QueueInv
  <1> QED BY <1>1, <1>2 DEF QueueType, QueueInv, Pending

\* A step that leaves the queue and the board alone only has its own
\* variables to account for.
LEMMA QuietStep ==
  ASSUME IndInv, UNCHANGED <<managerVars, boardVars>>,
         TypeOK', DrainedInv', ReqLockstep'
  PROVE  IndInv'
  BY DEF IndInv, managerVars, boardVars, BoardInv, QueueInv, WellAddressed, Pending

-----------------------------------------------------------------------------
\* Each action preserves IndInv: first those of the main loop that leave the
\* queue and the board alone.
LEMMA QuietActions ==
  ASSUME IndInv,
         \/ RunScripts \/ ScriptFails \/ ReadClock
         \/ NobodyToShoot \/ LaneTaken \/ DrawRandomShot \/ NoRandomShot
         \/ \E col \in Columns : SearchMisses(col)
         \/ DrawGameBoard \/ NextFrame \/ CloseWindow
  PROVE  IndInv'
  <1> USE DEF managerVars, boardVars, linkVars, playerVars, Advance, Exit
  <1>1. UNCHANGED <<managerVars, boardVars, linkVars>>
    BY DEF RunScripts, ScriptFails, ReadClock, NobodyToShoot, LaneTaken,
           DrawRandomShot, NoRandomShot, SearchMisses, DrawGameBoard, NextFrame,
           CloseWindow
  <1>2. /\ visible' \in BOOLEAN /\ invincible' \in BOOLEAN
        /\ currentTime' \in {BaseTime} \cup NextTimes
    BY DEF IndInv, TypeOK, RunScripts, ScriptFails, ReadClock, NobodyToShoot,
           LaneTaken, DrawRandomShot, NoRandomShot, SearchMisses, DrawGameBoard,
           NextFrame, CloseWindow
  <1>3. /\ pc' \in Control \ {"await", "draw", "checkWin"} /\ outcome' \in Outcomes
        /\ pc # "await" /\ (pc' = "cleanUp" => pc = "draw")
    BY DEF IndInv, TypeOK, Control, Outcomes, RunScripts, ScriptFails, ReadClock,
           NobodyToShoot, LaneTaken, DrawRandomShot, NoRandomShot, SearchMisses,
           DrawGameBoard, NextFrame, CloseWindow
  <1>4. TypeOK'
    BY <1>1, <1>2, <1>3 DEF IndInv, TypeOK, Pending
  <1>5. DrainedInv' /\ ReqLockstep'
    BY <1>1, <1>3 DEF IndInv, DrainedInv, ReqLockstep, Pending
  <1> QED BY <1>1, <1>4, <1>5, QuietStep

\* The actions of the main loop that raise events.
LEMMA RaisingStep ==
  ASSUME IndInv, NEW S, \A e \in S : e \in EventSet /\ WellAddressed(e),
         queue' = Raise(S),
         UNCHANGED <<scrambled, handlers, boardVars, linkVars, playerVars,
                     outcome, currentTime>>,
         pc \in Control \ {"await"},
         pc' \in Control \ {"await", "draw", "cleanUp", "checkWin"}
  PROVE  IndInv'
  <1> USE DEF boardVars, linkVars, playerVars
  <1>1. QueueType' /\ QueueInv'
    BY RaiseKeepsQueue DEF IndInv
  <1>2. TypeOK'
    BY <1>1 DEF IndInv, TypeOK, QueueType
  <1>3. BoardInv' /\ DrainedInv' /\ ReqLockstep'
    BY DEF IndInv, BoardInv, DrainedInv, ReqLockstep
  <1> QED BY <1>1, <1>2, <1>3 DEF IndInv

LEMMA CheckCollisionsKeeps == IndInv /\ CheckCollisions => IndInv'
  <1> SUFFICES ASSUME IndInv, CheckCollisions PROVE IndInv'
    OBVIOUS
  <1>1. PICK S \in Collisions(currentTime) : queue' = Raise(S)
    BY DEF CheckCollisions
  <1>2. \A e \in S : e \in EventSet /\ WellAddressed(e)
    BY CollisionEvents DEF IndInv
  <1> QED BY <1>1, <1>2, RaisingStep DEF CheckCollisions, Advance, Control

LEMMA DoMovementKeeps == IndInv /\ DoMovement => IndInv'
  <1> SUFFICES ASSUME IndInv, DoMovement PROVE IndInv'
    OBVIOUS
  <1>1. PICK S \in Movements : queue' = Raise(S)
    BY DEF DoMovement
  <1>2. \A e \in S : e \in EventSet /\ WellAddressed(e)
    BY MovementEvents DEF IndInv
  <1> QED BY <1>1, <1>2, RaisingStep DEF DoMovement, Advance, Control

LEMMA ShootLaneKeeps == IndInv /\ ShootLane => IndInv'
  <1> SUFFICES ASSUME IndInv, ShootLane PROVE IndInv'
    OBVIOUS
  <1>1. PICK f \in Shooters(Columns) :
          queue' = Raise({Event("SHOOT_LANE", guid[f], currentTime)})
    BY DEF ShootLane
  <1>2. \A e \in {Event("SHOOT_LANE", guid[f], currentTime)} :
          e \in EventSet /\ WellAddressed(e)
    <2>1. "SHOOT_LANE" \in {"SHOOT_LANE", "SHOOT_RANDOM"} /\ TypeOK /\ BoardInv
      BY DEF IndInv
    <2> QED BY <2>1, ShotEvent
  <1>3. /\ UNCHANGED <<scrambled, handlers, boardVars, linkVars, playerVars,
                       outcome, currentTime>>
        /\ pc \in Control \ {"await"}
        /\ pc' \in Control \ {"await", "draw", "cleanUp", "checkWin"}
    BY DEF ShootLane, Advance, Control
  <1> QED BY <1>1, <1>2, <1>3, RaisingStep

LEMMA SearchHitsKeeps ==
  ASSUME IndInv, NEW col \in Columns, SearchHits(col)
  PROVE  IndInv'
  <1>1. PICK f \in Shooters({col}) :
          queue' = Raise({Event("SHOOT_RANDOM", guid[f], currentTime)})
    BY DEF SearchHits
  <1>2. \A e \in {Event("SHOOT_RANDOM", guid[f], currentTime)} :
          e \in EventSet /\ WellAddressed(e)
    <2>1. "SHOOT_RANDOM" \in {"SHOOT_LANE", "SHOOT_RANDOM"} /\ TypeOK /\ BoardInv
      BY DEF IndInv
    <2> QED BY <2>1, ShotEvent
  <1>3. /\ UNCHANGED <<scrambled, handlers, boardVars, linkVars, playerVars,
                       outcome, currentTime>>
        /\ pc \in Control \ {"await"}
        /\ pc' \in Control \ {"await", "draw", "cleanUp", "checkWin"}
    BY DEF SearchHits, Advance, Control
  <1> QED BY <1>1, <1>2, <1>3, RaisingStep

LEMMA CheckWinKeeps == IndInv /\ CheckWinConditions => IndInv'
  <1> SUFFICES ASSUME IndInv, CheckWinConditions PROVE IndInv'
    OBVIOUS
  <1> DEFINE S == WinEvents(currentTime)
  <1>1. queue' = Raise(S)
    BY DEF CheckWinConditions
  <1>2. \A e \in S : e \in EventSet /\ WellAddressed(e)
    BY BroadcastEvent, StampFacts DEF IndInv, BroadcastTypes, WinEvents
  <1> HIDE DEF S
  <1> QED BY <1>1, <1>2, RaisingStep DEF CheckWinConditions, Advance, Control

\* readInput raises a movement event once for every key, and the shot.
LEMMA ReadInputKeeps == IndInv /\ ReadInput => IndInv'
  <1> SUFFICES ASSUME IndInv, ReadInput PROVE IndInv'
    OBVIOUS
  <1> DEFINE move == Event("KEYBOARD_INPUT", guid[Player], 0)
             shoot == Event("SHOOT", guid[Player], 0)
  <1>1. PICK keys \in 0..MaxKeys, space \in BOOLEAN :
          queue' = (queue (+) (IF keys = 0 THEN EmptyBag ELSE [e \in {move} |-> keys]))
                     (+) (IF space /\ CanPlayerShoot THEN SetToBag({shoot}) ELSE EmptyBag)
    BY DEF ReadInput
  <1>2. guid[Player] = Player /\ Player \in GUIDs /\ obj[Player] # "null" /\ 0 \in Stamps
    BY SlotFacts, StampFacts DEF IndInv, BoardInv
  <1>3. move \in EventSet /\ WellAddressed(move)
    <2>1. move \in EventSet /\ move.eventType = "KEYBOARD_INPUT"
            /\ move.associatedGUID = Player
      BY <1>2 DEF Event, EventAt, EventSet, AddressedTypes
    <2> HIDE DEF move
    <2> QED BY <1>2, <2>1 DEF WellAddressed, MayGet
  <1>4. shoot \in EventSet /\ WellAddressed(shoot)
    <2>1. shoot \in EventSet /\ shoot.eventType = "SHOOT"
            /\ shoot.associatedGUID = Player
      BY <1>2 DEF Event, EventAt, EventSet, AddressedTypes
    <2> HIDE DEF shoot
    <2> QED BY <1>2, <2>1 DEF WellAddressed, MayGet
  <1> HIDE DEF move, shoot
  <1>5. /\ DOMAIN queue' \subseteq Pending \cup {move, shoot}
        /\ \A e \in DOMAIN queue' : queue'[e] \in Nat \ {0}
    <2>1. \A e \in DOMAIN queue : queue[e] \in Nat \ {0}
      BY DEF IndInv, TypeOK, Pending
    <2> QED BY <1>1, <2>1 DEF (+), SetToBag, EmptyBag, Pending
  <1>6. QueueType' /\ QueueInv'
    <2>1. UNCHANGED obj
      BY DEF ReadInput, boardVars
    <2>2. \A e \in Pending \cup {move, shoot} : e \in EventSet /\ WellAddressed(e)
      BY <1>3, <1>4 DEF IndInv, TypeOK, QueueInv
    <2>3. \A e : WellAddressed(e) => WellAddressed(e)'
      BY <2>1, StillAddressed DEF ObjectsStay
    <2> QED BY <1>5, <2>2, <2>3 DEF QueueType, QueueInv, Pending
  <1> USE DEF ReadInput, Advance, boardVars, linkVars, playerVars
  <1>7. TypeOK'
    BY <1>6 DEF IndInv, TypeOK, QueueType, Control
  <1>8. BoardInv' /\ DrainedInv' /\ ReqLockstep'
    BY DEF IndInv, BoardInv, DrainedInv, ReqLockstep
  <1> QED BY <1>6, <1>7, <1>8 DEF IndInv

\* The end of the drain, and the clean-up that follows it.
LEMMA EndOfDrainKeeps == IndInv /\ EndOfDrain => IndInv'
  <1> SUFFICES ASSUME IndInv, EndOfDrain PROVE IndInv'
    OBVIOUS
  <1> USE DEF EndOfDrain, Advance, boardVars, linkVars, playerVars
  <1>1. TypeOK'
    BY DEF IndInv, TypeOK, Pending, Control
  <1>2. BoardInv' /\ QueueInv' /\ DrainedInv' /\ ReqLockstep'
    BY DEF IndInv, BoardInv, QueueInv, Pending, DrainedInv, ReqLockstep
  <1> QED BY <1>1, <1>2 DEF IndInv

LEMMA CleanUpKeeps == IndInv /\ CleanUp => IndInv'
  <1> SUFFICES ASSUME IndInv, CleanUp PROVE IndInv'
    OBVIOUS
  <1> USE DEF CleanUp, Advance, linkVars, playerVars
  <1>1. Pending = {} /\ Pending' = {}
    BY DEF IndInv, DrainedInv, Pending
  <1>2. /\ BoardInv'
        /\ obj' \in [Slots -> {"null", "alive", "dead"}]
        /\ guid' \in [Slots -> GUIDs]
        /\ DOMAIN handlers' \subseteq GUIDs
        /\ \A g \in DOMAIN handlers' : handlers'[g] \in Slots \cup {Dangling}
        /\ numEnemies' \in Int /\ enemyBulletsSize' \in Int
        /\ playerBulletsSize' \in Int
    BY CleanUpKeepsBoard DEF IndInv
  <1>3. TypeOK'
    BY <1>1, <1>2 DEF IndInv, TypeOK, Control
  <1>4. QueueInv' /\ DrainedInv' /\ ReqLockstep'
    BY <1>1 DEF IndInv, QueueInv, DrainedInv, ReqLockstep
  <1> QED BY <1>2, <1>3, <1>4 DEF IndInv

-----------------------------------------------------------------------------
\* The handlers.  One that does not talk to the server pops its event and
\* raises others, and may change the board as long as nothing leaves it.
BoardType ==
  /\ obj \in [Slots -> {"null", "alive", "dead"}]
  /\ guid \in [Slots -> GUIDs]
  /\ DOMAIN handlers \subseteq GUIDs
  /\ \A g \in DOMAIN handlers : handlers[g] \in Slots \cup {Dangling}

LEMMA HandlerStep ==
  ASSUME IndInv, NEW e, NEW S, \A f \in S : f \in EventSet /\ WellAddressed(f)',
         pc = "dispatch", Done(e, S),
         BoardInv', BoardType', ObjectsStay,
         enemyBulletsSize' \in Int, scrambled' \in BOOLEAN,
         visible' \in BOOLEAN, invincible' \in BOOLEAN,
         UNCHANGED <<numEnemies, playerBulletsSize, linkVars, currentTime>>
  PROVE  IndInv'
  <1> USE DEF Done, controlVars, linkVars
  <1>1. QueueType' /\ QueueInv'
    BY HandlingKeepsQueue DEF IndInv
  <1>2. TypeOK'
    BY <1>1 DEF IndInv, TypeOK, QueueType, BoardType
  <1>3. DrainedInv' /\ ReqLockstep'
    BY DEF IndInv, DrainedInv, ReqLockstep
  <1> QED BY <1>1, <1>2, <1>3 DEF IndInv

\* A handler that leaves the board alone.
LEMMA StillHandlerStep ==
  ASSUME IndInv, NEW e, NEW S, \A f \in S : f \in EventSet /\ WellAddressed(f)',
         pc = "dispatch", Done(e, S),
         scrambled' \in BOOLEAN, visible' \in BOOLEAN,
         UNCHANGED <<boardVars, handlers, invincible, linkVars, currentTime>>
  PROVE  IndInv'
  <1>1. UNCHANGED <<obj, guid, handlers, numEnemies, enemyBulletsSize,
                    playerBulletsSize>>
    BY DEF boardVars
  <1>2. BoardInv' /\ BoardType' /\ ObjectsStay
    BY <1>1 DEF IndInv, TypeOK, BoardInv, BoardType, ObjectsStay
  <1>3. enemyBulletsSize' \in Int /\ invincible' \in BOOLEAN
    BY <1>1 DEF IndInv, TypeOK
  <1> QED BY <1>1, <1>2, <1>3, HandlerStep

\* A handler that kills the object its event is addressed to.
LEMMA KillingHandlerStep ==
  ASSUME IndInv, NEW e \in Pending, e.eventType \in AddressedTypes,
         Player \notin MayGet(e.eventType),
         NEW S, \A f \in S : f \in EventSet /\ (ObjectsStay => WellAddressed(f)'),
         pc = "dispatch", Done(e, S), Kill(Target(e)), BoardButObjUnchanged,
         UNCHANGED <<scrambled, playerVars, linkVars, currentTime>>
  PROVE  IndInv'
  <1>1. WellAddressed(e)
    BY DEF IndInv, QueueInv
  <1>2. Target(e) \in Slots \ {Player} /\ obj[Target(e)] # "null"
    BY <1>1, TargetIsAddressee DEF IndInv
  <1>3. UNCHANGED <<guid, handlers>>
    BY DEF BoardButObjUnchanged
  <1>4. BoardInv' /\ ObjectsStay /\ obj' \in [Slots -> {"null", "alive", "dead"}]
    BY <1>2, <1>3, KillKeepsBoard DEF IndInv
  <1>5. BoardType'
    BY <1>3, <1>4 DEF IndInv, TypeOK, BoardType
  <1>6. /\ enemyBulletsSize' \in Int /\ scrambled' \in BOOLEAN
        /\ visible' \in BOOLEAN /\ invincible' \in BOOLEAN
        /\ UNCHANGED <<numEnemies, playerBulletsSize, linkVars, currentTime>>
    BY DEF IndInv, TypeOK, BoardButObjUnchanged, playerVars
  <1> QED BY <1>4, <1>5, <1>6, HandlerStep

\* Bullets: a hit is passed on to the enemy, or to the player's watchers.
LEMMA BulletHitEnemyKeeps ==
  ASSUME IndInv, NEW e \in Pending, BulletHitEnemy(e), UNCHANGED currentTime
  PROVE  IndInv'
  <1> DEFINE hit == Event("ENEMY_DIED", e.intendedGUID, e.timestamp)
             S == IF Target(e) \in Bullets THEN {hit} ELSE {}
  <1>1. e.eventType = "COLLISION_ENEMY" /\ WellAddressed(e)
    BY DEF BulletHitEnemy, Handle, IndInv, QueueInv
  <1>2. e.intendedGUID \in Enemies /\ obj[e.intendedGUID] # "null"
          /\ e.intendedGUID \in GUIDs
    BY <1>1, SlotFacts DEF WellAddressed
  <1>3. /\ hit \in EventSet /\ hit.eventType = "ENEMY_DIED"
        /\ hit.associatedGUID = e.intendedGUID
    <2>1. "ENEMY_DIED" \in AddressedTypes \cup BroadcastTypes
      BY DEF AddressedTypes
    <2>2. e.timestamp \in Stamps
      BY StampFacts DEF IndInv
    <2> QED BY <1>2, <2>1, <2>2 DEF Event, EventAt, EventSet
  <1> HIDE DEF hit
  <1>4. WellAddressed(hit)
    BY <1>2, <1>3 DEF WellAddressed, MayGet
  <1>5. \A f \in S : f \in EventSet /\ (ObjectsStay => WellAddressed(f)')
    BY <1>3, <1>4, StillAddressed
  <1>6. e.eventType \in AddressedTypes /\ Player \notin MayGet(e.eventType)
    BY <1>1, SlotFacts DEF AddressedTypes, MayGet
  <1>7. Done(e, S) /\ pc = "dispatch" /\ Kill(Target(e)) /\ BoardButObjUnchanged
          /\ UNCHANGED <<scrambled, playerVars, linkVars, currentTime>>
    BY DEF BulletHitEnemy, Handle, hit
  <1> HIDE DEF S
  <1> QED BY <1>5, <1>6, <1>7, KillingHandlerStep

LEMMA BulletHitPlayerKeeps ==
  ASSUME IndInv, NEW e \in Pending, BulletHitPlayer(e), UNCHANGED currentTime
  PROVE  IndInv'
  <1> DEFINE S == {Event("PLAYER_DIED", Broadcast, e.timestamp)}
  <1>1. e.eventType = "COLLISION_PLAYER"
    BY DEF BulletHitPlayer, Handle
  <1>2. "PLAYER_DIED" \in BroadcastTypes /\ e.timestamp \in Stamps
    BY StampFacts DEF IndInv, BroadcastTypes
  <1>3. \A f \in S : f \in EventSet /\ WellAddressed(f)'
    BY <1>2, BroadcastEvent
  <1>4. e.eventType \in AddressedTypes /\ Player \notin MayGet(e.eventType)
    BY <1>1, SlotFacts DEF AddressedTypes, MayGet
  <1>5. Done(e, S) /\ pc = "dispatch" /\ Kill(Target(e)) /\ BoardButObjUnchanged
          /\ UNCHANGED <<scrambled, playerVars, linkVars, currentTime>>
    BY DEF BulletHitPlayer, Handle
  <1> HIDE DEF S
  <1> QED BY <1>3, <1>4, <1>5, KillingHandlerStep

LEMMA BulletHitBoundKeeps ==
  ASSUME IndInv, NEW e \in Pending, BulletHitBound(e), UNCHANGED currentTime
  PROVE  IndInv'
  <1>1. e.eventType = "COLLISION_BOUND"
    BY DEF BulletHitBound, Handle
  <1>2. e.eventType \in AddressedTypes /\ Player \notin MayGet(e.eventType)
    BY <1>1, SlotFacts DEF AddressedTypes, MayGet
  <1>3. Done(e, {}) /\ pc = "dispatch" /\ Kill(Target(e)) /\ BoardButObjUnchanged
          /\ UNCHANGED <<scrambled, playerVars, linkVars, currentTime>>
    BY DEF BulletHitBound, Handle
  <1> QED BY <1>2, <1>3, KillingHandlerStep

\* Enemies: a dead one is a point, a touch is a hit, a shot is a new bullet.
LEMMA EnemyDiedKeeps ==
  ASSUME IndInv, NEW e \in Pending, EnemyDied(e), UNCHANGED currentTime
  PROVE  IndInv'
  <1> DEFINE S == {Event("UPDATE_SCORE", Broadcast, e.timestamp)}
  <1>1. e.eventType = "ENEMY_DIED"
    BY DEF EnemyDied, Handle
  <1>2. "UPDATE_SCORE" \in BroadcastTypes /\ e.timestamp \in Stamps
    BY StampFacts DEF IndInv, BroadcastTypes
  <1>3. \A f \in S : f \in EventSet /\ WellAddressed(f)'
    BY <1>2, BroadcastEvent
  <1>4. e.eventType \in AddressedTypes /\ Player \notin MayGet(e.eventType)
    BY <1>1, SlotFacts DEF AddressedTypes, MayGet
  <1>5. Done(e, S) /\ pc = "dispatch" /\ Kill(Target(e)) /\ BoardButObjUnchanged
          /\ UNCHANGED <<scrambled, playerVars, linkVars, currentTime>>
    BY DEF EnemyDied, Handle
  <1> HIDE DEF S
  <1> QED BY <1>3, <1>4, <1>5, KillingHandlerStep

LEMMA EnemyTouchesPlayerKeeps ==
  ASSUME IndInv, NEW e \in Pending, EnemyTouchesPlayer(e), UNCHANGED currentTime
  PROVE  IndInv'
  <1> DEFINE S == {Event("PLAYER_DIED", Broadcast, e.timestamp)}
  <1>1. "PLAYER_DIED" \in BroadcastTypes /\ e.timestamp \in Stamps
    BY StampFacts DEF IndInv, BroadcastTypes
  <1>2. \A f \in S : f \in EventSet /\ WellAddressed(f)'
    BY <1>1, BroadcastEvent
  <1>3. /\ Done(e, S) /\ pc = "dispatch"
        /\ UNCHANGED <<boardVars, handlers, scrambled, playerVars, linkVars, currentTime>>
    BY DEF EnemyTouchesPlayer, Handle
  <1>4. /\ scrambled' \in BOOLEAN /\ visible' \in BOOLEAN
        /\ UNCHANGED <<boardVars, handlers, invincible, linkVars, currentTime>>
    BY <1>3 DEF IndInv, TypeOK, playerVars
  <1> HIDE DEF S
  <1> QED BY <1>2, <1>3, <1>4, StillHandlerStep

LEMMA RepositionKeeps ==
  ASSUME IndInv, NEW e \in Pending, Reposition(e), UNCHANGED currentTime
  PROVE  IndInv'
  <1>1. /\ Done(e, {}) /\ pc = "dispatch"
        /\ UNCHANGED <<boardVars, handlers, scrambled, playerVars, linkVars, currentTime>>
    BY DEF Reposition, Handle
  <1>2. /\ scrambled' \in BOOLEAN /\ visible' \in BOOLEAN
        /\ UNCHANGED <<boardVars, handlers, invincible, linkVars, currentTime>>
    BY <1>1 DEF IndInv, TypeOK, playerVars
  <1> QED BY <1>1, <1>2, StillHandlerStep

LEMMA EnemyShootsKeeps ==
  ASSUME IndInv, NEW e \in Pending, EnemyShoots(e), UNCHANGED currentTime
  PROVE  IndInv'
  <1> DEFINE slot == IF e.eventType = "SHOOT_LANE" THEN LaneBullet ELSE RandomBullet
  <1>1. slot \in Bullets /\ EnemyBullets \in SUBSET Bullets
    BY DEF Bullets, EnemyBullets
  <1>2. AddBullet(slot, EnemyBullets, slot)
    BY DEF EnemyShoots, LaneBullet, RandomBullet
  <1>3. /\ enemyBulletsSize' = enemyBulletsSize + (IF FreeForBullet(slot) THEN 1 ELSE 0)
        /\ Done(e, {}) /\ pc = "dispatch"
        /\ UNCHANGED <<numEnemies, playerBulletsSize, scrambled, playerVars,
                       linkVars, currentTime>>
    BY DEF EnemyShoots, Handle
  <1> HIDE DEF slot
  <1>4. BoardInv' /\ ObjectsStay /\ BoardType'
    BY <1>1, <1>2, AddBulletKeepsBoard DEF IndInv, BoardType
  <1>5. /\ enemyBulletsSize' \in Int /\ scrambled' \in BOOLEAN
        /\ visible' \in BOOLEAN /\ invincible' \in BOOLEAN
        /\ UNCHANGED <<numEnemies, playerBulletsSize, linkVars, currentTime>>
    BY <1>3 DEF IndInv, TypeOK, playerVars
  <1> QED BY <1>3, <1>4, <1>5, HandlerStep

\* The player: a shot, and a hit that costs a life or does not.
LEMMA PlayerShootsKeeps ==
  ASSUME IndInv, NEW e \in Pending, PlayerShoots(e), UNCHANGED currentTime
  PROVE  IndInv'
  <1>1. PlayerBullet \in Bullets /\ {PlayerBullet} \in SUBSET Bullets
    BY DEF Bullets
  <1>2. AddBullet(PlayerBullet, {PlayerBullet}, PlayerBullet)
    BY DEF PlayerShoots, PlayerBullet
  <1>3. /\ Done(e, {}) /\ pc = "dispatch"
        /\ UNCHANGED <<numEnemies, enemyBulletsSize, playerBulletsSize, scrambled,
                       playerVars, linkVars, currentTime>>
    BY DEF PlayerShoots, Handle
  <1>4. BoardInv' /\ ObjectsStay /\ BoardType'
    BY <1>1, <1>2, AddBulletKeepsBoard DEF IndInv, BoardType
  <1>5. /\ enemyBulletsSize' \in Int /\ scrambled' \in BOOLEAN
        /\ visible' \in BOOLEAN /\ invincible' \in BOOLEAN
        /\ UNCHANGED <<numEnemies, playerBulletsSize, linkVars, currentTime>>
    BY <1>3 DEF IndInv, TypeOK, playerVars
  <1> QED BY <1>3, <1>4, <1>5, HandlerStep

LEMMA PlayerDiedKeeps ==
  ASSUME IndInv, NEW e \in Pending, PlayerDied(e), UNCHANGED currentTime
  PROVE  IndInv'
  <1>1. PICK time \in GarbageStamps :
          Done(e, {Event("PLAYER_LOST_LIFE", Broadcast, time)})
    BY DEF PlayerDied
  <1>2. "PLAYER_LOST_LIFE" \in BroadcastTypes /\ time \in Stamps
    BY DEF BroadcastTypes, Stamps
  <1> DEFINE S == {Event("PLAYER_LOST_LIFE", Broadcast, time)}
  <1>3. \A f \in S : f \in EventSet /\ WellAddressed(f)'
    BY <1>2, BroadcastEvent
  <1>4. pc = "dispatch" /\ scrambled' \in BOOLEAN /\ visible' \in BOOLEAN
          /\ UNCHANGED <<boardVars, handlers, invincible, linkVars, currentTime>>
    BY DEF PlayerDied, Handle, IndInv, TypeOK
  <1> HIDE DEF S
  <1>5. Done(e, S)
    BY <1>1 DEF S
  <1> QED BY <1>3, <1>4, <1>5, StillHandlerStep

LEMMA PlayerShieldedKeeps ==
  ASSUME IndInv, NEW e \in Pending, PlayerShielded(e), UNCHANGED currentTime
  PROVE  IndInv'
  <1>1. /\ Done(e, {}) /\ pc = "dispatch"
        /\ UNCHANGED <<boardVars, handlers, scrambled, playerVars, linkVars, currentTime>>
    BY DEF PlayerShielded, Handle
  <1>2. /\ scrambled' \in BOOLEAN /\ visible' \in BOOLEAN
        /\ UNCHANGED <<boardVars, handlers, invincible, linkVars, currentTime>>
    BY <1>1 DEF IndInv, TypeOK, playerVars
  <1> QED BY <1>1, <1>2, StillHandlerStep

-----------------------------------------------------------------------------
\* The requests to the server and its replies.
LEMMA SendRequestKeeps ==
  ASSUME IndInv, NEW e \in Pending, SendRequest(e), UNCHANGED currentTime
  PROVE  IndInv'
  <1> USE DEF boardVars, playerVars
  <1>1. QueueType' /\ QueueInv'
    <2>1. queue' = PopAndRaise(e, {}) /\ ObjectsStay
      BY DEF SendRequest, ObjectsStay
    <2> QED BY <2>1, HandlingKeepsQueue DEF IndInv
  <1>2. /\ socket' = "sent" /\ request' \in Requests /\ reply' = "none"
        /\ points' = points /\ pc' = "await"
    BY DEF SendRequest, Handle, Send, RequestFor, Requests
  <1>3. UNCHANGED <<outcome, boardVars, handlers, scrambled, playerVars, currentTime>>
    BY DEF SendRequest
  <1>4. TypeOK'
    BY <1>1, <1>2, <1>3 DEF IndInv, TypeOK, QueueType, Control
  <1>5. BoardInv' /\ DrainedInv' /\ ReqLockstep'
    BY <1>2, <1>3 DEF IndInv, BoardInv, DrainedInv, ReqLockstep
  <1> QED BY <1>1, <1>4, <1>5 DEF IndInv

LEMMA HandleEventKeeps == IndInv /\ HandleEvent => IndInv'
  <1> SUFFICES ASSUME IndInv, HandleEvent PROVE IndInv'
    OBVIOUS
  <1>1. UNCHANGED currentTime
    BY DEF HandleEvent
  <1>2. PICK e \in Pending :
          \/ BulletHitEnemy(e) \/ BulletHitPlayer(e) \/ BulletHitBound(e)
          \/ Reposition(e) \/ EnemyTouchesPlayer(e) \/ EnemyDied(e)
          \/ EnemyShoots(e) \/ PlayerShoots(e) \/ PlayerDied(e)
          \/ PlayerShielded(e) \/ SendRequest(e)
    BY DEF HandleEvent
  <1> QED
    BY <1>1, <1>2, BulletHitEnemyKeeps, BulletHitPlayerKeeps, BulletHitBoundKeeps,
       RepositionKeeps, EnemyTouchesPlayerKeeps, EnemyDiedKeeps, EnemyShootsKeeps,
       PlayerShootsKeeps, PlayerDiedKeeps, PlayerShieldedKeeps, SendRequestKeeps

LEMMA ReplyArrivesKeeps == IndInv /\ ReplyArrives => IndInv'
  <1> SUFFICES ASSUME IndInv, ReplyArrives PROVE IndInv'
    OBVIOUS
  <1> USE DEF ReplyArrives, ScoreAcknowledged, LivesLeft, NoLivesLeft,
              WinnerAcknowledged, Receive, Exit, managerVars, boardVars, playerVars
  <1>1. UNCHANGED <<managerVars, boardVars, invincible, points, currentTime>>
    OBVIOUS
  <1>2. /\ socket' = "idle" /\ request' = "none" /\ reply' = "none"
        /\ visible' \in BOOLEAN
    BY DEF IndInv, TypeOK
  <1>3. pc' \in {"dispatch", "exited"} /\ outcome' \in Outcomes
    BY DEF IndInv, TypeOK, Outcomes
  <1>4. TypeOK'
    BY <1>1, <1>2, <1>3 DEF IndInv, TypeOK, Pending, Control
  <1>5. DrainedInv' /\ ReqLockstep'
    BY <1>2, <1>3 DEF DrainedInv, ReqLockstep
  <1> QED BY <1>1, <1>4, <1>5, QuietStep

LEMMA ServerKeeps == IndInv /\ ServerStep => IndInv'
  <1> SUFFICES ASSUME IndInv, ServerStep PROVE IndInv'
    OBVIOUS
  <1> USE DEF ServerStep, ServerReply, playerVars, controlVars
  <1>1. UNCHANGED <<managerVars, boardVars>>
    OBVIOUS
  <1>2. TypeOK'
    BY DEF IndInv, TypeOK, Pending, managerVars, boardVars, LifeReplies
  <1>3. DrainedInv' /\ ReqLockstep'
    BY DEF IndInv, DrainedInv, ReqLockstep, Pending, managerVars
  <1> QED BY <1>1, <1>2, <1>3, QuietStep

-----------------------------------------------------------------------------
LEMMA InitInv == Init => IndInv
  <1> SUFFICES ASSUME Init PROVE IndInv
    OBVIOUS
  <1>1. Pending = {}
    BY DEF Init, Pending, EmptyBag, SetToBag
  <1>2. ENEMY_MAX \in Nat
    BY CountsAreNatural
  <1>3. /\ obj \in [Slots -> {"null", "alive", "dead"}]
        /\ guid \in [Slots -> GUIDs]
        /\ DOMAIN handlers \subseteq GUIDs
        /\ \A g \in DOMAIN handlers : handlers[g] \in Slots \cup {Dangling}
    BY SlotFacts DEF Init, BoardInit
  <1>4. /\ socket = "idle" /\ request = "none" /\ reply = "none" /\ points = 0
        /\ pc = "script" /\ outcome = "running" /\ currentTime = BaseTime
        /\ visible = TRUE /\ invincible = FALSE /\ scrambled = FALSE
        /\ numEnemies = ENEMY_MAX /\ enemyBulletsSize = 0 /\ playerBulletsSize = 0
    BY DEF Init, BoardInit, LinkInit
  <1>5. BoardInv
    <2>1. Slots = {Player} \cup Enemies \cup Bullets
      BY DEF Slots
    <2>2. obj[Player] = "alive"
      BY SlotFacts DEF Init, BoardInit
    <2>3. ASSUME NEW s \in Slots, obj[s] # "null"
          PROVE  guid[s] = s /\ s \in DOMAIN handlers /\ handlers[s] = s
      <3>1. s \notin Bullets
        BY <2>3 DEF Init, BoardInit
      <3> QED BY <2>1, <3>1 DEF Init, BoardInit
    <2> QED BY <2>2, <2>3 DEF BoardInv
  <1>6. QueueInv /\ DrainedInv /\ ReqLockstep
    BY <1>1, <1>4 DEF QueueInv, DrainedInv, ReqLockstep
  <1>7. TypeOK
    <2>1. visible \in BOOLEAN /\ invincible \in BOOLEAN /\ scrambled \in BOOLEAN
      BY <1>4
    <2>2. pc \in Control /\ outcome \in Outcomes
      BY <1>4 DEF Control, Outcomes
    <2>3. /\ socket \in {"idle", "sent", "answered"}
          /\ request \in Requests \cup {"none"}
          /\ reply \in LifeReplies \cup {"ok", "none"}
          /\ currentTime \in {BaseTime} \cup NextTimes
      BY <1>4
    <2>4. /\ numEnemies \in Int /\ enemyBulletsSize \in Int
          /\ playerBulletsSize \in Int /\ points \in Nat
      BY <1>2, <1>4
    <2> QED BY <1>1, <1>3, <2>1, <2>2, <2>3, <2>4 DEF TypeOK
  <1> QED BY <1>5, <1>6, <1>7 DEF IndInv

LEMMA NextInv == IndInv /\ [Next]_vars => IndInv'
  <1> SUFFICES ASSUME IndInv, [Next]_vars PROVE IndInv'
    OBVIOUS
  <1>1. CASE ClientStep
    <2>1. CASE \E col \in Columns : SearchHits(col)
      BY <2>1, SearchHitsKeeps
    <2> QED
      BY <1>1, <2>1, QuietActions, ReadInputKeeps, CheckCollisionsKeeps,
         DoMovementKeeps, ShootLaneKeeps, HandleEventKeeps, EndOfDrainKeeps,
         ReplyArrivesKeeps, CleanUpKeeps, CheckWinKeeps
      DEF ClientStep
  <1>2. CASE ServerStep
    BY <1>2, ServerKeeps
  <1>3. CASE UNCHANGED vars
    <2> USE DEF vars, managerVars, boardVars, linkVars, playerVars, controlVars
    <2>1. TypeOK'
      BY <1>3 DEF IndInv, TypeOK, Pending
    <2>2. DrainedInv' /\ ReqLockstep'
      BY <1>3 DEF IndInv, DrainedInv, ReqLockstep, Pending
    <2> QED BY <1>3, <2>1, <2>2, QuietStep
  <1> QED BY <1>1, <1>2, <1>3 DEF Next, Ended

\* Objects, handlers, pending events and the socket fit together in every
\* state of every run, whatever the size of the formation.
THEOREM Inductive == Spec => []IndInv
  <1> QED BY InitInv, NextInv, PTL DEF Spec

\* Every variable keeps its type.
THEOREM TypeCorrect == Spec => []TypeOK
  <1>1. IndInv => TypeOK
    BY DEF IndInv
  <1> QED BY <1>1, Inductive, PTL

\* A new bullet has its own handler registered before anything is sent to it,
\* and no object ever answers to the guid of another.
THEOREM HandlersMatch == Spec => []HandlersMatchBoard
  <1>1. IndInv => HandlersMatchBoard
    BY DEF IndInv, BoardInv, HandlersMatchBoard, OnBoard
  <1> QED BY <1>1, Inductive, PTL

\* handleEvents never calls the handler of an object that has been deleted or
\* that was never registered.
THEOREM AddresseesLive == Spec => []AddresseeLive
  <1>1. ASSUME IndInv, NEW e \in Pending
        PROVE  /\ e.eventType \in AddressedTypes => Reaches(e.associatedGUID)
               /\ e.eventType = "COLLISION_ENEMY" => Reaches(e.intendedGUID)
    <2>1. WellAddressed(e)
      BY <1>1 DEF IndInv, QueueInv
    <2>2. ASSUME NEW s \in Slots, obj[s] # "null"
          PROVE  Reaches(s)
      BY <1>1, <2>2 DEF IndInv, BoardInv, Reaches
    <2>3. MayGet(e.eventType) \subseteq Slots /\ Enemies \subseteq Slots
      BY SlotFacts DEF MayGet
    <2> QED BY <2>1, <2>2, <2>3 DEF WellAddressed
  <1>2. IndInv => AddresseeLive
    BY <1>1 DEF AddresseeLive
  <1> QED BY <1>2, Inductive, PTL

\* The client never sends a request while another one is unanswered, and only
\* ever waits for a request it has sent.
THEOREM Lockstep == Spec => []ReqLockstep
  <1>1. IndInv => ReqLockstep
    BY DEF IndInv
  <1> QED BY <1>1, Inductive, PTL
=============================================================================
