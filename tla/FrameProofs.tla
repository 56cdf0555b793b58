----------------------------- MODULE FrameProofs -----------------------------
(***************************************************************************)
(* Proofs about the order of a frame (FrameInv), and of what follows from  *)
(* it alone: shots land, the player is visible when drawn, the shield      *)
(* holds, a win that is certain is not spoilt by a lost life.              *)
(***************************************************************************)
EXTENDS GameProofs

-----------------------------------------------------------------------------
\* What is pending after a raise, and how often.
LEMMA AfterRaise ==
  ASSUME TypeOK, NEW S, queue' = Raise(S)
  PROVE  /\ Pending' = Pending \cup S
         /\ \A f \in Pending' :
              queue'[f] = (IF f \in Pending THEN queue[f] ELSE 0)
                            + (IF f \in S THEN 1 ELSE 0)
  BY DEF Raise, Pending, (+), SetToBag, TypeOK

\* The same for the queue that an event leaves while others are raised.
LEMMA AfterPop ==
  ASSUME TypeOK, NEW e \in Pending
  PROVE  /\ DOMAIN (queue (-) SetToBag({e})) =
              (IF queue[e] = 1 THEN Pending \ {e} ELSE Pending)
         /\ \A f \in DOMAIN (queue (-) SetToBag({e})) :
              (queue (-) SetToBag({e}))[f] = queue[f] - (IF f = e THEN 1 ELSE 0)
  BY DEF Pending, (-), SetToBag, TypeOK

LEMMA AfterHandling ==
  ASSUME TypeOK, NEW e \in Pending, NEW S, queue' = PopAndRaise(e, S)
  PROVE  /\ Pending' = (IF queue[e] = 1 THEN Pending \ {e} ELSE Pending) \cup S
         /\ \A f \in Pending' :
              queue'[f] = (IF f \in Pending THEN queue[f] ELSE 0)
                            - (IF f = e THEN 1 ELSE 0) + (IF f \in S THEN 1 ELSE 0)
  <1> DEFINE Q == queue (-) SetToBag({e})
  <1>1. /\ DOMAIN Q = (IF queue[e] = 1 THEN Pending \ {e} ELSE Pending)
        /\ \A f \in DOMAIN Q : Q[f] = queue[f] - (IF f = e THEN 1 ELSE 0)
    BY AfterPop
  <1>2. queue' = Q (+) SetToBag(S)
    BY DEF PopAndRaise
  <1>3. \A f \in Pending : queue[f] \in Nat \ {0}
    BY DEF TypeOK
  <1> HIDE DEF Q
  <1>4. \A f \in DOMAIN Q : Q[f] \in Nat
    BY <1>1, <1>3
  <1>5. /\ DOMAIN (Q (+) SetToBag(S)) = DOMAIN Q \cup S
        /\ \A f \in DOMAIN Q \cup S :
             (Q (+) SetToBag(S))[f] = (IF f \in DOMAIN Q THEN Q[f] ELSE 0)
                                        + (IF f \in S THEN 1 ELSE 0)
    BY <1>4 DEF (+), SetToBag
  <1>6. \A f : (IF f \in DOMAIN Q THEN Q[f] ELSE 0)
                = (IF f \in Pending THEN queue[f] ELSE 0) - (IF f = e THEN 1 ELSE 0)
    BY <1>1, <1>3
  <1>7. Pending' = DOMAIN (Q (+) SetToBag(S))
    BY <1>2 DEF Pending
  <1>8. Pending' = (IF queue[e] = 1 THEN Pending \ {e} ELSE Pending) \cup S
    BY <1>1, <1>5, <1>7
  <1>9. ASSUME NEW f \in Pending'
        PROVE  queue'[f] = (IF f \in Pending THEN queue[f] ELSE 0)
                            - (IF f = e THEN 1 ELSE 0) + (IF f \in S THEN 1 ELSE 0)
    <2>1. queue'[f] = (IF f \in DOMAIN Q THEN Q[f] ELSE 0) + (IF f \in S THEN 1 ELSE 0)
      BY <1>2, <1>5, <1>7
    <2> QED BY <2>1, <1>6
  <1> QED BY <1>8, <1>9

-----------------------------------------------------------------------------
\* The types of what the phases of a frame raise.
LEMMA CollisionTypesRaised ==
  ASSUME NEW S \in Collisions(currentTime), NEW e \in S
  PROVE  e.eventType \in CollisionTypes /\ e.timestamp = currentTime
  BY DEF Collisions, CollisionTypes, Event, EventAt

LEMMA MovementTypesRaised ==
  ASSUME NEW S \in Movements, NEW e \in S
  PROVE  e.eventType \in MovementTypes
  <1>1. PICK step \in {"MOVE_DOWN", "MOVE_LAT"} :
          \/ \E f \in OnBoard(Enemies) : e = Event(step, guid[f], 0)
          \/ \E b \in OnBoard(Bullets) : e = Event("MOVE", guid[b], 0)
    BY DEF Movements
  <1> QED BY <1>1 DEF MovementTypes, Event, EventAt

\* readInput adds the keys that are down and at most one shot, which finds
\* the slot of the player's bullet free.
LEMMA InputRaised ==
  ASSUME TypeOK, ReadInput
  PROVE  LET move == Event("KEYBOARD_INPUT", guid[Player], 0)
             shoot == Event("SHOOT", guid[Player], 0)
         IN  /\ Pending' \subseteq Pending \cup {move, shoot}
             /\ Pending \subseteq Pending'
             /\ \A f \in Pending \ {move, shoot} : queue'[f] = queue[f]
             /\ shoot \notin Pending /\ shoot \in Pending' =>
                  queue'[shoot] = 1 /\ CanPlayerShoot
  <1> DEFINE move == Event("KEYBOARD_INPUT", guid[Player], 0)
             shoot == Event("SHOOT", guid[Player], 0)
  <1>1. PICK keys \in 0..MaxKeys, space \in BOOLEAN :
          queue' = (queue (+) (IF keys = 0 THEN EmptyBag ELSE [e \in {move} |-> keys]))
                     (+) (IF space /\ CanPlayerShoot THEN SetToBag({shoot}) ELSE EmptyBag)
    BY DEF ReadInput
  <1>2. move # shoot
    BY DEF Event, EventAt
  <1>3. \A f \in DOMAIN queue : queue[f] \in Nat \ {0}
    BY DEF TypeOK, Pending
  <1> HIDE DEF move, shoot
  <1> DEFINE K == IF keys = 0 THEN EmptyBag ELSE [e \in {move} |-> keys]
             X == IF space /\ CanPlayerShoot THEN SetToBag({shoot}) ELSE EmptyBag
             Q == queue (+) K
  <1>4. /\ DOMAIN K \subseteq {move} /\ (\A f \in DOMAIN K : K[f] \in Nat \ {0})
        /\ DOMAIN X \subseteq {shoot} /\ (\A f \in DOMAIN X : X[f] = 1 /\ CanPlayerShoot)
    BY DEF EmptyBag, SetToBag
  <1> HIDE DEF K, X
  <1>5. /\ DOMAIN Q = DOMAIN queue \cup DOMAIN K
        /\ \A f \in DOMAIN Q : Q[f] \in Nat \ {0}
        /\ \A f \in DOMAIN queue \ {move} : Q[f] = queue[f]
    BY <1>3, <1>4 DEF (+)
  <1>6. queue' = Q (+) X
    BY <1>1 DEF K, X
  <1> HIDE DEF Q
  <1>7. /\ DOMAIN queue' = DOMAIN Q \cup DOMAIN X
        /\ \A f \in DOMAIN Q \ {shoot} : queue'[f] = Q[f]
        /\ shoot \notin DOMAIN Q /\ shoot \in DOMAIN queue' =>
             queue'[shoot] = 1 /\ CanPlayerShoot
    BY <1>4, <1>5, <1>6 DEF (+)
  <1>8. /\ Pending' \subseteq Pending \cup {move, shoot} /\ Pending \subseteq Pending'
        /\ \A f \in Pending \ {move, shoot} : queue'[f] = queue[f]
        /\ shoot \notin Pending /\ shoot \in Pending' =>
             queue'[shoot] = 1 /\ CanPlayerShoot
    BY <1>2, <1>4, <1>5, <1>7 DEF Pending
  <1> QED BY <1>8 DEF move, shoot

-----------------------------------------------------------------------------
(***************************************************************************)
(* The order of a frame.                                                   *)
(***************************************************************************)
\* The steps that leave the queue alone.
LEMMA QuietFrame ==
  ASSUME IndInv, FrameInv,
         \/ RunScripts \/ ScriptFails \/ ReadClock
         \/ NobodyToShoot \/ LaneTaken \/ DrawRandomShot \/ NoRandomShot
         \/ \E col \in Columns : SearchMisses(col)
         \/ DrawGameBoard \/ NextFrame \/ CloseWindow
  PROVE  FrameInv'
  <1> USE DEF managerVars, boardVars, linkVars, playerVars, Advance, Exit,
              RunScripts, ScriptFails, ReadClock, NobodyToShoot, LaneTaken,
              DrawRandomShot, NoRandomShot, SearchMisses, DrawGameBoard, NextFrame,
              CloseWindow
  <1>1. UNCHANGED <<queue, scrambled, obj, socket, request>>
    OBVIOUS
  <1>2. MayBePending(pc) \subseteq MayBePending(pc')
    BY DEF MayBePending, InputTypes, CollisionTypes, MovementTypes,
           AddressedTypes, BroadcastTypes
  <1>3. PhaseInv'
    BY <1>1, <1>2 DEF FrameInv, PhaseInv, Pending
  <1>4. CleanInv'
    BY <1>1 DEF FrameInv, CleanInv, Drain, FreeForBullet
  <1>5. LinkInv'
    BY <1>1 DEF FrameInv, LinkInv
  <1> QED BY <1>3, <1>4, <1>5 DEF FrameInv

\* The steps of the main loop that raise events of the types T.
LEMMA RaisingFrame ==
  ASSUME IndInv, FrameInv, NEW T, MayBePending(pc) \cup T \subseteq MayBePending(pc'),
         \A e \in Pending' : e \in Pending \/ e.eventType \in T,
         pc \notin Drain, pc' \notin Drain \cup {"draw", "cleanUp", "search"},
         pc \notin {"draw", "cleanUp"},
         UNCHANGED <<scrambled, boardVars, linkVars, outcome>>
  PROVE  FrameInv'
  <1>1. PhaseInv'
    BY DEF FrameInv, PhaseInv
  <1>2. CleanInv' /\ LinkInv'
    BY DEF FrameInv, CleanInv, LinkInv, FreeForBullet, boardVars, linkVars, Drain
  <1> QED BY <1>1, <1>2 DEF FrameInv

\* Once the drain has begun anything may be pending.
LEMMA DrainFrame ==
  ASSUME TypeOK', LinkInv', pc' \in Drain
  PROVE  FrameInv'
  <1>1. PhaseInv'
    BY DEF PhaseInv, MayBePending, TypeOK, EventSet, Drain
  <1>2. CleanInv'
    BY DEF CleanInv, Drain
  <1> QED BY <1>1, <1>2 DEF FrameInv

\* What a step of the drain does to the link, and to the main loop.
LEMMA HandlerLink ==
  ASSUME IndInv, LinkInv, HandleEvent
  PROVE  LinkInv' /\ pc = "dispatch" /\ pc' \in Drain /\ UNCHANGED <<outcome, currentTime>>
  <1> USE DEF LinkInv, Handle, Done, linkVars, controlVars, Drain
  <1>1. PICK e \in Pending :
          \/ BulletHitEnemy(e) \/ BulletHitPlayer(e) \/ BulletHitBound(e)
          \/ Reposition(e) \/ EnemyTouchesPlayer(e) \/ EnemyDied(e)
          \/ EnemyShoots(e) \/ PlayerShoots(e) \/ PlayerDied(e)
          \/ PlayerShielded(e) \/ SendRequest(e)
    BY DEF HandleEvent
  <1>2. CASE SendRequest(e)
    <2>1. request' \in Requests /\ socket' = "sent" /\ pc' = "await"
            /\ UNCHANGED outcome /\ pc = "dispatch"
      BY <1>2 DEF SendRequest, Send, RequestFor, Requests
    <2> QED BY <2>1 DEF Requests, ADD_POINTS, PLAYER_DEAD, WINNER, HandleEvent
  <1>3. CASE \/ BulletHitEnemy(e) \/ BulletHitPlayer(e) \/ BulletHitBound(e)
             \/ Reposition(e) \/ EnemyTouchesPlayer(e) \/ EnemyDied(e)
             \/ EnemyShoots(e) \/ PlayerShoots(e) \/ PlayerDied(e)
             \/ PlayerShielded(e)
    <2>1. pc = "dispatch" /\ UNCHANGED <<linkVars, controlVars>>
      BY <1>3 DEF BulletHitEnemy, BulletHitPlayer, BulletHitBound, Reposition,
              EnemyTouchesPlayer, EnemyDied, EnemyShoots, PlayerShoots, PlayerDied,
              PlayerShielded
    <2> QED BY <2>1 DEF HandleEvent
  <1> QED BY <1>1, <1>2, <1>3

LEMMA FrameInit == Init => FrameInv
  <1> SUFFICES ASSUME Init PROVE FrameInv
    OBVIOUS
  <1>1. Pending = {} /\ pc = "script" /\ scrambled = FALSE /\ socket = "idle"
          /\ request = "none" /\ outcome = "running"
    BY DEF Init, Pending, EmptyBag, SetToBag, LinkInit
  <1>2. \A s \in Slots : obj[s] # "dead"
    BY DEF Init, BoardInit
  <1> QED BY <1>1, <1>2 DEF FrameInv, PhaseInv, CleanInv, LinkInv

LEMMA FrameNext == IndInv /\ FrameInv /\ [Next]_vars => FrameInv'
  <1> SUFFICES ASSUME IndInv, FrameInv, [Next]_vars PROVE FrameInv'
    OBVIOUS
  <1> USE DEF Advance
  <1>1. IndInv' /\ TypeOK /\ TypeOK'
    BY NextInv DEF IndInv
  <1>2. CASE ReadInput
    <2>1. \A e \in Pending' : e \in Pending \/ e.eventType \in InputTypes
      BY <1>1, <1>2, InputRaised DEF Event, EventAt, InputTypes
    <2> QED BY <1>2, <2>1, RaisingFrame DEF ReadInput, MayBePending, Drain, InputTypes
  <1>3. CASE CheckCollisions
    <2>1. \A e \in Pending' : e \in Pending \/ e.eventType \in CollisionTypes
      BY <1>1, <1>3, AfterRaise, CollisionTypesRaised DEF CheckCollisions
    <2> QED BY <1>3, <2>1, RaisingFrame
        DEF CheckCollisions, MayBePending, Drain, CollisionTypes
  <1>4. CASE DoMovement
    <2>1. \A e \in Pending' : e \in Pending \/ e.eventType \in MovementTypes
      BY <1>1, <1>4, AfterRaise, MovementTypesRaised DEF DoMovement
    <2> QED BY <1>4, <2>1, RaisingFrame
        DEF DoMovement, MayBePending, Drain, MovementTypes
  <1>5. CASE ShootLane
    <2>1. \A e \in Pending' : e \in Pending \/ e.eventType \in {"SHOOT_LANE"}
      BY <1>1, <1>5, AfterRaise DEF ShootLane, Event, EventAt
    <2> QED BY <1>5, <2>1, RaisingFrame DEF ShootLane, MayBePending, Drain
  <1>6. CASE \E col \in Columns : SearchHits(col)
    <2>1. pc' = "dispatch" /\ UNCHANGED <<linkVars, outcome>> /\ pc # "exited"
      BY <1>6 DEF SearchHits
    <2>2. LinkInv'
      BY <2>1 DEF FrameInv, LinkInv, linkVars
    <2> QED BY <1>1, <2>1, <2>2, DrainFrame DEF Drain
  <1>7. CASE HandleEvent
    <2>1. LinkInv' /\ pc' \in Drain
      BY <1>7, HandlerLink DEF FrameInv
    <2> QED BY <1>1, <2>1, DrainFrame
  <1>8. CASE ReplyArrives
    <2>1. socket' = "idle" /\ request' = "none" /\ pc' \in {"dispatch", "exited"}
            /\ (pc' # "exited" => UNCHANGED outcome) /\ pc = "await"
      BY <1>8 DEF ReplyArrives, ScoreAcknowledged, LivesLeft, NoLivesLeft,
              WinnerAcknowledged, Receive, Exit
    <2>2. LinkInv'
      BY <2>1 DEF FrameInv, LinkInv
    <2> QED BY <1>1, <2>1, <2>2, DrainFrame DEF Drain
  <1>9. CASE ServerStep
    <2>1. socket = "sent" /\ socket' = "answered" /\ UNCHANGED <<request, pc, outcome>>
      BY <1>9 DEF ServerStep, ServerReply, controlVars
    <2>2. LinkInv' /\ pc' \in Drain
      BY <2>1 DEF FrameInv, LinkInv, IndInv, ReqLockstep, Drain
    <2> QED BY <1>1, <2>2, DrainFrame
  <1>10. CASE EndOfDrain
    <2>1. Pending' = {} /\ scrambled' = FALSE /\ UNCHANGED <<obj, linkVars, outcome>>
            /\ pc = "dispatch" /\ pc' = "draw"
      BY <1>10 DEF EndOfDrain, boardVars, Pending
    <2> QED BY <2>1 DEF FrameInv, PhaseInv, CleanInv, LinkInv, linkVars, Drain
  <1>11. CASE CleanUp
    <2>1. Pending = {} /\ UNCHANGED <<queue, scrambled, linkVars, outcome>>
            /\ pc = "cleanUp" /\ pc' = "checkWin"
      BY <1>11 DEF CleanUp, IndInv, DrainedInv
    <2>2. \A s \in Slots : obj'[s] # "dead"
      BY <1>11 DEF CleanUp, CleanUpObjects
    <2> QED BY <2>1, <2>2
        DEF FrameInv, PhaseInv, CleanInv, LinkInv, linkVars, Drain, Pending
  <1>12. CASE CheckWinConditions
    <2>1. \A e \in Pending' : e \in Pending \/ e.eventType \in {"WON"}
      BY <1>1, <1>12, AfterRaise DEF CheckWinConditions, WinEvents, Event, EventAt
    <2> QED BY <1>12, <2>1, RaisingFrame DEF CheckWinConditions, MayBePending, Drain
  <1>13. CASE UNCHANGED vars
    BY <1>13 DEF vars, managerVars, boardVars, linkVars, controlVars, FrameInv,
       PhaseInv, CleanInv, LinkInv, Pending, FreeForBullet
  <1> QED
    BY <1>2, <1>3, <1>4, <1>5, <1>6, <1>7, <1>8, <1>9, <1>10, <1>11, <1>12, <1>13,
       QuietFrame
    DEF Next, ClientStep, Ended

\* In every state of every run only what the phase of the frame allows is
\* pending, the dead are gone and the queue in order before the next frame,
\* and a request is under way exactly while the socket is busy.
THEOREM FramesInOrder == Spec => []FrameInv
  <1>1. IndInv /\ FrameInv /\ [Next]_vars => (IndInv /\ FrameInv)'
    BY NextInv, FrameNext
  <1> QED BY InitInv, FrameInit, <1>1, PTL DEF Spec

-----------------------------------------------------------------------------
(***************************************************************************)
(* What happens to the pending events of one type.                         *)
(***************************************************************************)
LEMMA RaisingKeepsType ==
  ASSUME TypeOK, NEW S, queue' = Raise(S), NEW t, \A f \in S : f.eventType # t
  PROVE  /\ PendingOf(t)' = PendingOf(t)
         /\ \A f \in PendingOf(t) : queue'[f] = queue[f]
  <1>1. /\ Pending' = Pending \cup S
        /\ \A f \in Pending' :
             queue'[f] = (IF f \in Pending THEN queue[f] ELSE 0)
                           + (IF f \in S THEN 1 ELSE 0)
    BY AfterRaise
  <1>2. \A f \in PendingOf(t) : f \in Pending /\ f \notin S /\ queue[f] \in Nat
    BY DEF PendingOf, TypeOK
  <1> QED BY <1>1, <1>2 DEF PendingOf

LEMMA HandlingKeepsType ==
  ASSUME TypeOK, NEW e \in Pending, NEW S, queue' = PopAndRaise(e, S),
         NEW t, e.eventType # t, \A f \in S : f.eventType # t
  PROVE  /\ PendingOf(t)' = PendingOf(t)
         /\ \A f \in PendingOf(t) : queue'[f] = queue[f]
  <1>1. /\ Pending' = (IF queue[e] = 1 THEN Pending \ {e} ELSE Pending) \cup S
        /\ \A f \in Pending' :
             queue'[f] = (IF f \in Pending THEN queue[f] ELSE 0)
                           - (IF f = e THEN 1 ELSE 0) + (IF f \in S THEN 1 ELSE 0)
    BY AfterHandling
  <1>2. \A f \in PendingOf(t) : f \in Pending /\ f \notin S /\ f # e /\ queue[f] \in Nat
    BY DEF PendingOf, TypeOK
  <1> QED BY <1>1, <1>2 DEF PendingOf

\* Which event the handler of another may raise.
Causes ==
  {<<"COLLISION_ENEMY", "ENEMY_DIED">>, <<"COLLISION_PLAYER", "PLAYER_DIED">>,
   <<"ENEMY_DIED", "UPDATE_SCORE">>, <<"PLAYER_DIED", "PLAYER_LOST_LIFE">>}

LEMMA HandlerCauses ==
  ASSUME NEW e,
         \/ BulletHitEnemy(e) \/ BulletHitPlayer(e) \/ BulletHitBound(e)
         \/ Reposition(e) \/ EnemyTouchesPlayer(e) \/ EnemyDied(e)
         \/ EnemyShoots(e) \/ PlayerShoots(e) \/ PlayerDied(e)
         \/ PlayerShielded(e) \/ SendRequest(e)
  PROVE  \E S : /\ queue' = PopAndRaise(e, S)
               /\ \A f \in S : <<e.eventType, f.eventType>> \in Causes
  <1> USE DEF Handle, Done, Causes, Event, EventAt
  <1>1. CASE BulletHitEnemy(e)
    BY <1>1 DEF BulletHitEnemy
  <1>2. CASE BulletHitPlayer(e) \/ EnemyTouchesPlayer(e)
    BY <1>2 DEF BulletHitPlayer, EnemyTouchesPlayer
  <1>3. CASE BulletHitBound(e) \/ Reposition(e) \/ PlayerShielded(e)
    <2>1. queue' = PopAndRaise(e, {})
      BY <1>3 DEF BulletHitBound, Reposition, PlayerShielded
    <2> QED BY <2>1
  <1>4. CASE EnemyDied(e)
    BY <1>4 DEF EnemyDied
  <1>5. CASE EnemyShoots(e) \/ PlayerShoots(e) \/ SendRequest(e)
    <2>1. queue' = PopAndRaise(e, {})
      BY <1>5 DEF EnemyShoots, PlayerShoots, SendRequest
    <2> QED BY <2>1
  <1>6. CASE PlayerDied(e)
    BY <1>6 DEF PlayerDied
  <1> QED BY <1>1, <1>2, <1>3, <1>4, <1>5, <1>6

\* Outside the drain nothing that only a handler raises is pending, and the
\* socket is idle.
LEMMA BeforeTheDrain ==
  ASSUME IndInv, FrameInv, pc \notin Drain
  PROVE  /\ \A e \in Pending : e.eventType \in
                 {"WON", "SHOOT_LANE"} \cup InputTypes \cup CollisionTypes \cup MovementTypes
         /\ request = "none" /\ socket = "idle"
  BY DEF IndInv, TypeOK, ReqLockstep, FrameInv, PhaseInv, LinkInv, MayBePending,
         Drain, Control

-----------------------------------------------------------------------------
(***************************************************************************)
(* Shots.  The shot of each kind is the only one of its kind, and its slot *)
(* stays free until it is handled.                                         *)
(***************************************************************************)
ShotTypes == {"SHOOT", "SHOOT_LANE", "SHOOT_RANDOM"}

\* A step that raises no shot and fills no slot.
LEMMA ShotsKept ==
  ASSUME EveryShotLands,
         \A e \in Pending' : e.eventType \in ShotTypes =>
           /\ e \in Pending /\ queue'[e] = queue[e]
           /\ obj'[ShotSlot(e.eventType)] = obj[ShotSlot(e.eventType)]
  PROVE  EveryShotLands'
  <1> SUFFICES ASSUME NEW e \in Pending', e.eventType \in ShotTypes
               PROVE  /\ FreeForBullet(ShotSlot(e.eventType))'
                      /\ queue'[e] = 1
                      /\ PendingOf(e.eventType)' = {e}
    BY DEF EveryShotLands, ShotTypes
  <1>1. /\ FreeForBullet(ShotSlot(e.eventType)) /\ queue[e] = 1
        /\ PendingOf(e.eventType) = {e}
    BY DEF EveryShotLands, ShotTypes
  <1>2. FreeForBullet(ShotSlot(e.eventType))' /\ queue'[e] = 1
    BY <1>1 DEF FreeForBullet, ShotSlot
  <1>3. ASSUME NEW f \in Pending', f.eventType = e.eventType
        PROVE  f = e
    <2>1. f \in PendingOf(e.eventType)
      BY <1>3 DEF PendingOf
    <2> QED BY <1>1, <2>1
  <1> QED BY <1>2, <1>3 DEF PendingOf

\* A raise that adds a first shot, with its slot free.
LEMMA ShotRaised ==
  ASSUME TypeOK, EveryShotLands, NEW shot, shot.eventType \in ShotTypes,
         PendingOf(shot.eventType) = {}, FreeForBullet(ShotSlot(shot.eventType)),
         queue' = Raise({shot}), UNCHANGED obj
  PROVE  EveryShotLands'
  <1>1. /\ Pending' = Pending \cup {shot}
        /\ \A f \in Pending' :
             queue'[f] = (IF f \in Pending THEN queue[f] ELSE 0)
                           + (IF f \in {shot} THEN 1 ELSE 0)
    BY AfterRaise
  <1>2. shot \notin Pending /\ queue'[shot] = 1
    BY <1>1 DEF PendingOf
  <1>3. \A f \in Pending : queue'[f] = queue[f]
    <2> SUFFICES ASSUME NEW f \in Pending PROVE queue'[f] = queue[f]
      OBVIOUS
    <2>1. queue[f] \in Nat /\ f \notin {shot}
      BY <1>2 DEF TypeOK
    <2>2. queue'[f] = queue[f] + 0
      BY <1>1, <2>1
    <2> QED BY <2>1, <2>2
  <1>4. PendingOf(shot.eventType)' = {shot}
    BY <1>1 DEF PendingOf
  <1>5. \A f \in Pending : f.eventType # shot.eventType
                            /\ PendingOf(f.eventType)' = PendingOf(f.eventType)
    BY <1>1 DEF PendingOf
  <1>6. \A t : FreeForBullet(ShotSlot(t))' <=> FreeForBullet(ShotSlot(t))
    BY DEF FreeForBullet, ShotSlot
  <1>7. \A f \in Pending : f.eventType \in ShotTypes =>
          /\ FreeForBullet(ShotSlot(f.eventType))' /\ queue'[f] = 1
          /\ PendingOf(f.eventType)' = {f}
    BY <1>3, <1>5, <1>6 DEF EveryShotLands, ShotTypes
  <1>8. FreeForBullet(ShotSlot(shot.eventType))'
    BY <1>6
  <1> QED BY <1>1, <1>2, <1>4, <1>7, <1>8 DEF EveryShotLands, ShotTypes

\* The slots of the three kinds of shot are different bullets.
LEMMA ShotSlots ==
  /\ ShotSlot("SHOOT") = PlayerBullet
  /\ ShotSlot("SHOOT_LANE") = LaneBullet
  /\ ShotSlot("SHOOT_RANDOM") = RandomBullet
  /\ PlayerBullet # LaneBullet /\ PlayerBullet # RandomBullet
  /\ LaneBullet # RandomBullet
  /\ \A t \in ShotTypes : ShotSlot(t) \in Bullets
  BY DEF ShotSlot, ShotTypes, PlayerBullet, LaneBullet, RandomBullet, Bullets,
         EnemyBullets, PLAYER_BULLET_GUID, ENEMY_BULLET_LANE_GUID,
         ENEMY_BULLET_RAND_GUID

\* A handler of another event leaves every shot as it is.
LEMMA OtherHandled ==
  ASSUME IndInv, EveryShotLands, NEW e \in Pending, e.eventType \notin ShotTypes,
         NEW S, queue' = PopAndRaise(e, S), \A f \in S : f.eventType \notin ShotTypes,
         \A s \in Bullets : obj[s] = "null" => obj'[s] = "null"
  PROVE  EveryShotLands'
  <1>1. ASSUME NEW f \in Pending', f.eventType \in ShotTypes
        PROVE  /\ f \in Pending /\ queue'[f] = queue[f]
               /\ obj'[ShotSlot(f.eventType)] = obj[ShotSlot(f.eventType)]
    <2>1. f \in PendingOf(f.eventType)'
      BY DEF PendingOf
    <2>2. e.eventType # f.eventType /\ \A g \in S : g.eventType # f.eventType
      BY <1>1
    <2>3. f \in PendingOf(f.eventType) /\ queue'[f] = queue[f]
      BY <2>1, <2>2, HandlingKeepsType DEF IndInv
    <2>4. f \in Pending /\ obj[ShotSlot(f.eventType)] = "null"
      BY <1>1, <2>3 DEF EveryShotLands, FreeForBullet, ShotTypes, PendingOf
    <2> QED BY <1>1, <2>3, <2>4, ShotSlots
  <1> QED BY <1>1, ShotsKept

\* A handler that kills leaves the free slots free.
LEMMA KillLeavesFree ==
  ASSUME IndInv, NEW e \in Pending, e.eventType \in AddressedTypes, Kill(Target(e))
  PROVE  \A s \in Slots : obj[s] = "null" => obj'[s] = "null"
  <1>1. obj[Target(e)] # "null"
    BY TargetIsAddressee DEF IndInv, QueueInv
  <1> QED BY <1>1 DEF Kill, IndInv, TypeOK

\* The handler of a shot takes the one event off, and fills its slot only.
LEMMA ShotHandled ==
  ASSUME IndInv, EveryShotLands, NEW e \in Pending, e.eventType \in ShotTypes,
         queue' = PopAndRaise(e, {}),
         NEW array, NEW newGUID, AddBullet(ShotSlot(e.eventType), array, newGUID)
  PROVE  EveryShotLands'
  <1>1. queue[e] = 1 /\ PendingOf(e.eventType) = {e}
          /\ FreeForBullet(ShotSlot(e.eventType))
    BY DEF EveryShotLands, ShotTypes
  <1>2. obj' = [obj EXCEPT ![ShotSlot(e.eventType)] = "alive"]
    BY <1>1 DEF AddBullet, AddAndRegister
  <1>3. Pending' = Pending \ {e}
    BY <1>1, AfterHandling DEF IndInv
  <1>4. ASSUME NEW f \in Pending', f.eventType \in ShotTypes
        PROVE  /\ f \in Pending /\ queue'[f] = queue[f]
               /\ obj'[ShotSlot(f.eventType)] = obj[ShotSlot(f.eventType)]
    <2>1. f \in Pending /\ f.eventType # e.eventType
      BY <1>1, <1>3 DEF PendingOf
    <2>2. queue'[f] = queue[f]
      BY <2>1, HandlingKeepsType DEF IndInv, PendingOf
    <2>3. ShotSlot(f.eventType) # ShotSlot(e.eventType)
      BY <1>4, <2>1, ShotSlots DEF ShotTypes
    <2>4. ShotSlot(f.eventType) \in Slots
      BY <1>4, ShotSlots, SlotFacts
    <2> QED BY <1>2, <2>1, <2>2, <2>3, <2>4 DEF IndInv, TypeOK
  <1> QED BY <1>4, ShotsKept

LEMMA ShotsHandled ==
  ASSUME IndInv, EveryShotLands, HandleEvent
  PROVE  EveryShotLands'
  <1>1. PICK e \in Pending :
          \/ BulletHitEnemy(e) \/ BulletHitPlayer(e) \/ BulletHitBound(e)
          \/ Reposition(e) \/ EnemyTouchesPlayer(e) \/ EnemyDied(e)
          \/ EnemyShoots(e) \/ PlayerShoots(e) \/ PlayerDied(e)
          \/ PlayerShielded(e) \/ SendRequest(e)
    BY DEF HandleEvent
  <1>2. PICK S : /\ queue' = PopAndRaise(e, S)
                 /\ \A f \in S : <<e.eventType, f.eventType>> \in Causes
    BY <1>1, HandlerCauses
  <1>3. \A f \in S : f.eventType \notin ShotTypes
    BY <1>2 DEF Causes, ShotTypes
  <1>4. CASE BulletHitEnemy(e) \/ BulletHitPlayer(e) \/ BulletHitBound(e) \/ EnemyDied(e)
    <2>1. /\ e.eventType \in {"COLLISION_ENEMY", "COLLISION_PLAYER", "COLLISION_BOUND",
                              "ENEMY_DIED"}
          /\ Kill(Target(e))
      BY <1>4 DEF BulletHitEnemy, BulletHitPlayer, BulletHitBound, EnemyDied, Handle
    <2>2. \A s \in Slots : obj[s] = "null" => obj'[s] = "null"
      BY <2>1, KillLeavesFree DEF AddressedTypes
    <2>3. e.eventType \notin ShotTypes
      BY <2>1 DEF ShotTypes
    <2> QED BY <1>2, <1>3, <2>2, <2>3, OtherHandled, SlotFacts
  <1>5. CASE \/ Reposition(e) \/ EnemyTouchesPlayer(e) \/ PlayerDied(e)
             \/ PlayerShielded(e) \/ SendRequest(e)
    <2>1. /\ e.eventType \in {"MOVE", "MOVE_DOWN", "MOVE_LAT", "KEYBOARD_INPUT",
                              "COLLISION_PLAYER", "PLAYER_DIED", "UPDATE_SCORE",
                              "PLAYER_LOST_LIFE", "WON"}
          /\ UNCHANGED obj
      BY <1>5 DEF Reposition, EnemyTouchesPlayer, PlayerDied, PlayerShielded,
                  SendRequest, Handle, boardVars
    <2>2. e.eventType \notin ShotTypes
      BY <2>1 DEF ShotTypes
    <2> QED BY <1>2, <1>3, <2>1, <2>2, OtherHandled
  <1>6. CASE EnemyShoots(e)
    <2>1. e.eventType \in {"SHOOT_LANE", "SHOOT_RANDOM"} /\ queue' = PopAndRaise(e, {})
      BY <1>6 DEF EnemyShoots, Handle, Done
    <2>2. \E newGUID : AddBullet(ShotSlot(e.eventType), EnemyBullets, newGUID)
      BY <1>6, <2>1 DEF EnemyShoots, ShotSlot
    <2> QED BY <2>1, <2>2, ShotHandled DEF ShotTypes
  <1>7. CASE PlayerShoots(e)
    <2>1. e.eventType = "SHOOT" /\ queue' = PopAndRaise(e, {})
      BY <1>7 DEF PlayerShoots, Handle, Done
    <2>2. AddBullet(ShotSlot(e.eventType), {PlayerBullet}, PLAYER_BULLET_GUID)
      BY <1>7, <2>1 DEF PlayerShoots, ShotSlot
    <2> QED BY <2>1, <2>2, ShotHandled DEF ShotTypes
  <1> QED BY <1>1, <1>4, <1>5, <1>6, <1>7

\* The main loop raises a shot only where none of its kind is pending.
LEMMA ShotsRaised ==
  ASSUME IndInv, FrameInv, EveryShotLands,
         \/ ReadInput \/ CheckCollisions \/ DoMovement \/ ShootLane
         \/ (\E col \in Columns : SearchHits(col)) \/ CheckWinConditions
  PROVE  EveryShotLands'
  <1> USE DEF Advance
  <1>1. TypeOK /\ \A e \in Pending : queue[e] \in Nat
    BY DEF IndInv, TypeOK
  <1>2. CASE CheckCollisions \/ DoMovement \/ CheckWinConditions
    <2>1. PICK S : /\ queue' = Raise(S) /\ UNCHANGED obj
                   /\ \A f \in S : f.eventType \in
                        {"WON"} \cup CollisionTypes \cup MovementTypes
      <3>1. CASE CheckCollisions
        BY <3>1, CollisionTypesRaised DEF CheckCollisions, boardVars
      <3>2. CASE DoMovement
        BY <3>2, MovementTypesRaised DEF DoMovement, boardVars
      <3>3. CASE CheckWinConditions
        BY <3>3 DEF CheckWinConditions, WinEvents, Event, EventAt, boardVars
      <3> QED BY <1>2, <3>1, <3>2, <3>3
    <2>2. \A f \in S : f.eventType \notin ShotTypes
      BY <2>1 DEF ShotTypes, CollisionTypes, MovementTypes
    <2>3. ASSUME NEW f \in Pending', f.eventType \in ShotTypes
          PROVE  f \in Pending /\ queue'[f] = queue[f]
      <3>1. f \in PendingOf(f.eventType)'
        BY DEF PendingOf
      <3>2. f \in PendingOf(f.eventType) /\ queue'[f] = queue[f]
        BY <1>1, <2>1, <2>2, <2>3, <3>1, RaisingKeepsType
      <3> QED BY <3>2 DEF PendingOf
    <2> QED BY <2>1, <2>3, ShotsKept
  <1>3. CASE ReadInput
    <2>1. \A f \in Pending : f.eventType = "WON"
      BY <1>3 DEF ReadInput, FrameInv, PhaseInv, MayBePending
    <2> DEFINE move == Event("KEYBOARD_INPUT", guid[Player], 0)
               shoot == Event("SHOOT", guid[Player], 0)
    <2>2. /\ Pending' \subseteq Pending \cup {move, shoot}
          /\ shoot \notin Pending /\ shoot \in Pending' =>
                  queue'[shoot] = 1 /\ CanPlayerShoot
      BY <1>1, <1>3, InputRaised
    <2>3. shoot.eventType = "SHOOT" /\ move.eventType = "KEYBOARD_INPUT"
      BY DEF Event, EventAt
    <2> HIDE DEF move, shoot
    <2>4. \A f \in Pending' : f.eventType \in ShotTypes =>
            f = shoot /\ queue'[shoot] = 1 /\ CanPlayerShoot
      BY <2>1, <2>2, <2>3 DEF ShotTypes
    <2>5. UNCHANGED obj
      BY <1>3 DEF ReadInput, boardVars
    <2>6. CanPlayerShoot => FreeForBullet(ShotSlot("SHOOT"))'
      BY <2>5, ShotSlots DEF CanPlayerShoot, FreeForBullet
    <2>7. \A f \in PendingOf("SHOOT")' : f = shoot
      BY <2>4 DEF PendingOf, ShotTypes
    <2> QED BY <2>3, <2>4, <2>6, <2>7 DEF EveryShotLands, ShotTypes, PendingOf
  <1>4. CASE ShootLane
    <2>1. PICK f : queue' = Raise({Event("SHOOT_LANE", guid[f], currentTime)})
      BY <1>4 DEF ShootLane
    <2> DEFINE shot == Event("SHOOT_LANE", guid[f], currentTime)
    <2>2. shot.eventType = "SHOOT_LANE"
      BY DEF Event, EventAt
    <2>3. queue' = Raise({shot})
      BY <2>1
    <2> HIDE DEF shot
    <2>4. PendingOf("SHOOT_LANE") = {} /\ FreeForBullet(LaneBullet) /\ UNCHANGED obj
      BY <1>4 DEF ShootLane, FrameInv, PhaseInv, MayBePending, PendingOf, FreeForBullet,
                  boardVars, InputTypes, CollisionTypes, MovementTypes
    <2> QED BY <1>1, <2>2, <2>3, <2>4, ShotRaised, ShotSlots DEF ShotTypes
  <1>5. ASSUME NEW col \in Columns, SearchHits(col)
        PROVE  EveryShotLands'
    <2>1. PICK f : queue' = Raise({Event("SHOOT_RANDOM", guid[f], currentTime)})
      BY <1>5 DEF SearchHits
    <2> DEFINE shot == Event("SHOOT_RANDOM", guid[f], currentTime)
    <2>2. shot.eventType = "SHOOT_RANDOM"
      BY DEF Event, EventAt
    <2>3. queue' = Raise({shot})
      BY <2>1
    <2> HIDE DEF shot
    <2>4. PendingOf("SHOOT_RANDOM") = {} /\ FreeForBullet(RandomBullet) /\ UNCHANGED obj
      BY <1>5 DEF SearchHits, FrameInv, PhaseInv, CleanInv, MayBePending, PendingOf,
                  boardVars, InputTypes, CollisionTypes, MovementTypes
    <2> QED BY <1>1, <2>2, <2>3, <2>4, ShotRaised, ShotSlots DEF ShotTypes
  <1> QED BY <1>2, <1>3, <1>4, <1>5

LEMMA ShotsNext ==
  IndInv /\ FrameInv /\ EveryShotLands /\ [Next]_vars => EveryShotLands'
  <1> SUFFICES ASSUME IndInv, FrameInv, EveryShotLands, [Next]_vars
               PROVE  EveryShotLands'
    OBVIOUS
  <1>1. ASSUME UNCHANGED <<queue, obj>>
        PROVE  EveryShotLands'
    BY <1>1, ShotsKept DEF Pending
  <1>2. CASE \/ RunScripts \/ ScriptFails \/ ReadClock
             \/ NobodyToShoot \/ LaneTaken \/ DrawRandomShot \/ NoRandomShot
             \/ (\E col \in Columns : SearchMisses(col))
             \/ DrawGameBoard \/ NextFrame \/ CloseWindow
    <2>1. UNCHANGED <<queue, obj>>
      BY <1>2 DEF RunScripts, ScriptFails, ReadClock, NobodyToShoot, LaneTaken,
         DrawRandomShot, NoRandomShot, SearchMisses, DrawGameBoard, NextFrame,
         CloseWindow, managerVars, boardVars
    <2> QED BY <1>1, <2>1
  <1>3. CASE EndOfDrain \/ ReplyArrives \/ ServerStep \/ UNCHANGED vars
    <2>1. UNCHANGED <<queue, obj>>
      BY <1>3 DEF EndOfDrain, ReplyArrives, ScoreAcknowledged, LivesLeft, NoLivesLeft,
         WinnerAcknowledged, ServerStep, vars, managerVars, boardVars
    <2> QED BY <1>1, <2>1
  <1>4. CASE CleanUp
    <2>1. Pending' = {}
      BY <1>4 DEF CleanUp, Advance, IndInv, DrainedInv, Pending
    <2> QED BY <2>1 DEF EveryShotLands
  <1> QED
    BY <1>2, <1>3, <1>4, ShotsHandled, ShotsRaised DEF Next, ClientStep, Ended

\* No shot is lost: when the drain comes to a SHOOT, SHOOT_LANE or
\* SHOOT_RANDOM its slot is still free, and it is the only one of its kind.
THEOREM ShotsLand == Spec => []EveryShotLands
  <1>1. Init => EveryShotLands
    BY DEF Init, EveryShotLands, Pending, EmptyBag, SetToBag
  <1>2. Spec => []IndInv /\ []FrameInv
    BY Inductive, FramesInOrder
  <1> QED BY <1>1, <1>2, ShotsNext, PTL DEF Spec

-----------------------------------------------------------------------------
(***************************************************************************)
(* The player.  A hit that counts hides the player and raises a lost life; *)
(* the shield only changes at the start of a frame, when no lost life is   *)
(* on its way.                                                             *)
(***************************************************************************)
LostLives == PendingOf("PLAYER_LOST_LIFE")

\* The handlers, among which only PlayerDied raises a lost life and only the
\* request to the server takes one off.
LEMMA PlayerHandled ==
  ASSUME IndInv, FrameInv, PlayerInv, HandleEvent
  PROVE  PlayerInv'
  <1> USE DEF Handle
  <1>1. PICK e \in Pending :
          \/ BulletHitEnemy(e) \/ BulletHitPlayer(e) \/ BulletHitBound(e)
          \/ Reposition(e) \/ EnemyTouchesPlayer(e) \/ EnemyDied(e)
          \/ EnemyShoots(e) \/ PlayerShoots(e) \/ PlayerDied(e)
          \/ PlayerShielded(e) \/ SendRequest(e)
    BY DEF HandleEvent
  <1>2. PICK S : /\ queue' = PopAndRaise(e, S)
                 /\ \A f \in S : <<e.eventType, f.eventType>> \in Causes
    BY <1>1, HandlerCauses
  <1>3. request = "none"
    <2>1. pc = "dispatch"
      BY HandlerLink DEF FrameInv
    <2> QED BY <2>1 DEF IndInv, ReqLockstep, FrameInv, LinkInv
  <1>4. ASSUME e.eventType \notin {"PLAYER_DIED", "PLAYER_LOST_LIFE"}
        PROVE  LostLives' = LostLives
    BY <1>2, <1>4, HandlingKeepsType DEF IndInv, LostLives, Causes
  <1>5. CASE PlayerDied(e)
    <2>1. PICK time : queue' = PopAndRaise(e, {Event("PLAYER_LOST_LIFE", Broadcast, time)})
      BY <1>5 DEF PlayerDied, Done
    <2> DEFINE lost == Event("PLAYER_LOST_LIFE", Broadcast, time)
    <2>2. lost.eventType = "PLAYER_LOST_LIFE"
      BY DEF Event, EventAt
    <2> HIDE DEF lost
    <2>3. lost \in Pending'
      BY <2>1, AfterHandling DEF IndInv, lost
    <2>4. LostLives' # {}
      BY <2>2, <2>3 DEF LostLives, PendingOf
    <2>5. invincible = FALSE /\ invincible' = invincible
      BY <1>5 DEF PlayerDied, Vulnerable, IndInv, TypeOK
    <2> QED BY <2>4, <2>5 DEF PlayerInv, ShieldHolds, LostLives
  <1>6. CASE SendRequest(e)
    <2>1. request' = RequestFor(e.eventType) /\ UNCHANGED playerVars
            /\ e.eventType \in {"UPDATE_SCORE", "PLAYER_LOST_LIFE", "WON"}
      BY <1>6 DEF SendRequest, Send
    <2>2. CASE e.eventType = "PLAYER_LOST_LIFE"
      <3>1. request' = PLAYER_DEAD
        BY <2>1, <2>2 DEF RequestFor
      <3>2. ~invincible
        BY <2>2 DEF PlayerInv, ShieldHolds, PendingOf
      <3> QED BY <2>1, <3>1, <3>2 DEF PlayerInv, ShieldHolds, playerVars
    <2>3. CASE e.eventType # "PLAYER_LOST_LIFE"
      <3>1. request' # PLAYER_DEAD
        BY <2>1, <2>3 DEF RequestFor, ADD_POINTS, PLAYER_DEAD, WINNER
      <3>2. LostLives' = LostLives
        BY <1>4, <2>1, <2>3
      <3>3. pc # "exited"
        BY HandlerLink DEF FrameInv
      <3> QED BY <1>3, <2>1, <3>1, <3>2, <3>3
          DEF PlayerInv, ShieldHolds, LostLives, playerVars, PLAYER_DEAD
    <2> QED BY <2>2, <2>3
  <1>7. CASE \/ BulletHitEnemy(e) \/ BulletHitPlayer(e) \/ BulletHitBound(e)
             \/ Reposition(e) \/ EnemyTouchesPlayer(e) \/ EnemyDied(e)
             \/ EnemyShoots(e) \/ PlayerShoots(e) \/ PlayerShielded(e)
    <2>1. UNCHANGED <<playerVars, linkVars>> /\ pc # "exited"
            /\ e.eventType # "PLAYER_LOST_LIFE"
      BY <1>7 DEF BulletHitEnemy, BulletHitPlayer, BulletHitBound, Reposition,
         EnemyTouchesPlayer, EnemyDied, EnemyShoots, PlayerShoots, PlayerShielded
    <2>2. LostLives' = LostLives
      <3>1. CASE e.eventType = "PLAYER_DIED"
        <4>1. PlayerShielded(e)
          BY <1>7, <3>1 DEF BulletHitEnemy, BulletHitPlayer, BulletHitBound,
             Reposition, EnemyTouchesPlayer, EnemyDied, EnemyShoots, PlayerShoots
        <4>2. queue' = PopAndRaise(e, {})
          BY <4>1 DEF PlayerShielded, Done
        <4> QED BY <2>1, <4>2, HandlingKeepsType DEF IndInv, LostLives
      <3> QED BY <1>4, <2>1, <3>1
    <2> QED BY <2>1, <2>2 DEF PlayerInv, ShieldHolds, LostLives, playerVars, linkVars
  <1> QED BY <1>1, <1>5, <1>6, <1>7

LEMMA PlayerNext == IndInv /\ FrameInv /\ PlayerInv /\ [Next]_vars => PlayerInv'
  <1> SUFFICES ASSUME IndInv, FrameInv, PlayerInv, [Next]_vars PROVE PlayerInv'
    OBVIOUS
  <1> USE DEF Advance
  <1>1. IndInv' /\ FrameInv' /\ TypeOK
    BY NextInv, FrameNext DEF IndInv
  <1>2. ASSUME FrameInv, pc \notin Drain
        PROVE  LostLives = {} /\ request = "none"
    BY <1>2, BeforeTheDrain DEF LostLives, PendingOf, InputTypes, CollisionTypes,
       MovementTypes
  <1>3. ASSUME FrameInv', pc' \notin Drain
        PROVE  LostLives' = {} /\ request' = "none"
    <2>1. \A e \in Pending' : e.eventType \in
                 {"WON", "SHOOT_LANE"} \cup InputTypes \cup CollisionTypes \cup MovementTypes
      BY <1>1, <1>3 DEF FrameInv, PhaseInv, MayBePending, Drain, IndInv, TypeOK, Control
    <2>2. request' = "none"
      BY <1>1, <1>3 DEF FrameInv, LinkInv, IndInv, ReqLockstep, Drain
    <2> QED BY <2>1, <2>2 DEF LostLives, PendingOf, InputTypes, CollisionTypes,
               MovementTypes
  \* Inside the main loop there is no lost life, before a step or after it.
  <1>4. ASSUME pc \notin Drain, LostLives' = {}, request' = "none",
               visible' = visible
        PROVE  PlayerInv'
    BY <1>2, <1>4 DEF PlayerInv, ShieldHolds, LostLives, PLAYER_DEAD, Drain
  <1>5. CASE \/ ReadInput \/ ReadClock \/ CheckCollisions \/ DoMovement
             \/ ShootLane \/ LaneTaken \/ DrawRandomShot
             \/ (\E col \in Columns : SearchMisses(col))
             \/ DrawGameBoard \/ CleanUp \/ CheckWinConditions \/ NextFrame
    <2>1. pc \notin Drain /\ pc' \notin Drain /\ visible' = visible
      BY <1>5 DEF ReadInput, ReadClock, CheckCollisions, DoMovement, ShootLane,
         LaneTaken, DrawRandomShot, SearchMisses, DrawGameBoard, CleanUp,
         CheckWinConditions, NextFrame, Drain, playerVars
    <2> QED BY <1>1, <1>3, <1>4, <2>1
  <1>6. CASE RunScripts
    <2>1. pc \notin Drain /\ pc' \notin Drain /\ visible' = visible
      BY <1>6 DEF RunScripts, Drain
    <2> QED BY <1>1, <1>3, <1>4, <2>1
  <1>7. CASE NobodyToShoot \/ NoRandomShot \/ ScriptFails \/ CloseWindow
    <2>1. pc \notin Drain /\ UNCHANGED <<queue, request, visible>>
      BY <1>7 DEF NobodyToShoot, NoRandomShot, ScriptFails, CloseWindow, Drain,
         managerVars, linkVars, playerVars
    <2>2. LostLives' = {} /\ request' = "none"
      BY <1>2, <2>1 DEF LostLives, PendingOf, Pending
    <2> QED BY <1>4, <2>1, <2>2
  <1>8. CASE \E col \in Columns : SearchHits(col)
    <2>1. PICK f : queue' = Raise({Event("SHOOT_RANDOM", guid[f], currentTime)})
      BY <1>8 DEF SearchHits
    <2>2. LostLives' = LostLives
      BY <1>1, <2>1, RaisingKeepsType DEF LostLives, Event, EventAt
    <2>3. pc \notin Drain /\ UNCHANGED <<request, visible>>
      BY <1>8 DEF SearchHits, Drain, linkVars, playerVars
    <2> QED BY <1>2, <1>4, <2>2, <2>3
  <1>9. CASE EndOfDrain \/ ServerStep \/ UNCHANGED vars
    <2>1. UNCHANGED <<queue, request, playerVars>> /\ (pc' # "exited" => pc # "exited")
      BY <1>9 DEF EndOfDrain, ServerStep, ServerReply, vars, managerVars, linkVars,
         controlVars
    <2> QED BY <2>1 DEF PlayerInv, ShieldHolds, PendingOf, Pending, playerVars
  \* With lives left the player is shown again; every other reply but that to
  \* an addPoints ends the process.
  <1>10. CASE ReplyArrives
    <2>1. UNCHANGED <<queue, invincible>> /\ request' = "none" /\ pc = "await"
      BY <1>10 DEF ReplyArrives, ScoreAcknowledged, LivesLeft, NoLivesLeft,
         WinnerAcknowledged, Receive, managerVars, playerVars
    <2>2. pc' = "exited" \/ visible' = TRUE \/ (request = ADD_POINTS /\ visible' = visible)
      BY <1>10 DEF ReplyArrives, ScoreAcknowledged, LivesLeft, NoLivesLeft,
         WinnerAcknowledged, Receive, Exit, playerVars
    <2> QED BY <2>1, <2>2
        DEF PlayerInv, ShieldHolds, PendingOf, Pending, ADD_POINTS, PLAYER_DEAD
  <1> QED
    BY <1>5, <1>6, <1>7, <1>8, <1>9, <1>10, PlayerHandled DEF Next, ClientStep, Ended

LEMMA PlayerInitially == Init => PlayerInv
  BY DEF Init, PlayerInv, ShieldHolds, LinkInit, PLAYER_DEAD

\* A hidden player has a lost life on the way to the server, and the shield
\* stays up, whatever the frame does after the script has run.
THEOREM PlayerAndShield == Spec => []PlayerInv
  <1>1. Spec => []IndInv /\ []FrameInv
    BY Inductive, FramesInOrder
  <1> QED BY <1>1, PlayerInitially, PlayerNext, PTL DEF Spec

\* No life is lost to a hit while the script holds the shield up.
THEOREM ShieldAlwaysHolds == Spec => []ShieldHolds
  <1>1. PlayerInv => ShieldHolds
    BY DEF PlayerInv
  <1> QED BY <1>1, PlayerAndShield, PTL

\* The player is in every frame that is drawn, whatever hits the drain of
\* that frame has handled.
THEOREM AlwaysVisible == Spec => []VisibleWhenDrawn
  <1>1. ASSUME IndInv, FrameInv, PlayerInv
        PROVE  VisibleWhenDrawn
    <2> SUFFICES ASSUME pc = "draw" PROVE visible
      BY DEF VisibleWhenDrawn
    <2>1. Pending = {} /\ request = "none"
      BY <1>1 DEF IndInv, DrainedInv, ReqLockstep, FrameInv, LinkInv
    <2> QED BY <1>1, <2>1 DEF PlayerInv, PendingOf, PLAYER_DEAD
  <1> QED BY <1>1, Inductive, FramesInOrder, PlayerAndShield, PTL

-----------------------------------------------------------------------------
(***************************************************************************)
(* The win.  A WON is raised at the end of a frame and stamped with its    *)
(* time; the hits of the next frame have a later one, so as long as the    *)
(* queue is in order the WON comes out before them.                        *)
(***************************************************************************)
WonTypes == {"WON", "PLAYER_DIED", "PLAYER_LOST_LIFE", "COLLISION_PLAYER"}

\* A step that leaves the events in question and the clock alone.
LEMMA WonKept ==
  ASSUME WonInv, \A t \in WonTypes : PendingOf(t)' = PendingOf(t),
         UNCHANGED currentTime, scrambled' => scrambled,
         request' # request => request \notin {WINNER} /\ request' # PLAYER_DEAD,
         pc = "exited" => pc' = "exited",
         \/ pc \notin {"poll", "script", "input", "clock", "exited"}
         \/ pc' \in {"poll", "script", "input", "clock", "exited"}
  PROVE  WonInv'
  BY DEF WonInv, WonTypes

LEMMA WonHandled ==
  ASSUME ClockGoesOn, IndInv, FrameInv, WonInv, HandleEvent
  PROVE  WonInv'
  <1> USE DEF Handle
  <1>1. PICK e \in Pending :
          \/ BulletHitEnemy(e) \/ BulletHitPlayer(e) \/ BulletHitBound(e)
          \/ Reposition(e) \/ EnemyTouchesPlayer(e) \/ EnemyDied(e)
          \/ EnemyShoots(e) \/ PlayerShoots(e) \/ PlayerDied(e)
          \/ PlayerShielded(e) \/ SendRequest(e)
    BY DEF HandleEvent
  <1>2. PICK S : /\ queue' = PopAndRaise(e, S)
                 /\ \A f \in S : <<e.eventType, f.eventType>> \in Causes
    BY <1>1, HandlerCauses
  <1>3. /\ pc = "dispatch" /\ pc' \in Drain /\ UNCHANGED currentTime
        /\ request = "none" /\ Top(e)
    <2>1. pc = "dispatch" /\ pc' \in Drain /\ UNCHANGED currentTime
      BY HandlerLink DEF FrameInv
    <2>2. Top(e)
      BY <1>1 DEF BulletHitEnemy, BulletHitPlayer, BulletHitBound, Reposition,
         EnemyTouchesPlayer, EnemyDied, EnemyShoots, PlayerShoots, PlayerDied,
         PlayerShielded, SendRequest
    <2> QED BY <2>1, <2>2 DEF IndInv, ReqLockstep, FrameInv, LinkInv
  <1>4. \A t : e.eventType # t /\ (\A f \in S : f.eventType # t)
                => PendingOf(t)' = PendingOf(t)
    BY <1>2, HandlingKeepsType DEF IndInv
  <1>5. \A f \in S : f.eventType \notin {"WON", "COLLISION_PLAYER"}
    BY <1>2 DEF Causes
  \* With a WON pending no hit comes off the queue before it.
  <1>6. ASSUME PendingOf("WON") # {}
        PROVE  e.eventType \notin {"COLLISION_PLAYER", "PLAYER_DIED", "PLAYER_LOST_LIFE"}
    <2>1. PICK won \in PendingOf("WON") : won.timestamp = BaseTime
      BY <1>6 DEF WonInv
    <2>2. ~(e.timestamp > BaseTime)
      <3>1. NoLater(e, won)
        BY <1>3, <1>6, <2>1 DEF Top, WonInv, PendingOf
      <3>2. e.timestamp \in Int
        <4>1. e.timestamp \in Stamps
          BY StampFacts DEF IndInv
        <4>2. Stamps \subseteq Int
          BY StampAssumption, FrameAssumption DEF Stamps, BaseTime
        <4> QED BY <4>1, <4>2
      <3> QED BY <2>1, <3>1, <3>2 DEF NoLater, BaseTime
    <2> QED BY <1>6, <2>2 DEF WonInv, PendingOf
  <1>7. CASE SendRequest(e)
    <2>1. /\ request' = RequestFor(e.eventType) /\ pc' = "await"
          /\ UNCHANGED scrambled /\ queue' = PopAndRaise(e, {})
          /\ e.eventType \in {"UPDATE_SCORE", "PLAYER_LOST_LIFE", "WON"}
      BY <1>7 DEF SendRequest, Send
    <2>2. CASE PendingOf("WON") = {}
      <3>1. PendingOf("WON")' = {} /\ currentTime = BaseTime
        <4>1. e.eventType # "WON"
          BY <2>2 DEF PendingOf
        <4> QED BY <1>3, <1>4, <1>5, <2>2, <4>1 DEF WonInv, WINNER
      <3> QED BY <1>3, <3>1 DEF WonInv
    <2>3. CASE PendingOf("WON") # {} /\ e.eventType = "UPDATE_SCORE"
      <3>1. \A t \in WonTypes : PendingOf(t)' = PendingOf(t)
        BY <2>1, <2>3, HandlingKeepsType DEF WonTypes, IndInv
      <3>2. request' # PLAYER_DEAD
        BY <2>1, <2>3 DEF RequestFor, ADD_POINTS, PLAYER_DEAD
      <3> QED BY <1>3, <2>1, <3>1, <3>2, WonKept DEF WINNER
    <2>4. CASE PendingOf("WON") # {} /\ e.eventType = "WON"
      <3>1. request' = WINNER
        BY <2>1, <2>4 DEF RequestFor
      <3>2. \A t \in WonTypes \ {"WON"} : PendingOf(t)' = PendingOf(t)
        BY <2>1, <2>4, HandlingKeepsType DEF WonTypes, IndInv
      <3>3. PendingOf("WON")' \subseteq PendingOf("WON")
        <4>1. Pending' \subseteq Pending
          BY <2>1, AfterHandling DEF IndInv
        <4> QED BY <4>1 DEF PendingOf
      <3> QED BY <1>3, <2>1, <2>4, <3>1, <3>2, <3>3
          DEF WonInv, WonTypes, WINNER, PLAYER_DEAD
    <2> QED BY <1>6, <2>1, <2>2, <2>3, <2>4
  <1>8. CASE \/ BulletHitEnemy(e) \/ BulletHitPlayer(e) \/ BulletHitBound(e)
             \/ Reposition(e) \/ EnemyTouchesPlayer(e) \/ EnemyDied(e)
             \/ EnemyShoots(e) \/ PlayerShoots(e) \/ PlayerDied(e)
             \/ PlayerShielded(e)
    <2>1. e.eventType # "WON" /\ UNCHANGED linkVars
      BY <1>8 DEF BulletHitEnemy, BulletHitPlayer, BulletHitBound, Reposition,
         EnemyTouchesPlayer, EnemyDied, EnemyShoots, PlayerShoots, PlayerDied,
         PlayerShielded
    <2>2. PendingOf("WON")' = PendingOf("WON")
      BY <1>4, <1>5, <2>1
    <2>3. CASE PendingOf("WON") = {}
      BY <1>3, <2>1, <2>2, <2>3 DEF WonInv, linkVars
    <2>4. CASE PendingOf("WON") # {}
      <3>1. e.eventType \notin WonTypes
        BY <1>6, <2>1, <2>4 DEF WonTypes
      <3>2. \A f \in S : f.eventType \notin WonTypes
        BY <1>2, <3>1, <1>6, <2>4 DEF Causes, WonTypes
      <3>3. \A t \in WonTypes : PendingOf(t)' = PendingOf(t)
        BY <1>4, <3>1, <3>2
      <3>4. UNCHANGED scrambled
        BY <1>8, <3>1 DEF BulletHitEnemy, BulletHitPlayer, BulletHitBound, Reposition,
           EnemyTouchesPlayer, EnemyDied, EnemyShoots, PlayerShoots, PlayerDied,
           PlayerShielded, WonTypes
      <3> QED BY <1>3, <2>1, <3>3, <3>4, WonKept DEF linkVars
    <2> QED BY <2>3, <2>4
  <1> QED BY <1>1, <1>7, <1>8

\* Where the frame has not come to its collisions yet there are no hits.
LEMMA NoHitsYet ==
  ASSUME FrameInv, pc \in {"poll", "script", "input", "clock", "collide"}
  PROVE  \A t \in WonTypes \ {"WON"} : PendingOf(t) = {}
  BY DEF FrameInv, PhaseInv, MayBePending, WonTypes, InputTypes, PendingOf

LEMMA WonNext ==
  ASSUME ClockGoesOn
  PROVE  IndInv /\ FrameInv /\ WonInv /\ [Next]_vars => WonInv'
  <1> SUFFICES ASSUME IndInv, FrameInv, WonInv, [Next]_vars PROVE WonInv'
    OBVIOUS
  <1> USE DEF Advance
  <1>1. IndInv' /\ FrameInv' /\ TypeOK
    BY NextInv, FrameNext DEF IndInv
  <1>2. BaseTime \in Int
    BY DEF BaseTime
  \* The steps that leave the queue alone.
  <1>3. CASE \/ RunScripts \/ ScriptFails \/ NobodyToShoot \/ LaneTaken
             \/ DrawRandomShot \/ NoRandomShot
             \/ (\E col \in Columns : SearchMisses(col)) \/ CloseWindow
    <2>1. /\ UNCHANGED <<queue, scrambled, request, currentTime>> /\ pc # "exited"
          /\ \/ pc \notin {"poll", "script", "input", "clock"}
             \/ pc' \in {"poll", "script", "input", "clock", "exited"}
      BY <1>3 DEF RunScripts, ScriptFails, NobodyToShoot, LaneTaken, DrawRandomShot,
         NoRandomShot, SearchMisses, CloseWindow, Exit, managerVars, linkVars
    <2>2. \A t : PendingOf(t)' = PendingOf(t)
      BY <2>1 DEF PendingOf, Pending
    <2> QED BY <2>1, <2>2, WonKept
  <1>4. CASE DrawGameBoard \/ CleanUp \/ EndOfDrain
    <2>1. /\ Pending = {} /\ UNCHANGED <<queue, currentTime>>
          /\ pc \in {"draw", "cleanUp", "dispatch"}
      BY <1>4 DEF DrawGameBoard, CleanUp, EndOfDrain, IndInv, DrainedInv, managerVars
    <2>2. request = "none"
      BY <2>1 DEF IndInv, ReqLockstep, FrameInv, LinkInv
    <2> QED BY <2>1, <2>2 DEF WonInv, PendingOf, Pending, WINNER
  <1>5. CASE ServerStep \/ UNCHANGED vars
    <2>1. UNCHANGED <<queue, scrambled, request, currentTime, pc>>
      BY <1>5 DEF ServerStep, ServerReply, vars, managerVars, linkVars, controlVars
    <2>2. \A t : PendingOf(t)' = PendingOf(t)
      BY <2>1 DEF PendingOf, Pending
    <2> QED BY <2>1, <2>2, WonKept
  \* The clock of the next frame.
  <1>6. CASE NextFrame
    <2>1. UNCHANGED <<queue, scrambled, request>> /\ currentTime' = BaseTime
            /\ pc = "poll" /\ pc' = "script"
      BY <1>6 DEF NextFrame, managerVars, linkVars
    <2> QED BY <2>1 DEF WonInv, PendingOf, Pending
  <1>7. CASE ReadClock
    <2>1. /\ UNCHANGED <<queue, scrambled, request>> /\ pc = "clock" /\ pc' = "collide"
          /\ PendingOf("WON") = {} => currentTime' = BaseTime
          /\ PendingOf("WON") # {} => currentTime' \in NextTimes
      BY <1>7 DEF ReadClock, managerVars, linkVars
    <2>2. \A t : PendingOf(t)' = PendingOf(t)
      BY <2>1 DEF PendingOf, Pending
    <2>3. CASE PendingOf("WON") = {}
      BY <2>1, <2>2, <2>3 DEF WonInv
    <2>4. CASE PendingOf("WON") # {}
      <3>1. currentTime' > BaseTime
        BY <2>1, <2>4 DEF ClockGoesOn
      <3> QED BY <2>1, <2>2, <2>4, <3>1 DEF WonInv
    <2> QED BY <2>3, <2>4
  \* The steps that raise events.
  <1>8. CASE ReadInput
    <2>1. PendingOf("WON")' = PendingOf("WON")
      <3>1. Pending' \subseteq Pending \cup {Event("KEYBOARD_INPUT", guid[Player], 0),
                                              Event("SHOOT", guid[Player], 0)}
              /\ Pending \subseteq Pending'
        BY <1>1, <1>8, InputRaised
      <3> QED BY <3>1 DEF PendingOf, Event, EventAt
    <2>2. pc = "input" /\ pc' = "clock" /\ UNCHANGED <<scrambled, request, currentTime>>
      BY <1>8 DEF ReadInput, linkVars
    <2>3. \A t \in WonTypes : PendingOf(t)' = PendingOf(t)
      <3>1. \A t \in WonTypes \ {"WON"} : PendingOf(t)' = {}
        BY <1>1, <2>2, NoHitsYet DEF FrameInv, PhaseInv, MayBePending, WonTypes,
           InputTypes, PendingOf
      <3>2. \A t \in WonTypes \ {"WON"} : PendingOf(t) = {}
        BY <2>2, NoHitsYet
      <3> QED BY <2>1, <3>1, <3>2
    <2> QED BY <2>2, <2>3, WonKept
  <1>9. CASE CheckCollisions
    <2>1. PICK S \in Collisions(currentTime) : queue' = Raise(S)
      BY <1>9 DEF CheckCollisions
    <2>2. \A f \in S : f.eventType \in CollisionTypes /\ f.timestamp = currentTime
      BY <2>1, CollisionTypesRaised
    <2>3. \A t \in WonTypes \ {"COLLISION_PLAYER"} : PendingOf(t)' = PendingOf(t)
      BY <1>1, <2>1, <2>2, RaisingKeepsType DEF WonTypes, CollisionTypes
    <2>4. pc = "collide" /\ pc' = "move" /\ UNCHANGED <<scrambled, request, currentTime>>
      BY <1>9 DEF CheckCollisions, linkVars
    <2>5. \A f \in PendingOf("COLLISION_PLAYER")' : f.timestamp = currentTime
      <3>1. PendingOf("COLLISION_PLAYER") = {}
        BY <2>4, NoHitsYet DEF WonTypes
      <3>2. Pending' = Pending \cup S
        BY <1>1, <2>1, AfterRaise
      <3> QED BY <2>2, <3>1, <3>2 DEF PendingOf
    <2> QED BY <2>3, <2>4, <2>5 DEF WonInv, WonTypes
  <1>10. CASE DoMovement \/ ShootLane \/ (\E col \in Columns : SearchHits(col))
    <2>1. PICK S : /\ queue' = Raise(S)
                   /\ \A f \in S : f.eventType \in
                        {"SHOOT_LANE", "SHOOT_RANDOM"} \cup MovementTypes
      <3>1. CASE DoMovement
        BY <3>1, MovementTypesRaised DEF DoMovement
      <3>2. CASE ShootLane
        BY <3>2 DEF ShootLane, Event, EventAt
      <3>3. CASE \E col \in Columns : SearchHits(col)
        BY <3>3 DEF SearchHits, Event, EventAt
      <3> QED BY <1>10, <3>1, <3>2, <3>3
    <2>2. \A t \in WonTypes : PendingOf(t)' = PendingOf(t)
      BY <1>1, <2>1, RaisingKeepsType DEF WonTypes, MovementTypes
    <2>3. /\ UNCHANGED <<scrambled, request, currentTime>>
          /\ pc \in {"move", "shootLane", "search"}
      BY <1>10 DEF DoMovement, ShootLane, SearchHits, linkVars
    <2> QED BY <2>2, <2>3, WonKept
  \* A WON is raised with the time of its frame.
  <1>11. CASE CheckWinConditions
    <2>1. /\ Pending = {} /\ pc = "checkWin" /\ pc' = "poll"
          /\ UNCHANGED <<scrambled, request, currentTime>>
      BY <1>11 DEF CheckWinConditions, IndInv, DrainedInv, linkVars
    <2>2. request = "none" /\ ~scrambled
      BY <2>1 DEF IndInv, ReqLockstep, FrameInv, LinkInv, CleanInv, Drain, TypeOK
    <2>3. currentTime = BaseTime
      BY <2>1, <2>2 DEF WonInv, PendingOf, WINNER
    <2>4. Pending' = WinEvents(currentTime)
      BY <1>1, <1>11, <2>1, AfterRaise DEF CheckWinConditions
    <2>5. \A f \in Pending' : f.eventType = "WON" /\ f.timestamp = BaseTime
      BY <2>3, <2>4 DEF WinEvents, Event, EventAt
    <2> QED BY <2>1, <2>2, <2>3, <2>5 DEF WonInv, PendingOf, PLAYER_DEAD
  <1>12. CASE ReplyArrives
    <2>1. /\ UNCHANGED <<queue, scrambled, currentTime>> /\ request' = "none"
          /\ pc = "await" /\ (request = WINNER => pc' = "exited")
      BY <1>12 DEF ReplyArrives, ScoreAcknowledged, LivesLeft, NoLivesLeft,
         WinnerAcknowledged, Receive, Exit, managerVars, ADD_POINTS, PLAYER_DEAD, WINNER
    <2>2. \A t : PendingOf(t)' = PendingOf(t)
      BY <2>1 DEF PendingOf, Pending
    <2> QED BY <2>1, <2>2 DEF WonInv, PLAYER_DEAD
  <1> QED
    BY <1>3, <1>4, <1>5, <1>6, <1>7, <1>8, <1>9, <1>10, <1>11, <1>12, WonHandled
    DEF Next, ClientStep, Ended

\* A pending WON is the oldest event that could still cost a life, as long as
\* the clock goes on from one frame to the next.
THEOREM WonIsOldest ==
  ASSUME ClockGoesOn
  PROVE  Spec => []WonInv
  <1>1. Init => WonInv
    BY DEF Init, WonInv, PendingOf, Pending, EmptyBag, SetToBag
  <1>2. IndInv /\ FrameInv /\ WonInv /\ [Next]_vars => WonInv'
    BY WonNext
  <1> QED BY <1>1, <1>2, Inductive, FramesInOrder, PTL DEF Spec

\* Once the last enemy is gone no life is lost before the server is told of
\* the win, as long as the clock goes on from one frame to the next.
THEOREM WinComesFirst ==
  ASSUME ClockGoesOn
  PROVE  Spec => []WonBeforeLostLife
  <1>1. WonInv => WonBeforeLostLife
    BY DEF WonInv, WonBeforeLostLife
  <1> QED BY <1>1, WonIsOldest, PTL
=============================================================================
