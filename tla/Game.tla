-------------------------------- MODULE Game --------------------------------
(***************************************************************************)
(* The client: main() of main.cpp, which sets the board up and then runs   *)
(* frame after frame on one thread, with the event manager, the board, the *)
(* event handlers and the server composed.  pc names the statement of the  *)
(* loop that comes next.                                                   *)
(***************************************************************************)
EXTENDS EventHandlers

CONSTANTS
  MaxShots,        \* bound: how often the player may shoot
  MaxKeys,         \* how many movement keys can be down at once, 2 in the code
  NextTimes        \* clock readings in the frame after a WON, see ReadClock

ASSUME FrameAssumption ==
  MaxShots \in Nat /\ MaxKeys \in Nat /\ NextTimes \subseteq Int

VARIABLES currentTime

vars == <<managerVars, boardVars, linkVars, playerVars, controlVars, currentTime>>

Control ==
  {"script", "input", "clock", "collide", "move", "shootLane", "shootRandom",
   "search", "dispatch", "await", "draw", "cleanUp", "checkWin", "poll", "exited"}

Outcomes == {"running", "winner", "gameOver", "badReply", "scriptError", "closed"}

\* A clock reading, later than the timestamp 0 of the input and the movement.
BaseTime == 2

Init ==
  /\ BoardInit
  /\ LinkInit
  /\ queue = EmptyBag
  /\ scrambled = FALSE
  /\ visible = TRUE
  /\ invincible = FALSE
  /\ pc = "script"
  /\ outcome = "running"
  /\ currentTime = BaseTime

\* A step of the loop that changes nothing else.
Advance(from, to) ==
  /\ pc = from
  /\ pc' = to
  /\ UNCHANGED outcome

-----------------------------------------------------------------------------
\* The script file is read again in every frame, so it may have been edited:
\* setInvincible says TRUE, FALSE or nothing.
RunScripts ==
  /\ Advance("script", "input")
  /\ invincible' \in BOOLEAN
  /\ UNCHANGED <<managerVars, boardVars, linkVars, visible, currentTime>>

\* loadScript: a script that does not evaluate is exit(1).
ScriptFails ==
  /\ pc = "script"
  /\ Exit("scriptError")
  /\ UNCHANGED <<managerVars, boardVars, linkVars, playerVars, currentTime>>

\* readInput: the movement keys that are down, and the space bar.
ReadInput ==
  /\ Advance("input", "clock")
  /\ \E keys \in 0..MaxKeys, space \in BOOLEAN :
       LET move == Event("KEYBOARD_INPUT", guid[Player], 0)
           shoot == Event("SHOOT", guid[Player], 0)
           moves == IF keys = 0 THEN EmptyBag ELSE [e \in {move} |-> keys]
           shots == IF space /\ CanPlayerShoot THEN SetToBag({shoot}) ELSE EmptyBag
       IN  /\ (space => playerBulletsSize > -MaxShots)
           /\ queue' = (queue (+) moves) (+) shots
  /\ UNCHANGED <<scrambled, handlers, boardVars, linkVars, playerVars, currentTime>>

(***************************************************************************)
(* currentTime = gameTime.getTime().  Only how the reading compares with   *)
(* the timestamps that are still pending can matter.  Only a WON is ever   *)
(* pending from the frame before: with none, every frame can start at      *)
(* BaseTime; with one, the reading is one of NextTimes: later than         *)
(* BaseTime, or any, where the system clock may be set back.  A clock that *)
(* is set back to before the program's start, so that a reading is no      *)
(* later than the timestamp 0 of the input, is left out.                   *)
(***************************************************************************)
ReadClock ==
  /\ Advance("clock", "collide")
  /\ currentTime' \in (IF PendingOf("WON") = {} THEN {BaseTime} ELSE NextTimes)
  /\ UNCHANGED <<managerVars, boardVars, linkVars, playerVars>>

CheckCollisions ==
  /\ Advance("collide", "move")
  /\ \E events \in Collisions(currentTime) : queue' = Raise(events)
  /\ UNCHANGED <<scrambled, handlers, boardVars, linkVars, playerVars, currentTime>>

DoMovement ==
  /\ Advance("move", "shootLane")
  /\ \E events \in Movements : queue' = Raise(events)
  /\ UNCHANGED <<scrambled, handlers, boardVars, linkVars, playerVars, currentTime>>

-----------------------------------------------------------------------------
\* makeEnemiesShoot.  The lane nearest to the player is some column with an
\* enemy in it.
ShootLane ==
  /\ obj[LaneBullet] = "null"
  /\ Advance("shootLane", "shootRandom")
  /\ \E e \in Shooters(Columns) :
       queue' = Raise({Event("SHOOT_LANE", guid[e], currentTime)})
  /\ UNCHANGED <<scrambled, handlers, boardVars, linkVars, playerVars, currentTime>>

\* The function returns when no lane is near: with no enemy left, or, as the
\* player's place is not kept here, with enemies left and the player at NaN.
NobodyToShoot ==
  /\ obj[LaneBullet] = "null"
  /\ Advance("shootLane", "dispatch")
  /\ UNCHANGED <<managerVars, boardVars, linkVars, playerVars, currentTime>>

LaneTaken ==
  /\ obj[LaneBullet] # "null"
  /\ Advance("shootLane", "shootRandom")
  /\ UNCHANGED <<managerVars, boardVars, linkVars, playerVars, currentTime>>

\* The draw comes out below 3, and the search for a column begins.
DrawRandomShot ==
  /\ obj[RandomBullet] = "null"
  /\ Advance("shootRandom", "search")
  /\ UNCHANGED <<managerVars, boardVars, linkVars, playerVars, currentTime>>

NoRandomShot ==
  /\ Advance("shootRandom", "dispatch")
  /\ UNCHANGED <<managerVars, boardVars, linkVars, playerVars, currentTime>>

\* while (!foundValidCol): a random column, again and again until one has an
\* enemy in it.
SearchHits(col) ==
  /\ Advance("search", "dispatch")
  /\ \E e \in Shooters({col}) :
       queue' = Raise({Event("SHOOT_RANDOM", guid[e], currentTime)})
  /\ UNCHANGED <<scrambled, handlers, boardVars, linkVars, playerVars, currentTime>>

SearchMisses(col) ==
  /\ Advance("search", "search")
  /\ Shooters({col}) = {}
  /\ UNCHANGED <<managerVars, boardVars, linkVars, playerVars, currentTime>>

-----------------------------------------------------------------------------
\* handleEvents: one event after another, those raised on the way included.
HandleEvent ==
  /\ \E e \in Pending :
       \/ BulletHitEnemy(e)
       \/ BulletHitPlayer(e)
       \/ BulletHitBound(e)
       \/ Reposition(e)
       \/ EnemyTouchesPlayer(e)
       \/ EnemyDied(e)
       \/ EnemyShoots(e)
       \/ PlayerShoots(e)
       \/ PlayerDied(e)
       \/ PlayerShielded(e)
       \/ SendRequest(e)
  /\ UNCHANGED currentTime

EndOfDrain ==
  /\ Advance("dispatch", "draw")
  /\ Pending = {}
  /\ scrambled' = FALSE
  /\ UNCHANGED <<queue, handlers, boardVars, linkVars, playerVars, currentTime>>

ReplyArrives ==
  /\ ScoreAcknowledged \/ LivesLeft \/ NoLivesLeft \/ WinnerAcknowledged
  /\ UNCHANGED currentTime

-----------------------------------------------------------------------------
DrawGameBoard ==
  /\ Advance("draw", "cleanUp")
  /\ UNCHANGED <<managerVars, boardVars, linkVars, playerVars, currentTime>>

CleanUp ==
  /\ Advance("cleanUp", "checkWin")
  /\ CleanUpObjects
  /\ UNCHANGED <<queue, scrambled, linkVars, playerVars, currentTime>>

\* checkWinConditions: a WON raised here is handled in the next frame.
CheckWinConditions ==
  /\ Advance("checkWin", "poll")
  /\ queue' = Raise(WinEvents(currentTime))
  /\ UNCHANGED <<scrambled, handlers, boardVars, linkVars, playerVars, currentTime>>

\* pollEvent: without a Closed event the next frame begins.
NextFrame ==
  /\ Advance("poll", "script")
  /\ currentTime' = BaseTime
  /\ UNCHANGED <<managerVars, boardVars, linkVars, playerVars>>

CloseWindow ==
  /\ pc = "poll"
  /\ Exit("closed")
  /\ UNCHANGED <<managerVars, boardVars, linkVars, playerVars, currentTime>>

-----------------------------------------------------------------------------
ClientStep ==
  \/ RunScripts \/ ScriptFails
  \/ ReadInput \/ ReadClock
  \/ CheckCollisions \/ DoMovement
  \/ ShootLane \/ NobodyToShoot \/ LaneTaken
  \/ DrawRandomShot \/ NoRandomShot
  \/ \E col \in Columns : SearchHits(col) \/ SearchMisses(col)
  \/ HandleEvent \/ EndOfDrain \/ ReplyArrives
  \/ DrawGameBoard \/ CleanUp \/ CheckWinConditions
  \/ NextFrame \/ CloseWindow

ServerStep ==
  /\ ServerReply
  /\ UNCHANGED <<managerVars, boardVars, playerVars, controlVars, currentTime>>

\* The process has ended.
Ended == pc = "exited" /\ UNCHANGED vars

Next == ClientStep \/ ServerStep \/ Ended

Spec == Init /\ [][Next]_vars
=============================================================================
