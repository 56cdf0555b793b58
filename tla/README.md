# A TLA+ model of the Space Invaders client

The client (directory `Space Invaders Client`) is a single-threaded C++ game
built on SFML. It keeps a board of game objects, turns everything that happens
in a frame into events, drains the queue of events once per frame, and reports
points, lost lives and the win to a score server over a ZeroMQ REQ socket. This
directory models that program in TLA+, checks it with TLC and proves the core
of it with TLAPS.

## 1. The system

| Part | Code | State it keeps | Operations |
|---|---|---|---|
| Main loop | `main.cpp` | `currentTime`, the place in the frame | start-up; per frame: scripts, input, clock, collisions, movement, shooting, drain, draw, clean-up, win test, poll |
| Event manager | `EventManager.*` | the priority queue, `handlers` (guid to handler), `manager` (type to handlers) | `raise`, `handleEvents`, `addToHandlers`, `reg` |
| Game board | `GameStateManager.*` | arrays of pointers with their counts, `isMovingRight` | `checkCollisions`, `doMovement`, `makeEnemiesShoot`, `add*Bullet`, `register*Bullets`, `cleanUpObjects`, `canPlayerShoot`, `checkWinConditions` |
| Game objects | `GameObject.*`, `Player.*`, `Bullet.*`, `Enemy.*` | `isAlive`, `guid`, handler, shape; `visible`, `invincible` | `kill`, `cleanUp`, `setGUID` |
| Event handlers | `EventHandler.*` | the object they belong to | one `onEvent` per kind of object, and one for the connection |
| Score server | not in the repository | points, lives | answers `addPoints`, `playerDead`, `winner` |
| Scripting | `ScriptManager.*`, `script.js` | the Duktape context: global object and value stack; `scriptLoaded` | `loadScript`, `runScript`, in every frame; scripts call `setPlayerVelocity` and `makeInvincible` |
| Time | `Timeline.*` | start, tick, pause | `getTime`; pause and scale are never used |
| Replay | `ReplayHandler`, `handleEvents(double)` | recording file and flags | never started at this commit |
| Old programs | `oldMain.cpp`, `main2.cpp` | none | commented out from end to end |

How the parts interact. The board functions only *raise* events: they look at
the arrays and put events in the queue. All changes happen in the drain, where
a handler is found by guid (`handlers[guid]`, unchecked) or, for guid -1, by
type. Handlers raise further events, which the same drain handles: a hit by a
bullet becomes ENEMY_DIED, that becomes UPDATE_SCORE, and that a request to the
server; a hit on the player becomes PLAYER_DIED, PLAYER_LOST_LIFE and a
request. A killed object stays in its array until `cleanUpObjects`, after the
drain. The win is found after the clean-up and is handled in the next frame.

What is hard here:

- The order of the drain. Timestamps decide, the events of one call share a
  timestamp, and `std::priority_queue` leaves ties open. One event carries an
  uninitialised timestamp (`EventHandler.cpp:146`).
- Check, then act. `canPlayerShoot` and the NULL tests of `makeEnemiesShoot`
  are made when an event is raised; the slot is taken when it is handled.
- Lifetimes. Events and the handler map hold guids of objects that may have
  been deleted, and a new bullet has guid 0, the player's, until registered.
- The server. Every request blocks the thread; the process may end in the
  middle of a drain.
- Counts kept beside the arrays, and the win decided on one of them.
- A step of movement longer than the bound that is to stop the bullet.
- One script context for the whole match, and a file that somebody may edit or
  break between any two statements of the loop.
- Memory that is released in two places (`cleanUp`, `~GameObject`), with
  pointers to handlers kept in a third.

What makes each part correct:

- Event manager and objects: every pending event finds the object it was
  raised for, on the board.
- Board: the counts agree with the arrays, a shot finds its slot free, every
  object answers to its own guid.
- Connection: requests and replies alternate; each destroyed enemy is one
  point on the server, never lost between frames and never doubled.
- Player: hidden only until the server has answered, never hurt behind the
  shield.
- Loop: every frame ends; a win is certain once it is found, and only a full
  score wins.
- Flight: the bound stops every bullet whose move is shorter than bullet and
  bound together, and a bullet either frees its slot or has jumped the bound.
- Formation: no enemy leaves the window, and the one that aims at the player is
  the lowest of the nearest column.
- Scripting: the settings of a frame are those of the file read in it, and the
  interpreter's stack is the same in every frame.
- Steering: the player stays in the window and moves no faster than the limits.
- Memory: what is on the board owns its parts, and nothing else is kept.

`PROJECT.json` lists every component with what is left out of it, and every
hazard at its line.

## 2. The modules

    EventManager          queue, handler map, Event
      GameStateManager    board, objects, collisions, shooting, clean-up
        EventHandlers     one action per branch of the onEvent functions
          (ServerLink)    REQ socket and score server
          Game            main(): the frame loop, composing all of them
            GameProperties   invariants, liveness, refinement
              GameProofs       theorems: objects, handlers, queue, socket
                FrameProofs    theorems: the order of a frame, player, win
                  ScoreProofs  theorems: counts, points, refinement of Match
              MCGame         values for TLC
    Match                 abstract: what a match promises
    Flight                one bullet and its bound, with real lengths
      FlightProofs, MCFlight
    Patrol                the formation between its two bounds
      PatrolProofs
      Aim                 which enemy shoots down the player's lane
        AimProofs, MCPatrol
    Scripts               the interpreter: global object, value stack, file
      Steering            clock, scripts, keys and the player's place
        SteeringProofs, MCSteering
    Heap                  objects, shapes, handlers and addresses;
      HeapProofs, MCHeap    implements GameStateManager

**EventManager.** `queue` is a bag, because equal events may be pending twice
(two hits of one frame raise two equal UPDATE_SCORE events). `Top` picks any
event with the least timestamp. `scrambled` is set when a NaN timestamp enters
the heap; from then to the end of the drain any pending event may come out.
This allows at least every order a NaN can cause. `handlers` keeps entries of
deleted handlers as `Dangling`, as the code keeps the pointers. Timestamps are
integers: only their order matters to the code.

**GameStateManager.** Objects are named by their slot. The slot of an enemy is
the guid it gets in `main()`; the slots of the three bullets are named by the
guid each is meant to get, while `guid` says which one the object really has.
`obj` says whether a slot is NULL, alive or dead (killed, not cleaned up).
Positions are left out. `Collisions` and `Movements` yield every set of events
the functions can raise, held to what sizes and distances allow: enemies are
40 by 30 at distances of 50 and 55, so a bullet of 10 by 30 touches at most two
enemies of one column and the player (60 by 30) at most a 2 by 2 block.
`AddBullet` follows `add*Bullet` and `register*Bullets`: the new object has
guid 0, then every bullet of the array with guid 0 gets the new guid.

**ServerLink** (external). The server takes one request at a time, adds a point
for `addPoints`, and answers `playerDead` with any text: "0", another number or
text `std::stoi` rejects.

**EventHandlers.** One action per branch. An action takes `Top(e)` off the
queue, makes every change of the branch and raises its events. A branch that
talks to the server sends and goes to `pc = "await"`; a second action is the
rest of the branch after `recv`.

**Game.** `pc` is the statement of the loop that comes next. `makeEnemiesShoot`
is split at its random search, since that loop need not end. Choices stand for
what the loop reads from outside: keys, script, clock, collisions. `ReadClock`
normalises the clock. Between frames the only pending event can be a WON, so a
reading matters only in how it compares with that one stamp: with no WON
pending every frame starts at `BaseTime`, otherwise the reading is one of
`NextTimes`.

**Match** is what the client promises: enemies are destroyed one at a time,
points follow them, and a win needs the full score. `PlayedMatch` in
GameProperties is the refinement mapping: `destroyed` counts the enemies that
are not alive, `scored` is the server's count.

**Flight** keeps lengths. One unit of length is a tenth of a pixel and one of
time the 1/5000 s in which a bullet flies that far, so the code's limit of
0.0666 s is 333 exactly. A bullet moves once per frame by the length of the
frame and is tested once per frame where it stands, against a bound of 10 with
its own 300: at the limit it can jump. `Escaped` is a bullet that did. Behind the
bound there is nothing a bullet could hit, so `Collide` lets nothing hit it, and
`Moved` does not follow it any further.

**Patrol** keeps the x coordinates of the enemies and the direction, one action
for each branch of the first half of `doMovement`, one step per frame. All
enemies get the same moves, so the place of the first column stands for all.
`Reach` is the farthest a frame of 0.0666 s moves n enemies at the speed of the
code, rounded down. Game's `Movements` leaves the branch open, so every patrol
is one of its behaviours.

**Aim** adds the search of `makeEnemiesShoot` to the patrol: the scan over the
array that keeps the least squared distance and its column, the test that
nothing was found, and the search from the last row up. They are recursive
functions over the index, as the loops are. The property says what they should
find without mentioning indices, in every formation the patrol reaches. A
player whom a script has sent to NaN has no distance less than another, so
`InView` is empty and the function returns as if no enemy were left. Game's
`ShootLane` allows any column with an enemy, so it allows this one, and its
`NobodyToShoot` is also possible with enemies left, as Game does not keep the
player's place.

**Scripts** keeps of a script which functions it defines and what each call
does: the velocity and the shield it asks for, if any, and whether it throws.
Code outside of the functions is kept under the name `TopLevel` and takes effect
when the file is loaded.
`Load` and `Run` follow the calls of Duktape one by one on a stack of kinds of
values; the rest of Duktape is external. `EditFile` may happen between any two
statements of the loop.

**Steering** composes Scripts with the part of `main()` from the clock to
`readInput` and with the KEYBOARD_INPUT branch. `phase` is the statement that
comes next; `from` remembers where the frame found the player. The events carry
velocity and time in the code; both stay as they are until the drain has
handled the events, so the model reads the variables. `PutBack` and `Limited`
spell out what a comparison with NaN gives. Game's `RunScripts` lets the shield
be anything; Steering is what restricts it.

**Heap** has the pointers that GameStateManager leaves out: slots point to
objects, objects own a shape and a handler at an address, and `registered` is
the map of the event manager with addresses in it. The allocator may give out
any address that is free. The objects themselves are never deleted by
`CleanUpObjects`, as in the code. Kills and clean-ups come in any order, which
includes the order of the loop. `Board` is the refinement mapping: a registered
address that is not the handler of the object on the board with this guid is
`Dangling`. `ShootInVain` deletes a bullet whose slot is taken; EveryShotLands
says that the client never gets there, but the branch exists and is checked.

## 3. The runs

| Run | Instance | What it shows |
|---|---|---|
| Pair | 2 rows, 1 column, clock may go back | handlers, guids, score, visibility, shield, counts, shots and socket in every interleaving, the inductive invariants of the proofs (IndInv, MatchInv), the full score of a winner, refinement of Match (safety); one bullet can hit both enemies |
| Live | 1 row, 2 columns, clock goes on | every frame ends although a column may be empty when the search draws it; refinement of Match with its liveness; a pending win comes before any life lost in its frame, and the inductive invariant behind that (WonInv) |
| FlyUp | sizes, places and frame limit of the code, a player's bullet from muzzle to bound | a bullet gets behind the bound only by one move of at least 31 px from clear of it; its slot is freed in the end, or it has jumped and keeps the slot for ever; the inductive invariant of the proof (the proofs cover both directions) |
| Sweep | 2 by 3 enemies, speeds of the code, right bound at 290, 4 places of the player and NaN | no enemy passes a bound, one descent per edge, both edges are reached again and again; the lane shooter is the lowest enemy of a nearest column |
| Steer | window of the code, 5 scripts, frames of 0 or 1 tick | the stack is balanced, settings follow the file loaded in the frame, the player stays in the window and in reach |
| Heap | 1 enemy, 6 addresses, 6 objects | the board's objects own exactly the allocated shapes and handlers; refinement of GameStateManager; the inductive invariant of the proofs (HeapInv) |

Runs that refute a statement of the code (one property each):

| Run | Statement | What the code does |
|---|---|---|
| SearchForever | `GameStateManager.cpp:400` a valid index has been found | with no enemy left, a lane bullet in flight and the random slot free, the search never ends; the WON is never sent |
| GarbageStamp | `Event.h:107` the timestamp when the event was raised | PLAYER_LOST_LIFE carries an uninitialised value |
| JumpBound | `EventHandler.cpp:36` the bound destroys the laser | the same instance as FlyUp: a frame of 0.0666 s moves a bullet by 33.3 px, and it jumps over the bound |
| StaleScript | `ScriptManager.cpp:48` gets rid of the previous script | its functions stay defined and are run again |
| NotANumber | `script.js:3-5` any value is brought to the closest limit | NaN passes both comparisons |
| Leak | `GameStateManager.h:115-116` deletes the objects that are not alive | it deletes their parts and forgets the object |

Bounds, and why they are enough:

- `NUM_ROWS`, `NUM_COLS`: two enemies are the fewest for a double hit, for a
  neighbour that outlives a destroyed enemy, for an empty column beside another
  and for a win that needs two points; Pair and Live take the two ways they can
  lie. The proofs hold for every size. Heap has one enemy: what it is about are
  the bullets, which come again.
- `MaxShots` bounds the SHOOT events, as `playerBulletsSize` counts down for
  ever; two are enough to shoot again after a bullet has been cleaned up.
- `MaxKeys` bounds the KEYBOARD_INPUT events of a frame (2 in the code): 1 in
  Pair and none in Live, as in the game their handling only takes them off the
  queue. Steer has both keys.
- `GarbageStamps` = {-1, 1, 4} lies before, between and after the timestamps
  in use (0, 2 and 3). Live has only the last, to keep the run short; the
  others are in Pair.
- `FrameTimes` of Flight are the differences of two clock readings that occur:
  a clock set back, none, a short frame, the moves just too short (30.9 px) and
  just long enough (31.0 px) to jump, the limit (33.3 px) and the first frame
  beyond it. Together they lead a bullet to every tenth of a pixel it can be at.
- Sweep has the right bound at 290 instead of 790: the way between is uniform,
  and 2 by 3 enemies leave rows, columns and every kind of gap to be shot.
- `Slowest` of Steering is the one length of frame that does not count, beside
  -1 for a clock that has gone back. With ticks of 1/20 s a frame moves the
  player by 0, 1, 12 or 50 pixels, so it gets past both edges from many places.
- `EveryKind` has a script that sets both settings, one that exceeds the upper
  limit, one below the lower limit that throws afterwards, one that only fails,
  and an empty one; one has code outside of its functions. With `Broken` they
  meet every branch. `WithNaN` is apart,
  because NaN breaks StaysInReach as well.
- `MaxObjects` = 6 allows four bullets beside player and enemy, so that a slot
  and an address are used again; `Addresses` are two more than can be in use.
  Addresses are symmetric: nothing compares them but for equality.
- `Starts` of Flight is the height the code fires from, 45 px above the player.

Fairness. `WF(ClientStep)`: the game is one thread that runs whenever it can
do something; it blocks only in `recv`. Within the random search it also says
that `rand()` comes up with a column that has an enemy in the end, when there
is one. `WF(ServerStep)`: the server answers. Without it the thread waits for
ever in `recv`, although `EventHandler.cpp:163` says that no reply is expected:
that is why both liveness properties need this assumption. `FairSpec` of Flight: the loop runs on, and
again and again a frame is short enough to count; it says nothing of how short,
so frames that let a bullet jump may come at any time. `FairSpec` of Patrol is the
same, with a frame that moves somebody. Both exclude a machine on which every
frame takes longer than 0.0666 s: there nothing on the board moves at all.

`CHECK_DEADLOCK` is never switched off: a process that has ended stutters by
`Ended`, and any other state without a step would be an error.

## 4. The proofs

Every theorem holds for every size of the board and all values of the bounds.
The ASSUMEs of the modules say what the constants are: the board has a row and a
column, `Dangling` is no slot, stamps and clock readings are integers, bounds
are naturals. A theorem that needs more of its constants says so in an ASSUME
of its own; these are listed at the end.

| Module | Theorems | Invariant that is inductive |
|---|---|---|
| GameProofs | Inductive, TypeCorrect, HandlersMatch, AddresseesLive, Lockstep | IndInv |
| FrameProofs | FramesInOrder, ShotsLand, PlayerAndShield, ShieldAlwaysHolds, AlwaysVisible | FrameInv, EveryShotLands, PlayerInv |
| FrameProofs | WonIsOldest, WinComesFirst | WonInv |
| ScoreProofs | CountsCorrect, ScoreInductive, MatchInductive, NoPointLost, WinnersComplete, Implements | ScoreInv |
| FlightProofs | FlightInductive, EscapesByJump, EscapedForEver | FlightInv |
| PatrolProofs | EnemiesStayBetween, TurnsOnce | PatrolInv, TurnedInv |
| AimProofs | ShootsFromNearest | PatrolInv |
| SteeringProofs | WithinReach, SteeringTypes, StackKept, ScriptsFollowed | IInv, TypeOK, StackBalanced, SettingsInv |
| HeapProofs | HeapInductive, HeapTypes, PartsOwned, HeapImplementsBoard | HeapInv |

**GameProofs.** `AddresseeLive` is not inductive: that the addressee of an event
stays on the board depends on nothing leaving the board while events are
pending (`DrainedInv`: the queue is empty from the end of the drain to the win
test, where clean-up lies), on guids being those of the slots (`BoardInv`), and
on the kinds of objects an event may name (`MayGet`, `QueueInv`), because the
handler of a bullet's hit kills its target's slot and forwards the hit to
`intendedGUID`. `ReqLockstep` is needed for the types of request and reply. The
lemmas are grouped by what an action does: raise events only, kill an object,
add a bullet, clean up, or nothing that matters.

**FrameProofs.** None of the properties of a frame is inductive, because each
rests on where in the frame the thread is. `FrameInv` says that: `PhaseInv`
which types of event may be pending at each `pc`, `CleanInv` that dead objects
and a scrambled queue belong to the drain and that a search goes on for a free
slot only, `LinkInv` that a request is there from send to receive. With it
EveryShotLands follows step by step: the test of a slot and the shot that takes
it are apart, but between them only the types of `MayBePending` are raised.
ShieldHolds and VisibleWhenDrawn hold through `PlayerInv`: a hidden player has a
PLAYER_LOST_LIFE in the queue or a `playerDead` on the wire. `WonInv` is about
the one event that outlives a frame: as long as a WON is pending it is older
than any hit on the player, and no event with a garbage stamp can have been
raised, since the events that lead to one are younger than the WON too.

**ScoreProofs.** ScoreAccounts counts, so its invariant has to say that a
destroyed enemy is not destroyed again. That is `DeathInv`: a pending
COLLISION_ENEMY or ENEMY_DIED names an enemy that is alive, is pending once,
and no other of them names the same enemy. The copies of UPDATE_SCORE form a
finite set (`CopySet`), whose cardinality changes by one when the event is
raised or popped. CountersAgree is what ties the win test to the arrays, and
`WinInv` keeps every point in place from the WON on: the drain before it left no
UPDATE_SCORE behind. `Implements` maps each step: handling ENEMY_DIED destroys
one enemy (`DestroyStep`), the server's answer to `addPoints` scores
(`ScoreStep`), an exit ends the match (`EndStep`) and wins only with every point
counted; all others stutter.

**FlightProofs.** Nothing is assumed of the limit of a frame. `FlightInv` says
what the phases hand on: when the drain begins, a flying bullet is clear of the
bound or has been hit, and one that has escaped has not been hit. So the step in
which a bullet gets behind the bound starts clear of it (`LongMove`), and its
move is as long as bullet and bound together: 31 px, against the 33.3 px that a
frame may bring. With a bound 4 px high no frame that counts would do.
EscapedForEver is the consequence for the slot.

**PatrolProofs.** If no `Reach` is as long as an enemy and the bound together
(33.3 against 41 in the code), no enemy passes a bound. The argument needs that
some enemy is foremost, which is a least element of a finite set; the library's
induction cannot be instantiated, so `LeastElement` takes it from the
well-foundedness of strict inclusion. `TurnsOnce` adds `TurnedInv`: after a turn
the whole formation is on the far side of where it touched, measured at its
first and last columns, which stays true when enemies are shot; as the bounds
leave it room (50 * (NUM_COLS - 1) + 40 + 1 pixels), it is not at the other
bound.

**AimProofs.** The two searches are recursive functions on an interval.
`RecursionDefines` proves that a function that takes each value from the one
before exists, and `StepByStep` is induction over an interval as a statement
about sets, by the least number outside of the set; so no theorem with an
operator as a parameter is needed. `ScanFindsNearest` and `LowestInLane` are the
loop invariants of the two loops, and `SpotIndex` says that the division and the
remainder by NUM_COLS reach every spot of the formation. InSight asks that the
search starts with more than any squared distance: at most 840 * 840 = 705600
in a window of 800 pixels, against 900000.

**SteeringProofs.** What is left of the argument for StaysInReach when both keys
are down is in `DrainInv`: as long as the event of one direction is pending, the
player can only have gone the other way, so the second move starts on the far
side of `from` and ends no further than one move from it, put back at an edge or
not. `NumbersOnly` is needed, as NotANumber shows. StackBalanced is inductive
with the types. FollowsScript is about the last statement of the three that set
things, so `SettingsInv` follows the settings from one to the next.

**HeapProofs.** OwnParts alone is not inductive. That a new object gets a number
that no other has needs the numbers in use to be an interval, and that
registering gives its guid to the new bullet and to no other needs every object
to have the guid of its slot already; both are in `HeapInv`. For the refinement,
`HandlersSeen` says what the mapping yields in such a state: a handler of its
own or `Dangling`. Then each step of Heap is compared with the one of
GameStateManager; reusing an address is where this could go wrong, and
OwnParts is what rules it out.

Assumptions of single theorems:

| Theorem | Assumes | In the code |
|---|---|---|
| WonIsOldest, WinComesFirst | the clock goes on from frame to frame (`ClockGoesOn`) | true unless the system clock is set back |
| EnemiesStayBetween, ShootsFromNearest | each `Reach` is less than `ENEMY_WIDTH + BoundWidth` | 33.3 against 41 |
| TurnsOnce | the same, and the bounds leave room for the formation | 10 columns of 50 pixels in 780 |
| ShootsFromNearest | `InSight` | 705600 against 900000 |
| WithinReach | no script asks for NaN (`NumbersOnly`) | left to the script's author |
| ScriptsFollowed | no `setInvincible` sets the velocity (`ShieldOnly`) | true of `script.js`; another script's would have the last word |

Model-checked only:

- what needs fairness: FrameCompletes, PointsArrive, FreedOrLost and
  PatrolGoesOn, as liveness is out of the prover's reach;
- the statements that the runs refute, which have counterexamples instead.

## 5. Not modelled

- Drawing and textures; the window's focus (a lost focus is a frame without
  keys); rendering of numbers. An object that died in a frame is drawn once
  more (`main.cpp:192` comes before line 196), which changes no state.
- Rounding: lengths and times are integers, the code has
  `float` and `double`. Flight meets the limits exactly in its unit; a rounded
  sum of moves shifts a bullet by far less than a tenth of a pixel.
- A clock set back to before the start of the program (`Timeline.cpp:28`): a
  reading is then not later than the timestamp 0 of the input and the movement,
  and a frame's collisions are handled before these.
- Probabilities: `srand(time(NULL))` in every frame (`GameStateManager.cpp:382`)
  makes all draws of a second equal. The model allows any draw, so it covers
  these, but cannot say how likely a shot is.
- Code that no behaviour of the program reaches at this commit. `GameTimeHandler`
  is constructed nowhere and it alone calls `pause`, `unpause` and `changeTick`
  of `Timeline`. `ReplayHandler` is constructed but registered for nothing, and
  nothing raises its events, so `handleEvents(double)`, recording and `to_string`
  are dead. `ScriptHandler` is registered nowhere. `removePlayerBullet`,
  `removeEnemyBullet`, `removeEnemy`, `removePlayer`, `addEnemyBullet(eb)`,
  `collidesWith` and the copy operations are never called. `oldMain.cpp` and
  `main2.cpp` are commented out. A model of these would have no environment to
  be faithful to: who would call them, and when, is nowhere in the source.
- The vendored libraries under `lib/`: SFML, ZeroMQ, Duktape (four copies),
  dukglue and a JSON library. They are about 480,000 of the 483,000 lines of
  source in the repository, so the map names a small share of all lines. Of the
  program's own 2,500 lines that are not commented out, which include headers,
  blank lines and the dead code above, it names two fifths. What the client
  needs of the libraries is modelled where it is used: the order and ties of
  `std::priority_queue` (EventManager), the alternation of a REQ socket
  (ServerLink), Duktape's stack and global object (Scripts), the allocator
  (Heap).
- When the process ends in `exit`, static destructors are left out.

## 6. Plan

The model is complete in the sense of section 5, and every invariant and every
action property that a run checks is a theorem. What is left:

1. Safety lemmas that liveness rests on and that need no fairness: a measure
   for the drain of Game, and that a frame of Patrol that moves comes nearer to
   the bound ahead.
2. A sharper assumption: how far back a clock may be set before
   WonBeforeLostLife fails.
