-------------------------------- MODULE Heap ---------------------------------
(***************************************************************************)
(* The memory behind the board: GameObject.cpp with the branches of        *)
(* EventHandler.cpp and GameStateManager.cpp that make and destroy game    *)
(* objects.  GameStateManager keeps the board without pointers; here the   *)
(* arrays hold pointers to objects, each object owns a shape and a         *)
(* handler, and the event manager keeps pointers to handlers, which the    *)
(* allocator may give out again once they are deleted.                     *)
(***************************************************************************)
EXTENDS Integers, FiniteSets

CONSTANTS
  NUM_ROWS, NUM_COLS,
  Addresses,      \* where a handler may be allocated
  MaxObjects,     \* bound: how many objects a match makes
  NULL,           \* the null pointer
  Dangling        \* a pointer to what was deleted, as GameStateManager has it

VARIABLES
  slot,           \* the arrays of the board: slot -> object or NULL
  memory,         \* what is allocated: objects, shapes, handlers
  registered,     \* EventManager::handlers: guid -> address of a handler
  numEnemies, enemyBulletsSize, playerBulletsSize

sizes == <<numEnemies, enemyBulletsSize, playerBulletsSize>>
vars == <<slot, memory, registered, sizes>>

\* The object in a slot.
Object(s) == memory.objects[slot[s]]

OnBoard(slots) == {s \in slots : slot[s] # NULL}

\* The handlers a guid leads to: the slot of the object with that guid, as
\* long as the pointer is the one to the handler this object has.
Reached(g) ==
  {s \in OnBoard(DOMAIN slot) : Object(s).guid = g /\ Object(s).handler = registered[g]}

\* The board as GameStateManager keeps it.
BoardObj ==
  [s \in DOMAIN slot |-> IF slot[s] = NULL THEN "null"
                         ELSE IF Object(s).isAlive THEN "alive" ELSE "dead"]

BoardGUID == [s \in DOMAIN slot |-> IF slot[s] = NULL THEN 0 ELSE Object(s).guid]

BoardHandlers ==
  [g \in DOMAIN registered |->
     IF Reached(g) = {} THEN Dangling ELSE CHOOSE s \in Reached(g) : TRUE]

boardVars == <<BoardObj, BoardGUID, BoardHandlers>>

Board == INSTANCE GameStateManager WITH
  obj <- BoardObj, guid <- BoardGUID, handlers <- BoardHandlers,
  queue <- <<>>, scrambled <- FALSE

ASSUME HeapAssumption ==
  /\ NUM_ROWS \in Nat \ {0} /\ NUM_COLS \in Nat \ {0}
  /\ MaxObjects \in Nat /\ MaxObjects > Board!ENEMY_MAX
  /\ NULL \notin Nat /\ Dangling \notin Board!Slots
  /\ Cardinality(Addresses) > Cardinality(Board!Slots)

-----------------------------------------------------------------------------
\* The function f with value at key.
With(f, key, value) ==
  [k \in DOMAIN f \cup {key} |-> IF k = key THEN value ELSE f[k]]

\* The memory m with these objects instead.
WithObjects(m, objects) ==
  [objects |-> objects, shapes |-> m.shapes, handlers |-> m.handlers]

\* GameObject(type): a new object with its shape and its handler, and guid 0.
NewObject(m, id, address) ==
  [objects  |-> With(m.objects, id, [isAlive |-> TRUE, guid |-> 0, handler |-> address]),
   shapes   |-> m.shapes \cup {id},
   handlers |-> m.handlers \cup {address}]

\* Deleting the shapes and the handlers of some objects.
DeleteParts(m, ids) ==
  [objects  |-> m.objects,
   shapes   |-> m.shapes \ ids,
   handlers |-> m.handlers \ {m.objects[i].handler : i \in ids}]

\* Mutant: an object that leaves its parts behind.
DeleteAlone(m, id) ==
  WithObjects(m, [i \in DOMAIN m.objects \ {id} |-> m.objects[i]])

\* ~GameObject: the parts go with the object.
Delete(m, id) ==
  WithObjects(DeleteParts(m, {id}), [i \in DOMAIN m.objects \ {id} |-> m.objects[i]])

\* main(): the player and the enemies, registered as they are made.
Init ==
  \E at \in [{Board!Player} \cup Board!Enemies -> Addresses] :
    /\ \A s, t \in DOMAIN at : at[s] = at[t] => s = t
    /\ slot = [s \in Board!Slots |-> IF s \in DOMAIN at THEN s ELSE NULL]
    /\ memory = [objects  |-> [s \in DOMAIN at |->
                                 [isAlive |-> TRUE, guid |-> s, handler |-> at[s]]],
                 shapes   |-> DOMAIN at,
                 handlers |-> {at[s] : s \in DOMAIN at}]
    /\ registered = at
    /\ numEnemies = Board!ENEMY_MAX
    /\ enemyBulletsSize = 0
    /\ playerBulletsSize = 0

NextObject == Cardinality(DOMAIN memory.objects)

Array(b) == IF b = Board!PlayerBullet THEN {b} ELSE Board!EnemyBullets

\* Mutant: the handler is registered before the object has its guid.
BeforeItsGUID(b) == 0

\* The guid that registerPlayerBullets and registerEnemyBullets are called with.
NewGUID(b) == b

(***************************************************************************)
(* SHOOT, SHOOT_LANE and SHOOT_RANDOM make a bullet, and store it if its   *)
(* slot is free.  Then every bullet of the array that still has guid 0     *)
(* gets its guid and is registered.                                        *)
(***************************************************************************)
Shoot(b) ==
  /\ slot[b] = NULL
  /\ NextObject < MaxObjects
  /\ \E address \in Addresses \ memory.handlers :
       LET made == NewObject(memory, NextObject, address)
           board == [slot EXCEPT ![b] = NextObject]
           new == {board[s] : s \in {t \in Array(b) : board[t] # NULL}}
                    \cap {i \in DOMAIN made.objects : made.objects[i].guid = 0}
       IN  /\ slot' = board
           /\ memory' = WithObjects(made, [i \in DOMAIN made.objects |->
                           IF i \in new THEN [made.objects[i] EXCEPT !.guid = b]
                                        ELSE made.objects[i]])
           /\ \E last \in new :
                registered' = With(registered, NewGUID(b), made.objects[last].handler)
  /\ enemyBulletsSize' = enemyBulletsSize + (IF b \in Board!EnemyBullets THEN 1 ELSE 0)
  /\ UNCHANGED <<numEnemies, playerBulletsSize>>

\* With the slot taken, the new bullet is deleted again.
ShootInVain(b) ==
  /\ slot[b] # NULL
  /\ \E address \in Addresses \ memory.handlers :
       memory' = Delete(NewObject(memory, NextObject, address), NextObject)
  /\ UNCHANGED <<slot, registered, sizes>>

\* GameObject::kill, which the handlers of bullets and enemies call.
Kill(s) ==
  /\ slot[s] # NULL
  /\ memory' = WithObjects(memory, [memory.objects EXCEPT ![slot[s]].isAlive = FALSE])
  /\ UNCHANGED <<slot, registered, sizes>>

\* Mutant: the board keeps its pointers.
KeepPointers(dead) == slot

\* The slots of objects that cleaned up become NULL.
Forget(dead) == [s \in DOMAIN slot |-> IF s \in dead THEN NULL ELSE slot[s]]

\* cleanUpObjects, with GameObject::cleanUp for every object.
CleanUpObjects ==
  LET dead == {s \in OnBoard(DOMAIN slot) : ~Object(s).isAlive}
      Dead(slots) == Cardinality(dead \cap slots)
  IN  /\ memory' = DeleteParts(memory, {slot[s] : s \in dead})
      /\ slot' = Forget(dead)
      /\ numEnemies' = numEnemies - Dead(Board!Enemies)
      /\ enemyBulletsSize' = enemyBulletsSize - Dead(Board!EnemyBullets)
      /\ playerBulletsSize' = playerBulletsSize - Dead({Board!PlayerBullet})
      /\ UNCHANGED registered

Next ==
  \/ \E b \in Board!Bullets : Shoot(b) \/ ShootInVain(b)
  \/ \E s \in Board!Enemies \cup Board!Bullets : Kill(s)
  \/ CleanUpObjects

Spec == Init /\ [][Next]_vars

-----------------------------------------------------------------------------
\* Every variable has its type.
TypeOK ==
  /\ slot \in [Board!Slots -> DOMAIN memory.objects \cup {NULL}]
  /\ memory.objects \in [DOMAIN memory.objects ->
        [isAlive : BOOLEAN, guid : Board!Slots, handler : Addresses]]
  /\ DOMAIN memory.objects \subseteq 0..MaxObjects
  /\ memory.shapes \subseteq DOMAIN memory.objects
  /\ memory.handlers \subseteq Addresses
  /\ DOMAIN registered \subseteq Board!Slots
  /\ registered \in [DOMAIN registered -> Addresses]
  /\ numEnemies \in Int /\ enemyBulletsSize \in Int /\ playerBulletsSize \in Int

\* Exactly the objects on the board have a shape and a handler, and no two
\* share one: nothing is deleted twice, nothing on the board is used after it
\* was deleted, and nothing that was deleted from the board stays allocated,
\* whichever addresses the allocator gives out again.
OwnParts ==
  LET here == OnBoard(DOMAIN slot)
  IN  /\ memory.shapes = {slot[s] : s \in here}
      /\ memory.handlers = {Object(s).handler : s \in here}
      /\ \A s, t \in here :
           s # t => slot[s] # slot[t] /\ Object(s).handler # Object(t).handler

\* The memory has these parts and no other.
IsMemory(m) ==
  m = [objects |-> m.objects, shapes |-> m.shapes, handlers |-> m.handlers]

\* What the proofs of TypeOK and OwnParts, and of ImplementsBoard, carry from
\* step to step: objects are numbered as they are made, so that the next one
\* has a number of its own, and an object has the guid of the slot it is in.
HeapInv ==
  /\ TypeOK
  /\ IsMemory(memory)
  /\ DOMAIN memory.objects = 0..(NextObject - 1) /\ NextObject \in 0..MaxObjects
  /\ OwnParts
  /\ \A s \in OnBoard(DOMAIN slot) : Object(s).guid = s

\* The memory implements the board: each step does to objects, guids and
\* handlers what GameStateManager says, with the pointers to deleted handlers
\* dangling although their addresses may be in use again.
BoardStep ==
  \/ \E b \in Board!Bullets : Board!AddBullet(b, Array(b), b)
  \/ /\ \E s \in Board!Slots : BoardObj' = [BoardObj EXCEPT ![s] = "dead"]
     /\ UNCHANGED <<BoardGUID, BoardHandlers>>
  \/ Board!CleanUpObjects

ImplementsBoard == Board!BoardInit /\ [][BoardStep]_boardVars

-----------------------------------------------------------------------------
\* GameStateManager.h:115-116: the clean-up "deletes the game objects that are
\* not alive": every object that is allocated is on the board.
ObjectsDeleted == DOMAIN memory.objects = {slot[s] : s \in OnBoard(DOMAIN slot)}
=============================================================================
