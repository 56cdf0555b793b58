----------------------------- MODULE HeapProofs ------------------------------
(***************************************************************************)
(* The proof that the memory behind the board is sound and implements the  *)
(* board, for every formation, every allocator and any number of shots:    *)
(* deleted handlers leave dangling pointers whose addresses come back.     *)
(***************************************************************************)
EXTENDS Heap, FiniteSetTheorems, TLAPS

\* The names of the slots: the player and the enemies are numbered, and no
\* bullet has the number an object starts with.
LEMMA SlotNames ==
  /\ Board!Player = 0 /\ Board!Player \notin Board!Enemies
  /\ Board!ENEMY_MAX \in Nat /\ MaxObjects \in Nat /\ Board!ENEMY_MAX < MaxObjects
  /\ {Board!Player} \cup Board!Enemies = 0..Board!ENEMY_MAX
  /\ \A b \in Board!Bullets : b \in Int /\ b # 0 /\ b \notin 0..Board!ENEMY_MAX
  /\ Board!Slots = (0..Board!ENEMY_MAX) \cup Board!Bullets
  /\ Board!PlayerBullet \in Board!Bullets /\ Board!EnemyBullets \subseteq Board!Bullets
  <1>1. Board!ENEMY_MAX \in Nat
    <2>1. \A m, n \in Nat : m * n \in Nat
      OBVIOUS
    <2> QED BY <2>1, HeapAssumption DEF Board!ENEMY_MAX
  <1>2. {Board!Player} \cup Board!Enemies = 0..Board!ENEMY_MAX
    BY <1>1 DEF Board!Player, Board!Enemies
  <1>3. \A b \in Board!Bullets : b \in Int /\ b < 0
    BY DEF Board!Bullets, Board!EnemyBullets, Board!PlayerBullet, Board!LaneBullet,
       Board!RandomBullet, Board!PLAYER_BULLET_GUID, Board!ENEMY_BULLET_LANE_GUID,
       Board!ENEMY_BULLET_RAND_GUID
  <1>4. Board!Slots = ({Board!Player} \cup Board!Enemies) \cup Board!Bullets
    BY DEF Board!Slots
  <1>5. Board!PlayerBullet \in Board!Bullets /\ Board!EnemyBullets \subseteq Board!Bullets
    BY DEF Board!Bullets
  <1>6. Board!Player = 0 /\ Board!Player \notin Board!Enemies
    BY <1>1 DEF Board!Player, Board!Enemies
  <1> QED BY <1>1, <1>2, <1>3, <1>4, <1>5, <1>6, HeapAssumption

\* What is on the board, spelled out.
LEMMA OnBoardFacts ==
  ASSUME HeapInv
  PROVE  /\ DOMAIN slot = Board!Slots
         /\ NextObject \in Nat /\ NextObject \notin DOMAIN memory.objects
         /\ NULL \notin DOMAIN memory.objects /\ NextObject # NULL
         /\ \A s \in OnBoard(DOMAIN slot) :
              /\ s \in Board!Slots /\ slot[s] \in DOMAIN memory.objects
              /\ Object(s) = memory.objects[slot[s]] /\ Object(s).guid = s
              /\ Object(s) \in [isAlive : BOOLEAN, guid : Board!Slots, handler : Addresses]
  <1>1. NextObject \in Nat /\ DOMAIN memory.objects = 0..(NextObject - 1)
    BY SlotNames DEF HeapInv
  <1>2. NULL \notin Nat
    BY HeapAssumption
  <1> QED BY <1>1, <1>2 DEF HeapInv, TypeOK, OnBoard, Object

-----------------------------------------------------------------------------
(***************************************************************************)
(* What the actions do to the memory.                                      *)
(***************************************************************************)
LEMMA AnObject ==
  ASSUME NEW A, NEW B, NEW C, NEW alive \in A, NEW g \in B, NEW h \in C
  PROVE  [isAlive |-> alive, guid |-> g, handler |-> h]
           \in [isAlive : A, guid : B, handler : C]
  OBVIOUS

LEMMA NamedObject ==
  ASSUME NEW A, NEW o \in [isAlive : BOOLEAN, guid : A, handler : Addresses], NEW g \in A
  PROVE  [o EXCEPT !.guid = g]
           = [isAlive |-> o.isAlive, guid |-> g, handler |-> o.handler]
  OBVIOUS

LEMMA KilledObject ==
  ASSUME NEW A, NEW B, NEW o \in [isAlive : B, guid : A, handler : Addresses], NEW dead \in B
  PROVE  [o EXCEPT !.isAlive = dead]
           = [isAlive |-> dead, guid |-> o.guid, handler |-> o.handler]
  OBVIOUS

\* A new bullet is the only one that has no guid yet.
LEMMA ShootEffect ==
  ASSUME HeapInv, NEW b \in Board!Bullets, Shoot(b)
  PROVE  \E address \in Addresses \ memory.handlers :
           /\ slot' = [slot EXCEPT ![b] = NextObject]
           /\ memory' = [objects  |-> With(memory.objects, NextObject,
                           [isAlive |-> TRUE, guid |-> b, handler |-> address]),
                         shapes   |-> memory.shapes \cup {NextObject},
                         handlers |-> memory.handlers \cup {address}]
           /\ registered' = With(registered, b, address)
  <1> DEFINE n == NextObject
             board == [slot EXCEPT ![b] = n]
  <1>1. PICK address \in Addresses \ memory.handlers :
          LET made == NewObject(memory, n, address)
              new == {board[s] : s \in {t \in Array(b) : board[t] # NULL}}
                       \cap {i \in DOMAIN made.objects : made.objects[i].guid = 0}
          IN  /\ slot' = board
              /\ memory' = WithObjects(made, [i \in DOMAIN made.objects |->
                              IF i \in new THEN [made.objects[i] EXCEPT !.guid = b]
                                           ELSE made.objects[i]])
              /\ \E last \in new :
                   registered' = With(registered, NewGUID(b), made.objects[last].handler)
    BY DEF Shoot
  <1> DEFINE made == NewObject(memory, n, address)
             new == {board[s] : s \in {t \in Array(b) : board[t] # NULL}}
                      \cap {i \in DOMAIN made.objects : made.objects[i].guid = 0}
             fresh == [isAlive |-> TRUE, guid |-> 0, handler |-> address]
  <1>2. /\ n \notin DOMAIN memory.objects /\ n # NULL /\ b \in DOMAIN slot
        /\ Array(b) \subseteq Board!Bullets /\ b \in Array(b)
        /\ Array(b) \subseteq DOMAIN slot
    BY OnBoardFacts, SlotNames
    DEF Array, Board!Bullets, Board!EnemyBullets
  <1>3. made = [objects |-> With(memory.objects, n, fresh),
                shapes |-> memory.shapes \cup {n},
                handlers |-> memory.handlers \cup {address}]
    BY DEF NewObject
  <1>4. /\ DOMAIN made.objects = DOMAIN memory.objects \cup {n}
        /\ made.objects[n] = fresh
        /\ \A i \in DOMAIN memory.objects : made.objects[i] = memory.objects[i]
    BY <1>2, <1>3 DEF With
  <1>5. new = {n}
    <2>1. n \in new
      BY <1>2, <1>4
    <2>2. ASSUME NEW t \in Array(b), board[t] # NULL, t # b
          PROVE  made.objects[board[t]].guid # 0
      <3>1. board[t] = slot[t] /\ t \in OnBoard(DOMAIN slot) /\ t # 0
        BY <1>2, <2>2, SlotNames DEF OnBoard
      <3>2. slot[t] \in DOMAIN memory.objects /\ memory.objects[slot[t]].guid = t
        BY <3>1, OnBoardFacts
      <3> QED BY <1>4, <3>1, <3>2
    <2>3. board[b] = n
      BY <1>2
    <2> QED BY <2>1, <2>2, <2>3
  <1> DEFINE objects == With(memory.objects, n,
                          [isAlive |-> TRUE, guid |-> b, handler |-> address])
  <1>6. [i \in DOMAIN made.objects |->
           IF i \in {n} THEN [made.objects[i] EXCEPT !.guid = b] ELSE made.objects[i]]
          = objects
    <2> HIDE DEF made
    <2>1. [fresh EXCEPT !.guid = b] = [isAlive |-> TRUE, guid |-> b, handler |-> address]
      <3>1. fresh \in [isAlive : BOOLEAN, guid : Board!Slots, handler : Addresses]
              /\ b \in Board!Slots
        BY SlotNames
      <3> HIDE DEF fresh
      <3>2. [fresh EXCEPT !.guid = b]
              = [isAlive |-> fresh.isAlive, guid |-> b, handler |-> fresh.handler]
        BY <3>1, NamedObject
      <3> QED BY <3>2 DEF fresh
    <2> QED BY <1>2, <1>4, <2>1 DEF With
  <1>7. memory' = WithObjects(made, objects)
    <2> HIDE DEF new, made, objects
    <2>1. memory' = WithObjects(made, [i \in DOMAIN made.objects |->
            IF i \in new THEN [made.objects[i] EXCEPT !.guid = b] ELSE made.objects[i]])
      BY <1>1 DEF new, made
    <2> QED BY <1>5, <1>6, <2>1
  <1>8. memory' = [objects |-> objects, shapes |-> memory.shapes \cup {n},
                   handlers |-> memory.handlers \cup {address}]
    <2> HIDE DEF made, objects
    <2> QED BY <1>3, <1>7 DEF WithObjects
  <1>9. registered' = With(registered, b, address)
    <2>1. \E last \in new :
            registered' = With(registered, NewGUID(b), made.objects[last].handler)
      BY <1>1
    <2> HIDE DEF new, made
    <2>2. registered' = With(registered, NewGUID(b), made.objects[n].handler)
      BY <1>5, <2>1
    <2> QED BY <1>4, <2>2 DEF NewGUID
  <1> QED BY <1>1, <1>8, <1>9

\* A shot in vain leaves nothing behind.
LEMMA ShootInVainEffect ==
  ASSUME HeapInv, NEW b \in Board!Bullets, ShootInVain(b)
  PROVE  memory' = memory /\ UNCHANGED <<slot, registered, sizes>>
  <1> DEFINE n == NextObject
  <1>1. PICK address \in Addresses \ memory.handlers :
          memory' = Delete(NewObject(memory, n, address), n)
    BY DEF ShootInVain
  <1> DEFINE made == NewObject(memory, n, address)
  <1>2. n \notin DOMAIN memory.objects
    BY OnBoardFacts
  <1>3. made = [objects |-> made.objects, shapes |-> memory.shapes \cup {n},
                handlers |-> memory.handlers \cup {address}]
    BY DEF NewObject
  <1>4. /\ DOMAIN made.objects = DOMAIN memory.objects \cup {n}
        /\ made.objects[n].handler = address
        /\ \A i \in DOMAIN memory.objects : made.objects[i] = memory.objects[i]
    BY <1>2 DEF NewObject, With
  <1>5. made.shapes = memory.shapes \cup {n} /\ made.handlers = memory.handlers \cup {address}
    BY <1>3
  <1> HIDE DEF made
  <1>6. {made.objects[i].handler : i \in {n}} = {address}
    BY <1>4
  <1>7. n \notin memory.shapes /\ address \notin memory.handlers
    BY <1>2 DEF HeapInv, TypeOK
  <1>8. DeleteParts(made, {n}) = [objects |-> made.objects, shapes |-> memory.shapes,
                                  handlers |-> memory.handlers]
    BY <1>5, <1>6, <1>7 DEF DeleteParts
  <1>9. [i \in DOMAIN made.objects \ {n} |-> made.objects[i]] = memory.objects
    <2>1. memory.objects = [i \in DOMAIN memory.objects |-> memory.objects[i]]
      BY DEF HeapInv, TypeOK
    <2>2. DOMAIN made.objects \ {n} = DOMAIN memory.objects
      BY <1>2, <1>4
    <2> QED BY <1>4, <2>1, <2>2
  <1>10. Delete(made, n) = [objects |-> memory.objects, shapes |-> memory.shapes,
                            handlers |-> memory.handlers]
    BY <1>8, <1>9 DEF Delete, WithObjects
  <1> QED BY <1>1, <1>10 DEF made, ShootInVain, HeapInv, IsMemory

LEMMA KillEffect ==
  ASSUME HeapInv, NEW s, Kill(s), s \in OnBoard(DOMAIN slot)
  PROVE  /\ UNCHANGED <<slot, registered, sizes>>
         /\ memory' = [objects  |-> With(memory.objects, slot[s],
                         [isAlive |-> FALSE, guid |-> s, handler |-> Object(s).handler]),
                       shapes   |-> memory.shapes, handlers |-> memory.handlers]
  <1>1. memory' = WithObjects(memory, [memory.objects EXCEPT ![slot[s]].isAlive = FALSE])
    BY DEF Kill
  <1>2. /\ slot[s] \in DOMAIN memory.objects
        /\ Object(s) = memory.objects[slot[s]] /\ Object(s).guid = s
        /\ Object(s) \in [isAlive : BOOLEAN, guid : Board!Slots, handler : Addresses]
    BY OnBoardFacts
  <1>3. [Object(s) EXCEPT !.isAlive = FALSE]
          = [isAlive |-> FALSE, guid |-> s, handler |-> Object(s).handler]
    <2>1. \A dead \in BOOLEAN : [Object(s) EXCEPT !.isAlive = dead]
            = [isAlive |-> dead, guid |-> Object(s).guid, handler |-> Object(s).handler]
      BY <1>2, KilledObject
    <2> QED BY <1>2, <2>1
  <1>4. [memory.objects EXCEPT ![slot[s]].isAlive = FALSE]
          = [memory.objects EXCEPT ![slot[s]] = [Object(s) EXCEPT !.isAlive = FALSE]]
    BY <1>2
  <1>5. [memory.objects EXCEPT ![slot[s]].isAlive = FALSE]
          = With(memory.objects, slot[s],
              [isAlive |-> FALSE, guid |-> s, handler |-> Object(s).handler])
    <2> DEFINE killed == [isAlive |-> FALSE, guid |-> s, handler |-> Object(s).handler]
    <2>1. memory.objects = [i \in DOMAIN memory.objects |-> memory.objects[i]]
      BY DEF HeapInv, TypeOK
    <2>2. DOMAIN memory.objects \cup {slot[s]} = DOMAIN memory.objects
      BY <1>2
    <2> HIDE DEF killed
    <2>3. [memory.objects EXCEPT ![slot[s]] = killed] = With(memory.objects, slot[s], killed)
      BY <2>1, <2>2 DEF With
    <2> QED BY <1>3, <1>4, <2>3 DEF killed
  <1> QED BY <1>1, <1>5 DEF WithObjects, Kill

-----------------------------------------------------------------------------
(***************************************************************************)
(* The invariant.                                                          *)
(***************************************************************************)
\* Objects that are numbered from 0 on are as many as the next number.
LEMMA CountOfNumbers ==
  ASSUME NEW n \in Nat PROVE Cardinality(0..(n - 1)) = n
  <1>1. Cardinality(0..(n - 1)) = IF 0 > n - 1 THEN 0 ELSE (n - 1) - 0 + 1
    BY FS_Interval
  <1> QED BY <1>1

LEMMA HeapInit == Init => HeapInv
  <1> SUFFICES ASSUME Init PROVE HeapInv
    OBVIOUS
  <1> DEFINE max == Board!ENEMY_MAX
             numbered == 0..max
  <1>1. PICK at \in [numbered -> Addresses] :
          /\ \A s, t \in DOMAIN at : at[s] = at[t] => s = t
          /\ slot = [s \in Board!Slots |-> IF s \in DOMAIN at THEN s ELSE NULL]
          /\ memory = [objects  |-> [s \in DOMAIN at |->
                                       [isAlive |-> TRUE, guid |-> s, handler |-> at[s]]],
                       shapes   |-> DOMAIN at,
                       handlers |-> {at[s] : s \in DOMAIN at}]
          /\ registered = at
          /\ numEnemies = max /\ enemyBulletsSize = 0 /\ playerBulletsSize = 0
    BY SlotNames DEF Init
  <1>2. /\ DOMAIN at = numbered /\ numbered \subseteq Board!Slots /\ max \in Nat
        /\ numbered \subseteq Nat /\ NULL \notin numbered
    BY SlotNames, HeapAssumption
  <1>3. /\ memory.objects = [s \in numbered |->
                               [isAlive |-> TRUE, guid |-> s, handler |-> at[s]]]
        /\ memory.shapes = numbered /\ memory.handlers = {at[s] : s \in numbered}
        /\ DOMAIN memory.objects = numbered /\ IsMemory(memory)
    BY <1>1, <1>2 DEF IsMemory
  <1>4. OnBoard(DOMAIN slot) = numbered /\ DOMAIN slot = Board!Slots
    BY <1>1, <1>2 DEF OnBoard
  <1>5. \A s \in numbered : slot[s] = s /\ Object(s) = memory.objects[s]
    BY <1>1, <1>2 DEF Object
  <1>6. TypeOK
    <2>1. memory.objects \in [DOMAIN memory.objects ->
            [isAlive : BOOLEAN, guid : Board!Slots, handler : Addresses]]
      BY <1>2, <1>3
    <2>2. numbered \subseteq 0..MaxObjects
      BY SlotNames
    <2>3. slot \in [Board!Slots -> DOMAIN memory.objects \cup {NULL}]
      BY <1>1, <1>2, <1>3
    <2>4. memory.handlers \subseteq Addresses
      BY <1>3
    <2> QED BY <1>1, <1>2, <1>3, <2>1, <2>2, <2>3, <2>4 DEF TypeOK
  <1>7. OwnParts
    <2>1. numbered = {slot[s] : s \in numbered}
      BY <1>5
    <2>2. \A s \in numbered : Object(s).handler = at[s]
      BY <1>3, <1>5
    <2>3. {at[s] : s \in numbered} = {Object(s).handler : s \in numbered}
      BY <2>2
    <2>4. \A s, t \in numbered :
            s # t => slot[s] # slot[t] /\ Object(s).handler # Object(t).handler
      BY <1>1, <1>2, <1>5, <2>2
    <2> QED BY <1>3, <1>4, <2>1, <2>3, <2>4 DEF OwnParts
  <1>8. NextObject = max + 1
    <2>1. numbered = 0..((max + 1) - 1) /\ max + 1 \in Nat
      BY <1>2
    <2> QED BY <1>3, <2>1, CountOfNumbers DEF NextObject
  <1>9. DOMAIN memory.objects = 0..(NextObject - 1) /\ NextObject \in 0..MaxObjects
    BY <1>2, <1>3, <1>8, SlotNames
  <1>10. \A s \in OnBoard(DOMAIN slot) : Object(s).guid = s
    BY <1>3, <1>4, <1>5
  <1> QED BY <1>3, <1>6, <1>7, <1>9, <1>10 DEF HeapInv

LEMMA ShootKeeps ==
  ASSUME HeapInv, NEW b \in Board!Bullets, Shoot(b) PROVE HeapInv'
  <1> DEFINE n == NextObject
             here == OnBoard(DOMAIN slot)
  <1>1. PICK address \in Addresses \ memory.handlers :
          /\ slot' = [slot EXCEPT ![b] = n]
          /\ memory' = [objects  |-> With(memory.objects, n,
                           [isAlive |-> TRUE, guid |-> b, handler |-> address]),
                        shapes   |-> memory.shapes \cup {n},
                        handlers |-> memory.handlers \cup {address}]
          /\ registered' = With(registered, b, address)
    BY ShootEffect
  <1>2. /\ n \in Nat /\ n \notin DOMAIN memory.objects /\ n # NULL /\ n < MaxObjects
        /\ slot[b] = NULL /\ b \in Board!Slots /\ DOMAIN slot = Board!Slots
    BY OnBoardFacts, SlotNames DEF Shoot
  <1>3. /\ memory'.shapes = memory.shapes \cup {n}
        /\ memory'.handlers = memory.handlers \cup {address}
        /\ DOMAIN memory'.objects = DOMAIN memory.objects \cup {n}
        /\ memory'.objects[n] = [isAlive |-> TRUE, guid |-> b, handler |-> address]
        /\ \A i \in DOMAIN memory.objects : memory'.objects[i] = memory.objects[i]
        /\ IsMemory(memory')
    BY <1>1, <1>2 DEF With, IsMemory
  <1>4. OnBoard(DOMAIN slot)' = here \cup {b} /\ b \notin here /\ DOMAIN slot' = DOMAIN slot
    BY <1>1, <1>2 DEF OnBoard
  <1>5. /\ slot'[b] = n /\ \A s \in here : slot'[s] = slot[s]
        /\ Object(b)' = [isAlive |-> TRUE, guid |-> b, handler |-> address]
        /\ \A s \in here : Object(s)' = Object(s)
    <2>1. slot'[b] = n /\ \A s \in here : slot'[s] = slot[s]
      BY <1>1, <1>2, <1>4 DEF OnBoard
    <2> QED BY <1>3, <2>1, OnBoardFacts DEF Object
  <1>6. TypeOK'
    <2>1. memory'.objects \in [DOMAIN memory'.objects ->
            [isAlive : BOOLEAN, guid : Board!Slots, handler : Addresses]]
      <3>1. memory'.objects = With(memory.objects, n,
              [isAlive |-> TRUE, guid |-> b, handler |-> address])
        BY <1>1
      <3>2. memory'.objects = [i \in DOMAIN memory'.objects |-> memory'.objects[i]]
        BY <3>1 DEF With
      <3>3. ASSUME NEW i \in DOMAIN memory'.objects
            PROVE  memory'.objects[i] \in
                     [isAlive : BOOLEAN, guid : Board!Slots, handler : Addresses]
        <4>1. CASE i = n
          <5>1. [isAlive |-> TRUE, guid |-> b, handler |-> address] \in
                  [isAlive : BOOLEAN, guid : Board!Slots, handler : Addresses]
            BY <1>2, AnObject
          <5> QED BY <1>3, <4>1, <5>1
        <4>2. CASE i # n
          BY <1>3, <4>2 DEF HeapInv, TypeOK
        <4> QED BY <4>1, <4>2
      <3> QED BY <3>2, <3>3
    <2>2. slot' \in [Board!Slots -> DOMAIN memory'.objects \cup {NULL}]
      BY <1>1, <1>2, <1>3 DEF HeapInv, TypeOK
    <2>3. /\ DOMAIN registered' \subseteq Board!Slots
          /\ registered' \in [DOMAIN registered' -> Addresses]
      BY <1>1, <1>2 DEF HeapInv, TypeOK, With
    <2>4. DOMAIN memory'.objects \subseteq 0..MaxObjects
      BY <1>2, <1>3, SlotNames DEF HeapInv, TypeOK
    <2>5. numEnemies' \in Int /\ enemyBulletsSize' \in Int /\ playerBulletsSize' \in Int
      <3>1. /\ numEnemies' = numEnemies /\ playerBulletsSize' = playerBulletsSize
            /\ enemyBulletsSize' =
                 enemyBulletsSize + (IF b \in Board!EnemyBullets THEN 1 ELSE 0)
        BY DEF Shoot
      <3>2. numEnemies \in Int /\ enemyBulletsSize \in Int /\ playerBulletsSize \in Int
        BY DEF HeapInv, TypeOK
      <3> QED BY <3>1, <3>2
    <2>6. /\ memory'.shapes \subseteq DOMAIN memory'.objects
          /\ memory'.handlers \subseteq Addresses
      <3>1. memory.shapes \subseteq DOMAIN memory.objects /\ memory.handlers \subseteq Addresses
        BY DEF HeapInv, TypeOK
      <3> QED BY <1>3, <3>1
    <2> QED BY <2>1, <2>2, <2>3, <2>4, <2>5, <2>6 DEF TypeOK
  <1>7. OwnParts'
    <2>1. memory'.shapes = {slot'[s] : s \in here \cup {b}}
      BY <1>3, <1>5 DEF HeapInv, OwnParts
    <2>2. memory'.handlers = {Object(s)'.handler : s \in here \cup {b}}
      BY <1>3, <1>5 DEF HeapInv, OwnParts
    <2>3. \A s \in here : slot'[s] # n /\ Object(s)'.handler # address
      <3>1. \A s \in here : Object(s).handler \in memory.handlers
        BY DEF HeapInv, OwnParts
      <3> QED BY <1>2, <1>5, <3>1, OnBoardFacts
    <2>4. \A s, t \in here :
            s # t => slot'[s] # slot'[t] /\ Object(s)'.handler # Object(t)'.handler
      BY <1>5 DEF HeapInv, OwnParts
    <2> QED BY <1>4, <1>5, <2>1, <2>2, <2>3, <2>4 DEF OwnParts
  <1>8. NextObject' = n + 1
    <2>1. DOMAIN memory'.objects = 0..((n + 1) - 1) /\ n + 1 \in Nat
      BY <1>2, <1>3 DEF HeapInv
    <2> QED BY <2>1, CountOfNumbers DEF NextObject
  <1>9. DOMAIN memory'.objects = 0..(NextObject' - 1) /\ NextObject' \in 0..MaxObjects
    BY <1>2, <1>3, <1>8, SlotNames DEF HeapInv
  <1>10. \A s \in here \cup {b} : Object(s)'.guid = s
    BY <1>5 DEF HeapInv
  <1> QED BY <1>3, <1>4, <1>6, <1>7, <1>9, <1>10 DEF HeapInv

LEMMA KillKeeps ==
  ASSUME HeapInv, NEW s \in Board!Slots, Kill(s) PROVE HeapInv'
  <1> DEFINE here == OnBoard(DOMAIN slot)
             killed == [isAlive |-> FALSE, guid |-> s, handler |-> Object(s).handler]
  <1>1. s \in here
    BY OnBoardFacts DEF Kill, OnBoard
  <1>2. /\ UNCHANGED <<slot, registered, sizes>>
        /\ memory' = [objects  |-> With(memory.objects, slot[s], killed),
                      shapes   |-> memory.shapes, handlers |-> memory.handlers]
    BY <1>1, KillEffect
  <1>3. slot[s] \in DOMAIN memory.objects /\ Object(s).handler \in Addresses
    BY <1>1, OnBoardFacts
  <1>4. /\ memory'.shapes = memory.shapes /\ memory'.handlers = memory.handlers
        /\ DOMAIN memory'.objects = DOMAIN memory.objects
        /\ memory'.objects[slot[s]] = killed
        /\ \A i \in DOMAIN memory.objects \ {slot[s]} : memory'.objects[i] = memory.objects[i]
        /\ memory'.objects = [i \in DOMAIN memory'.objects |-> memory'.objects[i]]
        /\ IsMemory(memory')
    BY <1>2, <1>3 DEF With, IsMemory
  <1>5. OnBoard(DOMAIN slot)' = here
    BY <1>2 DEF OnBoard
  <1>6. \A t \in here :
          Object(t)'.handler = Object(t).handler /\ Object(t)'.guid = Object(t).guid
    <2> SUFFICES ASSUME NEW t \in here
                 PROVE  /\ Object(t)'.handler = Object(t).handler
                        /\ Object(t)'.guid = Object(t).guid
      OBVIOUS
    <2>1. Object(t)' = memory'.objects[slot[t]]
      BY <1>2 DEF Object
    <2>2. CASE slot[t] = slot[s]
      <3>1. t = s
        BY <1>1, <2>2 DEF HeapInv, OwnParts
      <3> QED BY <1>1, <1>4, <2>1, <3>1, OnBoardFacts
    <2>3. CASE slot[t] # slot[s]
      BY <1>4, <2>1, <2>3, OnBoardFacts
    <2> QED BY <2>2, <2>3
  <1>7. TypeOK'
    <2>1. memory'.objects \in [DOMAIN memory'.objects ->
            [isAlive : BOOLEAN, guid : Board!Slots, handler : Addresses]]
      <3>1. ASSUME NEW i \in DOMAIN memory'.objects
            PROVE  memory'.objects[i] \in
                     [isAlive : BOOLEAN, guid : Board!Slots, handler : Addresses]
        <4>1. CASE i = slot[s]
          <5>1. killed \in [isAlive : BOOLEAN, guid : Board!Slots, handler : Addresses]
            BY <1>3, AnObject
          <5> HIDE DEF killed
          <5> QED BY <1>4, <4>1, <5>1
        <4>2. CASE i # slot[s]
          BY <1>4, <4>2 DEF HeapInv, TypeOK
        <4> QED BY <4>1, <4>2
      <3> QED BY <1>4, <3>1
    <2> QED BY <1>2, <1>4, <2>1 DEF HeapInv, TypeOK, sizes
  <1>8. OwnParts'
    <2>1. {Object(t)'.handler : t \in here} = {Object(t).handler : t \in here}
      BY <1>6
    <2>2. memory.handlers = {Object(t).handler : t \in here}
      BY DEF HeapInv, OwnParts
    <2>3. memory'.handlers = {Object(t)'.handler : t \in here}
      BY <1>4, <2>1, <2>2
    <2>4. memory'.shapes = {slot'[t] : t \in here}
      BY <1>2, <1>4 DEF HeapInv, OwnParts
    <2>5. \A t, u \in here :
            t # u => slot'[t] # slot'[u] /\ Object(t)'.handler # Object(u)'.handler
      BY <1>2, <1>6 DEF HeapInv, OwnParts
    <2> QED BY <1>5, <2>3, <2>4, <2>5 DEF OwnParts
  <1>9. NextObject' = NextObject
    BY <1>4 DEF NextObject
  <1> QED BY <1>4, <1>5, <1>6, <1>7, <1>8, <1>9 DEF HeapInv

LEMMA CleanUpKeeps ==
  ASSUME HeapInv, CleanUpObjects PROVE HeapInv'
  <1> DEFINE here == OnBoard(DOMAIN slot)
             dead == {s \in here : ~Object(s).isAlive}
             gone == {slot[s] : s \in dead}
  <1>1. /\ memory' = [objects |-> memory.objects, shapes |-> memory.shapes \ gone,
                      handlers |-> memory.handlers \ {memory.objects[i].handler : i \in gone}]
        /\ slot' = [s \in DOMAIN slot |-> IF s \in dead THEN NULL ELSE slot[s]]
        /\ registered' = registered
    BY DEF CleanUpObjects, DeleteParts, Forget
  <1>2. /\ memory'.objects = memory.objects /\ memory'.shapes = memory.shapes \ gone
        /\ memory'.handlers = memory.handlers \ {Object(s).handler : s \in dead}
        /\ IsMemory(memory')
    BY <1>1 DEF IsMemory, Object
  <1>3. OnBoard(DOMAIN slot)' = here \ dead /\ DOMAIN slot' = DOMAIN slot
    BY <1>1 DEF OnBoard
  <1>4. \A s \in here \ dead : slot'[s] = slot[s] /\ Object(s)' = Object(s)
    BY <1>1, <1>2 DEF OnBoard, Object
  <1>5. TypeOK'
    <2>1. /\ Cardinality(dead \cap Board!Enemies) \in Nat
          /\ Cardinality(dead \cap Board!EnemyBullets) \in Nat
          /\ Cardinality(dead \cap {Board!PlayerBullet}) \in Nat
      <3>1. IsFiniteSet(Board!Enemies)
        BY SlotNames, FS_Interval DEF Board!Enemies
      <3>2. IsFiniteSet(Board!EnemyBullets)
        <4>1. Board!EnemyBullets = {Board!LaneBullet} \cup {Board!RandomBullet}
          BY DEF Board!EnemyBullets
        <4> QED BY <4>1, FS_Singleton, FS_Union
      <3>3. IsFiniteSet({Board!PlayerBullet})
        BY FS_Singleton
      <3> HIDE DEF dead
      <3>4. \A S : IsFiniteSet(S) => Cardinality(dead \cap S) \in Nat
        <4> SUFFICES ASSUME NEW S, IsFiniteSet(S) PROVE Cardinality(dead \cap S) \in Nat
          OBVIOUS
        <4>1. dead \cap S \in SUBSET S
          OBVIOUS
        <4> QED BY <4>1, FS_Subset, FS_CardinalityType
      <3> QED BY <3>1, <3>2, <3>3, <3>4
    <2>2. numEnemies' \in Int /\ enemyBulletsSize' \in Int /\ playerBulletsSize' \in Int
      <3>1. /\ numEnemies' = numEnemies - Cardinality(dead \cap Board!Enemies)
            /\ enemyBulletsSize' = enemyBulletsSize - Cardinality(dead \cap Board!EnemyBullets)
            /\ playerBulletsSize' =
                 playerBulletsSize - Cardinality(dead \cap {Board!PlayerBullet})
        BY DEF CleanUpObjects
      <3> HIDE DEF dead
      <3> QED BY <2>1, <3>1 DEF HeapInv, TypeOK
    <2>3. slot' \in [Board!Slots -> DOMAIN memory.objects \cup {NULL}]
      BY <1>1 DEF HeapInv, TypeOK
    <2> QED BY <1>1, <1>2, <2>2, <2>3 DEF HeapInv, TypeOK
  <1>6. OwnParts'
    <2>1. memory'.shapes = {slot'[s] : s \in here \ dead}
      <3>1. memory.shapes = {slot[s] : s \in here}
        BY DEF HeapInv, OwnParts
      <3>2. \A s, t \in here : s # t => slot[s] # slot[t]
        BY DEF HeapInv, OwnParts
      <3>3. memory'.shapes = {slot[s] : s \in here \ dead}
        BY <1>2, <3>1, <3>2
      <3> QED BY <1>4, <3>3
    <2>2. memory'.handlers = {Object(s)'.handler : s \in here \ dead}
      <3>1. memory.handlers = {Object(s).handler : s \in here}
        BY DEF HeapInv, OwnParts
      <3>2. \A s, t \in here : s # t => Object(s).handler # Object(t).handler
        BY DEF HeapInv, OwnParts
      <3>3. memory'.handlers = {Object(s).handler : s \in here \ dead}
        BY <1>2, <3>1, <3>2
      <3> QED BY <1>4, <3>3
    <2> QED BY <1>3, <1>4, <2>1, <2>2 DEF HeapInv, OwnParts
  <1>7. NextObject' = NextObject
    BY <1>2 DEF NextObject
  <1> QED BY <1>2, <1>3, <1>4, <1>5, <1>6, <1>7 DEF HeapInv

LEMMA HeapNext == HeapInv /\ [Next]_vars => HeapInv'
  <1> SUFFICES ASSUME HeapInv, [Next]_vars PROVE HeapInv'
    OBVIOUS
  <1>1. CASE \E b \in Board!Bullets : Shoot(b)
    BY <1>1, ShootKeeps
  <1>2. CASE (\E b \in Board!Bullets : ShootInVain(b)) \/ UNCHANGED vars
    <2>1. memory' = memory /\ UNCHANGED <<slot, registered, sizes>>
      BY <1>2, ShootInVainEffect DEF vars
    <2> QED BY <2>1 DEF HeapInv, TypeOK, OwnParts, OnBoard, Object, NextObject, sizes
  <1>3. CASE \E s \in Board!Enemies \cup Board!Bullets : Kill(s)
    BY <1>3, KillKeeps DEF Board!Slots
  <1>4. CASE CleanUpObjects
    BY <1>4, CleanUpKeeps
  <1> QED BY <1>1, <1>2, <1>3, <1>4 DEF Next

\* Objects keep numbers of their own and the guids of their slots, and own
\* their parts, through every step of the board.
THEOREM HeapInductive == Spec => []HeapInv
  <1> QED BY HeapInit, HeapNext, PTL DEF Spec

\* Every variable of the heap keeps its type.
THEOREM HeapTypes == Spec => []TypeOK
  <1>1. HeapInv => TypeOK
    BY DEF HeapInv
  <1> QED BY <1>1, HeapInductive, PTL

\* The objects on the board own their shapes and handlers, one each, and
\* nothing else is allocated, whichever addresses the allocator gives out
\* again: no double delete, no use after delete, no part that is lost.
THEOREM PartsOwned == Spec => []OwnParts
  <1>1. HeapInv => OwnParts
    BY DEF HeapInv
  <1> QED BY <1>1, HeapInductive, PTL
-----------------------------------------------------------------------------
(***************************************************************************)
(* The refinement.                                                         *)
(***************************************************************************)
\* A pointer that is registered for the guid of an object on the board, and
\* is the one to its handler.
Holds(g) == g \in OnBoard(DOMAIN slot) /\ Object(g).handler = registered[g]

\* The handlers as the board sees them: an object's own, or a dangling pointer.
HandlersAsSeen ==
  BoardHandlers = [g \in DOMAIN registered |-> IF Holds(g) THEN g ELSE Dangling]

LEMMA HandlersSeen == HeapInv => HandlersAsSeen
  <1> SUFFICES ASSUME HeapInv, NEW g \in DOMAIN registered
               PROVE  (IF Reached(g) = {} THEN Dangling ELSE CHOOSE s \in Reached(g) : TRUE)
                        = (IF Holds(g) THEN g ELSE Dangling)
    BY DEF HandlersAsSeen, BoardHandlers
  <1>1. \A s \in OnBoard(DOMAIN slot) : Object(s).guid = s
    BY DEF HeapInv
  <1>2. CASE Holds(g)
    <2>1. Reached(g) = {g}
      BY <1>1, <1>2 DEF Holds, Reached
    <2> QED BY <1>2, <2>1
  <1>3. CASE ~Holds(g)
    <2>1. Reached(g) = {}
      BY <1>1, <1>3 DEF Holds, Reached
    <2> QED BY <1>3, <2>1
  <1> QED BY <1>2, <1>3

LEMMA HandlersSeenNext == HeapInv' => HandlersAsSeen'
  BY HandlersSeen, PTL

LEMMA BoardInitial == Init => Board!BoardInit
  <1> SUFFICES ASSUME Init PROVE Board!BoardInit
    OBVIOUS
  <1> DEFINE numbered == 0..Board!ENEMY_MAX
  <1>1. PICK at \in [numbered -> Addresses] :
          /\ slot = [s \in Board!Slots |-> IF s \in DOMAIN at THEN s ELSE NULL]
          /\ memory = [objects  |-> [s \in DOMAIN at |->
                                       [isAlive |-> TRUE, guid |-> s, handler |-> at[s]]],
                       shapes   |-> DOMAIN at,
                       handlers |-> {at[s] : s \in DOMAIN at}]
          /\ registered = at
    BY SlotNames DEF Init
  <1>2. /\ DOMAIN at = numbered /\ numbered \subseteq Board!Slots
        /\ NULL \notin numbered /\ DOMAIN slot = Board!Slots
        /\ \A s \in Board!Slots : s \in Board!Bullets <=> s \notin numbered
    BY <1>1, SlotNames, HeapAssumption
  <1>3. \A s \in numbered :
          /\ slot[s] = s /\ Object(s) = [isAlive |-> TRUE, guid |-> s, handler |-> at[s]]
    BY <1>1, <1>2 DEF Object
  <1>4. \A s \in Board!Slots \ numbered : slot[s] = NULL
    BY <1>1, <1>2
  <1>5. BoardObj = [s \in Board!Slots |-> IF s \in Board!Bullets THEN "null" ELSE "alive"]
    BY <1>2, <1>3, <1>4 DEF BoardObj
  <1>6. BoardGUID = [s \in Board!Slots |-> IF s \in Board!Bullets THEN 0 ELSE s]
    BY <1>2, <1>3, <1>4 DEF BoardGUID
  <1>7. BoardHandlers = [g \in numbered |-> g]
    <2>1. DOMAIN registered = numbered
      BY <1>1
    <2>2. \A g \in numbered : Holds(g)
      BY <1>1, <1>2, <1>3 DEF Holds, OnBoard
    <2> QED BY <2>1, <2>2, HandlersSeen, HeapInit DEF HandlersAsSeen
  <1> QED BY <1>5, <1>6, <1>7, SlotNames DEF Init, Board!BoardInit

LEMMA ShootOnBoard ==
  ASSUME HeapInv, HeapInv', NEW b \in Board!Bullets, Shoot(b)
  PROVE  Board!AddBullet(b, Array(b), b)
  <1> DEFINE n == NextObject
             here == OnBoard(DOMAIN slot)
  <1>1. PICK address \in Addresses \ memory.handlers :
          /\ slot' = [slot EXCEPT ![b] = n]
          /\ memory' = [objects  |-> With(memory.objects, n,
                           [isAlive |-> TRUE, guid |-> b, handler |-> address]),
                        shapes   |-> memory.shapes \cup {n},
                        handlers |-> memory.handlers \cup {address}]
          /\ registered' = With(registered, b, address)
    BY ShootEffect
  <1>2. /\ n \notin DOMAIN memory.objects /\ n # NULL
        /\ slot[b] = NULL /\ b \in Board!Slots /\ DOMAIN slot = Board!Slots
        /\ DOMAIN slot' = Board!Slots
    BY <1>1, OnBoardFacts, SlotNames DEF Shoot
  <1>3. /\ memory'.objects[n] = [isAlive |-> TRUE, guid |-> b, handler |-> address]
        /\ \A i \in DOMAIN memory.objects : memory'.objects[i] = memory.objects[i]
    BY <1>1, <1>2 DEF With
  <1>4. slot'[b] = n /\ \A s \in Board!Slots \ {b} : slot'[s] = slot[s]
    BY <1>1, <1>2
  <1>5. OnBoard(DOMAIN slot)' = here \cup {b} /\ b \notin here
    BY <1>2, <1>4 DEF OnBoard
  <1>6. /\ Object(b)' = [isAlive |-> TRUE, guid |-> b, handler |-> address]
        /\ \A s \in here : Object(s)' = Object(s)
    BY <1>2, <1>3, <1>4, <1>5, OnBoardFacts DEF Object
  <1>7. BoardObj' = [BoardObj EXCEPT ![b] = "alive"]
    <2>1. BoardObj' = [s \in Board!Slots |->
            IF slot'[s] = NULL THEN "null" ELSE IF Object(s)'.isAlive THEN "alive" ELSE "dead"]
      BY <1>2 DEF BoardObj
    <2>2. \A s \in Board!Slots : s # b /\ slot'[s] # NULL => Object(s)' = Object(s)
      BY <1>2, <1>4, <1>6 DEF OnBoard
    <2>3. BoardObj = [s \in Board!Slots |-> BoardObj[s]]
      BY <1>2 DEF BoardObj
    <2>4. ASSUME NEW s \in Board!Slots, s # b PROVE BoardObj'[s] = BoardObj[s]
      BY <1>2, <1>4, <2>1, <2>2, <2>4 DEF BoardObj
    <2>5. BoardObj'[b] = "alive"
      BY <1>2, <1>4, <1>6, <2>1
    <2>6. BoardObj' = [s \in Board!Slots |-> BoardObj'[s]]
      BY <2>1
    <2> HIDE DEF n, here
    <2> QED BY <1>2, <2>3, <2>4, <2>5, <2>6
  <1>8. BoardGUID' = [s \in Board!Slots |-> IF s \in {b} THEN b ELSE BoardGUID[s]]
    <2>1. BoardGUID' = [s \in Board!Slots |->
            IF slot'[s] = NULL THEN 0 ELSE Object(s)'.guid]
      BY <1>2 DEF BoardGUID
    <2>2. \A s \in Board!Slots : s # b /\ slot'[s] # NULL => Object(s)' = Object(s)
      BY <1>2, <1>4, <1>6 DEF OnBoard
    <2> QED BY <1>2, <1>4, <1>6, <2>1, <2>2 DEF BoardGUID
  <1>9. BoardHandlers' = [g \in DOMAIN BoardHandlers \cup {b} |->
                            IF g = b THEN b ELSE BoardHandlers[g]]
    <2>1. DOMAIN registered' = DOMAIN registered \cup {b} /\ registered'[b] = address
          /\ \A g \in DOMAIN registered \ {b} : registered'[g] = registered[g]
      BY <1>1 DEF With
    <2>2. Holds(b)'
      BY <1>5, <1>6, <2>1 DEF Holds
    <2>3. \A g \in DOMAIN registered \ {b} : Holds(g)' <=> Holds(g)
      BY <1>5, <1>6, <2>1 DEF Holds
    <2>4. BoardHandlers' = [g \in DOMAIN registered' |-> IF Holds(g)' THEN g ELSE Dangling]
      BY HandlersSeenNext DEF HandlersAsSeen
    <2>5. BoardHandlers = [g \in DOMAIN registered |-> IF Holds(g) THEN g ELSE Dangling]
      BY HandlersSeen DEF HandlersAsSeen
    <2> QED BY <2>1, <2>2, <2>3, <2>4, <2>5
  <1>10. Board!Unregistered(b, Array(b)) = {b}
    <2>1. Array(b) \subseteq Board!Bullets /\ Array(b) \subseteq DOMAIN slot
      BY SlotNames, <1>2 DEF Array, Board!Slots
    <2>2. ASSUME NEW s \in Array(b), BoardObj[s] # "null" PROVE BoardGUID[s] # 0
      <3>1. s \in here /\ s # 0
        BY <2>1, <2>2, SlotNames DEF BoardObj, OnBoard
      <3>2. Object(s).guid = s
        BY <3>1 DEF HeapInv
      <3> QED BY <2>1, <3>1, <3>2 DEF BoardGUID, OnBoard
    <2> QED BY <2>2 DEF Board!Unregistered, Board!OnBoard
  <1>11. Board!FreeForBullet(b)
    BY <1>2 DEF Board!FreeForBullet, BoardObj
  <1>12. \E last \in {b} : BoardHandlers' = Board!AddToHandlers(b, last)
    BY <1>9 DEF Board!AddToHandlers
  <1> QED
    BY <1>7, <1>8, <1>10, <1>11, <1>12 DEF Board!AddBullet, Board!AddAndRegister

LEMMA KillOnBoard ==
  ASSUME HeapInv, HeapInv', NEW s \in Board!Slots, Kill(s)
  PROVE  BoardObj' = [BoardObj EXCEPT ![s] = "dead"] /\ UNCHANGED <<BoardGUID, BoardHandlers>>
  <1> DEFINE here == OnBoard(DOMAIN slot)
             killed == [isAlive |-> FALSE, guid |-> s, handler |-> Object(s).handler]
  <1>1. s \in here /\ DOMAIN slot = Board!Slots
    BY OnBoardFacts DEF Kill, OnBoard
  <1>2. /\ slot' = slot /\ registered' = registered
        /\ memory' = [objects  |-> With(memory.objects, slot[s], killed),
                      shapes   |-> memory.shapes, handlers |-> memory.handlers]
    BY <1>1, KillEffect
  <1>3. memory'.objects[slot[s]] = killed
        /\ \A i \in DOMAIN memory.objects \ {slot[s]} : memory'.objects[i] = memory.objects[i]
    BY <1>2 DEF With
  <1>4. Object(s)' = killed /\ \A t \in here \ {s} : Object(t)' = Object(t)
    <2>1. \A t \in here \ {s} : slot[t] # slot[s] /\ slot[t] \in DOMAIN memory.objects
      BY <1>1, OnBoardFacts DEF HeapInv, OwnParts
    <2> QED BY <1>2, <1>3, <2>1 DEF Object
  <1>5. \A t \in here :
          Object(t)'.guid = Object(t).guid /\ Object(t)'.handler = Object(t).handler
    BY <1>1, <1>4, OnBoardFacts
  <1>6. BoardObj' = [BoardObj EXCEPT ![s] = "dead"]
    <2>1. \A t \in Board!Slots : slot[t] # NULL <=> t \in here
      BY <1>1 DEF OnBoard
    <2>2. BoardObj' = [t \in Board!Slots |->
            IF slot[t] = NULL THEN "null" ELSE IF Object(t)'.isAlive THEN "alive" ELSE "dead"]
      BY <1>1, <1>2 DEF BoardObj
    <2>3. BoardObj = [t \in Board!Slots |-> BoardObj[t]]
      BY <1>1 DEF BoardObj
    <2>4. ASSUME NEW t \in Board!Slots, t # s PROVE BoardObj'[t] = BoardObj[t]
      BY <1>1, <1>4, <2>1, <2>2, <2>4 DEF BoardObj
    <2>5. BoardObj'[s] = "dead"
      BY <1>1, <1>4, <2>1, <2>2
    <2>6. BoardObj' = [t \in Board!Slots |-> BoardObj'[t]]
      BY <2>2
    <2> HIDE DEF here, killed
    <2> QED BY <1>1, <2>3, <2>4, <2>5, <2>6
  <1>7. BoardGUID' = BoardGUID
    BY <1>1, <1>2, <1>5 DEF BoardGUID, OnBoard
  <1>8. BoardHandlers' = BoardHandlers
    <2>1. \A g \in DOMAIN registered : Holds(g)' <=> Holds(g)
      BY <1>2, <1>5 DEF Holds, OnBoard
    <2>2. BoardHandlers' = [g \in DOMAIN registered' |-> IF Holds(g)' THEN g ELSE Dangling]
      BY HandlersSeenNext DEF HandlersAsSeen
    <2>3. BoardHandlers = [g \in DOMAIN registered |-> IF Holds(g) THEN g ELSE Dangling]
      BY HandlersSeen DEF HandlersAsSeen
    <2> QED BY <1>2, <2>1, <2>2, <2>3
  <1> QED BY <1>6, <1>7, <1>8

LEMMA CleanUpOnBoard ==
  ASSUME HeapInv, HeapInv', CleanUpObjects PROVE Board!CleanUpObjects
  <1> DEFINE here == OnBoard(DOMAIN slot)
             dead == {s \in here : ~Object(s).isAlive}
  <1>1. /\ memory'.objects = memory.objects /\ registered' = registered
        /\ slot' = [s \in DOMAIN slot |-> IF s \in dead THEN NULL ELSE slot[s]]
        /\ numEnemies' = numEnemies - Cardinality(dead \cap Board!Enemies)
        /\ enemyBulletsSize' = enemyBulletsSize - Cardinality(dead \cap Board!EnemyBullets)
        /\ playerBulletsSize' =
             playerBulletsSize - Cardinality(dead \cap {Board!PlayerBullet})
    BY DEF CleanUpObjects, DeleteParts, Forget
  <1>2. DOMAIN slot = Board!Slots
    BY OnBoardFacts
  <1>3. OnBoard(DOMAIN slot)' = here \ dead
    BY <1>1 DEF OnBoard
  <1>4. \A s \in here \ dead : slot'[s] = slot[s] /\ Object(s)' = Object(s)
    BY <1>1 DEF OnBoard, Object
  <1>5. dead = {s \in Board!Slots : BoardObj[s] = "dead"}
    BY <1>2 DEF BoardObj, OnBoard
  <1>6. BoardObj' = [s \in Board!Slots |-> IF s \in dead THEN "null" ELSE BoardObj[s]]
    <2>1. BoardObj' = [s \in Board!Slots |->
            IF slot'[s] = NULL THEN "null" ELSE IF Object(s)'.isAlive THEN "alive" ELSE "dead"]
      BY <1>1, <1>2 DEF BoardObj
    <2> QED BY <1>1, <1>2, <1>4, <2>1 DEF BoardObj, OnBoard
  <1>7. BoardGUID' = [s \in Board!Slots |-> IF s \in dead THEN 0 ELSE BoardGUID[s]]
    <2>1. BoardGUID' = [s \in Board!Slots |-> IF slot'[s] = NULL THEN 0 ELSE Object(s)'.guid]
      BY <1>1, <1>2 DEF BoardGUID
    <2> QED BY <1>1, <1>2, <1>4, <2>1 DEF BoardGUID, OnBoard
  <1>8. BoardHandlers' = [g \in DOMAIN BoardHandlers |->
                            IF BoardHandlers[g] \in dead THEN Dangling ELSE BoardHandlers[g]]
    <2>1. dead \subseteq Board!Slots /\ Dangling \notin dead
      BY <1>2, HeapAssumption DEF OnBoard
    <2>2. \A g \in DOMAIN registered : Holds(g)' <=> Holds(g) /\ g \notin dead
      BY <1>1, <1>3, <1>4 DEF Holds
    <2>3. BoardHandlers' = [g \in DOMAIN registered' |-> IF Holds(g)' THEN g ELSE Dangling]
      BY HandlersSeenNext DEF HandlersAsSeen
    <2>4. BoardHandlers = [g \in DOMAIN registered |-> IF Holds(g) THEN g ELSE Dangling]
      BY HandlersSeen DEF HandlersAsSeen
    <2> HIDE DEF dead
    <2> QED BY <1>1, <2>1, <2>2, <2>3, <2>4
  <1> HIDE DEF dead
  <1>9. /\ numEnemies' = Board!Less(numEnemies, dead \cap Board!Enemies)
        /\ enemyBulletsSize' = Board!Less(enemyBulletsSize, dead \cap Board!EnemyBullets)
        /\ playerBulletsSize' = Board!Less(playerBulletsSize, dead \cap {Board!PlayerBullet})
    BY <1>1 DEF Board!Less, Board!Cardinality, Cardinality
  <1>10. BoardHandlers' = Board!DanglingHandlers(dead)
    BY <1>8 DEF Board!DanglingHandlers
  <1> QED
    BY <1>5, <1>6, <1>7, <1>9, <1>10 DEF Board!CleanUpObjects

LEMMA BoardNext == HeapInv /\ HeapInv' /\ [Next]_vars => [BoardStep]_boardVars
  <1> SUFFICES ASSUME HeapInv, HeapInv', [Next]_vars PROVE [BoardStep]_boardVars
    OBVIOUS
  <1>1. CASE \E b \in Board!Bullets : Shoot(b)
    BY <1>1, ShootOnBoard DEF BoardStep
  <1>2. CASE (\E b \in Board!Bullets : ShootInVain(b)) \/ UNCHANGED vars
    <2>1. memory' = memory /\ UNCHANGED <<slot, registered, sizes>>
      BY <1>2, ShootInVainEffect DEF vars
    <2> QED BY <2>1 DEF boardVars, BoardObj, BoardGUID, BoardHandlers, Reached, OnBoard, Object
  <1>3. CASE \E s \in Board!Enemies \cup Board!Bullets : Kill(s)
    BY <1>3, KillOnBoard DEF BoardStep, Board!Slots
  <1>4. CASE CleanUpObjects
    BY <1>4, CleanUpOnBoard DEF BoardStep
  <1> QED BY <1>1, <1>2, <1>3, <1>4 DEF Next

\* The memory implements the board: each step does to objects, guids and
\* handlers what GameStateManager says, although the addresses of deleted
\* handlers are given out again.
THEOREM HeapImplementsBoard == Spec => ImplementsBoard
  <1> QED
    BY BoardInitial, BoardNext, HeapInductive, PTL DEF Spec, ImplementsBoard
=============================================================================
